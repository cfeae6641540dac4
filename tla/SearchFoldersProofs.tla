-------------------------- MODULE SearchFoldersProofs -------------------------
(***************************************************************************)
(* Proofs about SearchFolders, for any number of search folders, messages, *)
(* folders and threads: every variable has its type, a search thread has   *)
(* its SEARCHFOLDER as long as it runs, and the results of a search folder *)
(* are right when nothing is going on, but for the messages and reasons    *)
(* that the history names; and some thread can always go on, or all have   *)
(* done what they had to do.                                               *)
(***************************************************************************)
EXTENDS SearchFolders, FiniteSetTheorems, SequenceTheorems, TLAPS

-----------------------------------------------------------------------------
(* The invariant: requests, objects and locks.                               *)

Clean(m) == \A r \in Reasons : <<r, m>> \notin spoiled
Orderly == \E m \in Msgs : Clean(m)

(* A request has the search folder it is about, and the object it waits for. *)
ProcInv ==
  /\ \A p \in Procs :
     /\ pc[p] \notin {"idle", "notify"} => arg[p] \in SFolders
     /\ pc[p] \in {"rebuild", "insert", "save"} => op[p] = "set"
     /\ pc[p] = "reset" => op[p] \in {"set", "remove"}
     /\ pc[p] = "notify" => pending[p] \in Event
     /\ pc[p] = "destroy" => /\ inst[p] \in Insts /\ folder[inst[p]] = arg[p]
                             /\ inst[p] \in threadExit
  /\ \A p, q \in Procs : pc[p] = "destroy" /\ pc[q] = "destroy" /\ inst[p] = inst[q] => p = q

(* An object with a search folder has a thread, or had one.                  *)
ObjInv ==
  /\ \A i \in Insts : spc[i] = "none" <=> folder[i] = None
  /\ \A f \in SFolders : active[f] # None => folder[active[f]] = f /\ active[f] \notin threadExit
  /\ \A i \in threadExit : folder[i] # None

(* While requests do not cross, a search folder in the map has one object.   *)
Sole ==
  /\ \A i \in Insts : folder[i] # None /\ i \notin threadExit => active[folder[i]] = i
  /\ \A f \in SFolders : active[f] # None => \A i \in Insts : folder[i] = f => i = active[f]

SoleInv == Orderly => Sole

(* What a search has read it writes under the row lock.                      *)
RowInv ==
  /\ \A i \in Insts : spc[i] = "commit" => rowLock[folder[i]] = i
  /\ \A i \in Insts : found[i] # {} => spc[i] = "commit"
  /\ \A i \in Insts : todo[i] # {} => spc[i] \in {"batch", "commit"}
  /\ ppc = "update" => cur \in left /\ rowLock[cur] = "process"

(* What the process thread has in hand; the map is locked with a group.      *)
QueueInv ==
  /\ ppc \in {"top", "waiting", "flush"} => batch = <<>>
  /\ ppc \notin {"folder", "update"} => group = NoGroup
  /\ ppc \in {"folder", "update"} => group \in Group
  /\ ppc # "update" => hits = {}
  /\ hits \subseteq group.msgs
  /\ \A f \in left : active[f] # None /\ MapLocked

Stopping(f) == \E q \in Procs : pc[q] = "stopped" /\ arg[q] = f
Phase(f) == IF active[f] = None THEN "none" ELSE spc[active[f]]

(* Results that the status calls complete are complete.                      *)
Complete ==
  /\ \A p \in Procs : pc[p] \in {"reset", "insert"} /\ op[p] = "set" =>
       status[arg[p]] # "RUNNING" \/ Objects(arg[p]) # {} \/ Stopping(arg[p])
  /\ \A f \in SFolders : status[f] = "RUNNING" /\ active[f] # None =>
       f \in current \/ Stopping(f)
  /\ \A f \in current : Phase(f) \in {"status", "complete", "finished"}
  /\ \A f \in SFolders : Phase(f) = "status" => f \in current
CurrentInv == Orderly => Complete

-----------------------------------------------------------------------------
(* Lemmas about the steps. *)

(* The folder of an event is a number. *)
LEMMA EventPlace ==
  ASSUME NEW s \in Seq(Event), NEW k \in DOMAIN s
  PROVE  s[k] \in Event /\ s[k].place \in Int
<1>1. s[k] \in Event
  OBVIOUS
<1>2. \A e \in Event : e.place \in Places
  BY DEF Event
<1>3. Places \subseteq Int
  BY SearchFoldersAssumption
<1> HIDE DEF Event
<1> QED
  BY <1>1, <1>2, <1>3

(* The order in which FOLDERSORT puts the events of s. *)
Before(s, i, j) == s[i].place < s[j].place \/ (s[i].place = s[j].place /\ i <= j)
UpTo(s, i) == {j \in DOMAIN s : Before(s, j, i)}
Rank(s, i) == Cardinality(UpTo(s, i))

(* An event with its rank: later ones that are not before it rank higher.    *)
LEMMA RankIsMonotonic ==
  ASSUME NEW s \in Seq(Event)
  PROVE  \A i, j \in DOMAIN s : /\ Rank(s, i) \in 1..Len(s)
                                /\ i # j /\ Before(s, i, j) => Rank(s, i) < Rank(s, j)
<1> SUFFICES ASSUME NEW i \in DOMAIN s, NEW j \in DOMAIN s
             PROVE  /\ Rank(s, i) \in 1..Len(s)
                    /\ i # j /\ Before(s, i, j) => Rank(s, i) < Rank(s, j)
  OBVIOUS
<1>1. DOMAIN s = 1..Len(s) /\ Len(s) \in Nat
  OBVIOUS
<1>2. \A k \in DOMAIN s : s[k].place \in Int
  BY EventPlace
<1>3. IsFiniteSet(1..Len(s)) /\ Cardinality(1..Len(s)) = Len(s)
  <2>1. /\ IsFiniteSet(1..Len(s))
        /\ Cardinality(1..Len(s)) = IF 1 > Len(s) THEN 0 ELSE Len(s) - 1 + 1
    BY <1>1, FS_Interval
  <2> QED
    BY <1>1, <2>1
<1>4. \A k \in DOMAIN s : /\ UpTo(s, k) \in SUBSET (1..Len(s)) /\ IsFiniteSet(UpTo(s, k))
                          /\ Rank(s, k) \in Nat /\ Rank(s, k) <= Len(s)
  <2> SUFFICES ASSUME NEW k \in DOMAIN s
               PROVE  /\ UpTo(s, k) \in SUBSET (1..Len(s)) /\ IsFiniteSet(UpTo(s, k))
                      /\ Rank(s, k) \in Nat /\ Rank(s, k) <= Len(s)
    OBVIOUS
  <2>1. UpTo(s, k) \in SUBSET (1..Len(s))
    BY <1>1 DEF UpTo
  <2> QED
    BY <1>3, <2>1, FS_Subset, FS_CardinalityType DEF Rank
<1>5. i \in UpTo(s, i)
  BY <1>1, <1>2 DEF UpTo, Before
<1>6. Rank(s, i) # 0
  BY <1>4, <1>5, FS_EmptySet DEF Rank
<1>7. ASSUME i # j, Before(s, i, j) PROVE Rank(s, i) < Rank(s, j)
  <2>1. UpTo(s, i) \subseteq UpTo(s, j)
    BY <1>1, <1>2, <1>7 DEF UpTo, Before
  <2>2. j \notin UpTo(s, i) /\ j \in UpTo(s, j)
    BY <1>1, <1>2, <1>7 DEF UpTo, Before
  <2>3. Rank(s, i) <= Rank(s, j) /\ (Rank(s, j) = Rank(s, i) => UpTo(s, j) = UpTo(s, i))
    BY <1>4, <2>1, FS_Subset DEF Rank
  <2> QED
    BY <1>4, <2>2, <2>3
<1> QED
  BY <1>4, <1>6, <1>7

(* The sorted events are those of s, each in the place of its rank.          *)
LEMMA SortPermutes ==
  ASSUME NEW s \in Seq(Event)
  PROVE  /\ SortByPlace(s) \in Seq(Event) /\ DOMAIN SortByPlace(s) = DOMAIN s
         /\ \A i \in DOMAIN s : Rank(s, i) \in DOMAIN s /\ SortByPlace(s)[Rank(s, i)] = s[i]
         /\ \A k \in DOMAIN s : \E i \in DOMAIN s : Rank(s, i) = k
<1> DEFINE D == DOMAIN s
           r == [i \in D |-> Rank(s, i)]
<1>1. D = 1..Len(s) /\ Len(s) \in Nat
  OBVIOUS
<1>2. IsFiniteSet(D)
  BY <1>1, FS_Interval
<1>3. \A i, j \in D : i # j => Rank(s, i) # Rank(s, j)
  <2>1. \A i, j \in D : Before(s, i, j) \/ Before(s, j, i)
    <3>1. \A k \in D : s[k].place \in Int
      BY EventPlace
    <3> QED
      BY <1>1, <3>1 DEF Before
  <2> QED
    BY <1>1, <2>1, RankIsMonotonic
<1>4. r \in Injection(D, D)
  BY <1>1, <1>3, RankIsMonotonic DEF Injection, IsInjective
<1>5. r \in Surjection(D, D)
  BY <1>2, <1>4, FS_Injection
<1>6. \A k \in D : \E i \in D : Rank(s, i) = k
  BY <1>5 DEF Surjection
<1>7. SortByPlace(s) = [k \in D |-> s[CHOOSE i \in D : Rank(s, i) = k]]
  BY DEF SortByPlace, Rank, UpTo, Before
<1>8. \A i \in D : Rank(s, i) \in D /\ (CHOOSE j \in D : Rank(s, j) = Rank(s, i)) = i
  BY <1>1, <1>3, RankIsMonotonic
<1>9. \A k \in D : (CHOOSE i \in D : Rank(s, i) = k) \in D
  BY <1>6
<1> HIDE DEF r
<1>10. SortByPlace(s) \in [D -> Event]
  BY <1>1, <1>7, <1>9
<1>11. SortByPlace(s) \in Seq(Event) /\ DOMAIN SortByPlace(s) = D
  BY <1>1, <1>10
<1> QED
  BY <1>6, <1>7, <1>8, <1>11

(* The search folders that LoadSearchFolders takes up, and those it rebuilds. *)
Load == {f \in saved : status[f] # "STOPPED"}
Rebuild == {f \in Load : status[f] = "REBUILD"}

(* After a restart each search folder that was taken up has its object.      *)
LEMMA RestartEffect ==
  ASSUME TypeOK, Restart
  PROVE  /\ active' \in [SFolders -> Insts \cup {None}]
         /\ folder' \in [Insts -> SFolders \cup {None}] /\ spc' \in [Insts -> SearchPc]
         /\ \A f \in SFolders : IF f \in Load THEN active'[f] \in Insts /\ folder'[active'[f]] = f
                                ELSE active'[f] = None
         /\ \A i \in Insts : folder'[i] # None => folder'[i] \in Load /\ active'[folder'[i]] = i
         /\ \A i \in Insts : spc'[i] = IF folder'[i] = None THEN "none"
                                       ELSE IF folder'[i] \in Rebuild THEN "reset" ELSE "finished"
         /\ results' = [f \in SFolders |-> IF f \in Rebuild THEN {} ELSE results[f]]
         /\ current' = current \cap (Load \ Rebuild)
         /\ spoiled' = spoiled \cup {"restart"} \X Unprocessed \cup {"crash"} \X Unreported \cup
              (IF Load \ Rebuild \subseteq current THEN {} ELSE {"halfbuilt"} \X Msgs)
<1> DEFINE OK(obj) == /\ \A f \in SFolders : obj[f] # None <=> f \in Load
                      /\ \A f, g \in Load : obj[f] = obj[g] => f = g
           objs == [SFolders -> Insts \cup {None}]
           obj == CHOOSE o \in objs : OK(o)
<1>1. Load \subseteq SFolders /\ Rebuild \subseteq Load
  BY DEF TypeOK, Load, Rebuild
<1>2. obj \in objs /\ OK(obj)
  <2>1. PICK o \in [SFolders -> Insts] : \A f, g \in SFolders : o[f] = o[g] => f = g
    BY SearchFoldersAssumption
  <2> DEFINE q == [f \in SFolders |-> IF f \in Load THEN o[f] ELSE None]
  <2>2. None \notin Insts
    BY SearchFoldersAssumption
  <2>3. q \in objs /\ OK(q)
    BY <1>1, <2>1, <2>2
  <2> HIDE DEF q, OK, objs
  <2> QED
    BY <2>3
<1>3. /\ active' = obj
      /\ folder' = [i \in Insts |->
            IF \E f \in Load : obj[f] = i THEN CHOOSE f \in Load : obj[f] = i ELSE None]
      /\ spc' = [i \in Insts |->
            IF \E f \in Rebuild : obj[f] = i THEN "reset"
            ELSE IF \E f \in Load : obj[f] = i THEN "finished" ELSE "none"]
  BY DEF Restart, Load, Rebuild
<1> HIDE DEF obj
<1>4. None \notin SFolders /\ None \notin Insts
  BY SearchFoldersAssumption
<1>5. \A i \in Insts : IF \E f \in Load : obj[f] = i
                       THEN folder'[i] \in Load /\ obj[folder'[i]] = i ELSE folder'[i] = None
  BY <1>1, <1>3
<1>6. \A f \in Load : obj[f] \in Insts /\ folder'[obj[f]] = f
  <2> SUFFICES ASSUME NEW f \in Load PROVE obj[f] \in Insts /\ folder'[obj[f]] = f
    OBVIOUS
  <2>1. obj[f] \in Insts
    BY <1>1, <1>2
  <2>2. folder'[obj[f]] \in Load /\ obj[folder'[obj[f]]] = obj[f]
    BY <1>5, <2>1
  <2> QED
    BY <1>2, <2>1, <2>2
<1>7. \A f \in SFolders : IF f \in Load THEN active'[f] \in Insts /\ folder'[active'[f]] = f
                          ELSE active'[f] = None
  BY <1>2, <1>3, <1>6
<1>8. \A i \in Insts : spc'[i] = IF folder'[i] = None THEN "none"
                                 ELSE IF folder'[i] \in Rebuild THEN "reset" ELSE "finished"
  <2> SUFFICES ASSUME NEW i \in Insts
               PROVE  spc'[i] = IF folder'[i] = None THEN "none"
                                ELSE IF folder'[i] \in Rebuild THEN "reset" ELSE "finished"
    OBVIOUS
  <2>1. CASE \E f \in Load : obj[f] = i
    <3>1. folder'[i] \in Load /\ obj[folder'[i]] = i /\ folder'[i] # None
      BY <1>1, <1>4, <1>5, <2>1
    <3>2. (\E f \in Rebuild : obj[f] = i) <=> folder'[i] \in Rebuild
      BY <1>1, <1>2, <3>1
    <3> QED
      BY <1>3, <2>1, <3>1, <3>2
  <2>2. CASE ~ \E f \in Load : obj[f] = i
    BY <1>1, <1>3, <1>5, <2>2
  <2> QED
    BY <2>1, <2>2
<1>9. /\ active' \in [SFolders -> Insts \cup {None}]
      /\ folder' \in [Insts -> SFolders \cup {None}] /\ spc' \in [Insts -> SearchPc]
  <2>1. \A i \in Insts : folder'[i] \in SFolders \cup {None}
    BY <1>1, <1>5
  <2>2. \A i \in Insts : spc'[i] \in SearchPc
    BY <1>8 DEF SearchPc
  <2> QED
    BY <1>2, <1>3, <2>1, <2>2
<1>10. \A i \in Insts : folder'[i] # None => folder'[i] \in Load /\ active'[folder'[i]] = i
  BY <1>3, <1>5
<1>11. /\ results' = [f \in SFolders |-> IF f \in Rebuild THEN {} ELSE results[f]]
       /\ current' = current \cap (Load \ Rebuild)
       /\ spoiled' = spoiled \cup {"restart"} \X Unprocessed \cup {"crash"} \X Unreported \cup
            (IF Load \ Rebuild \subseteq current THEN {} ELSE {"halfbuilt"} \X Msgs)
  BY DEF Restart, Load, Rebuild
<1> QED
  BY <1>7, <1>8, <1>9, <1>10, <1>11

(* A new search gets an object that has none. *)
Inserts(p, i) ==
  /\ pc[p] = "insert" /\ ~MapLocked /\ Concurrent(Objects(arg[p]) # {})
  /\ folder[i] = None /\ NewSearchFolder(i, arg[p]) /\ SearchGoto(i, "reset")
  /\ Goto(p, "save")
  /\ UNCHANGED <<msgVars, rowVars, threadExit, todo, found, eventVars, op,
                 arg, inst, pending, current, boundVars>>

(* InsertSearchFolder uses such an object. *)
LEMMA InsertEffect ==
  ASSUME NEW p \in Procs, InsertSearchFolder(p)
  PROVE  \E i \in Insts : Inserts(p, i)
<1> DEFINE i == CHOOSE i \in Objects(None) : TRUE
<1>1. i \in Insts /\ folder[i] = None
  BY DEF InsertSearchFolder, Objects
<1>2. NewSearchFolder(i, arg[p]) /\ SearchGoto(i, "reset")
  BY DEF InsertSearchFolder
<1> HIDE DEF i
<1> QED
  BY <1>1, <1>2 DEF InsertSearchFolder, Inserts

(* What has been spoiled stays so. *)
LEMMA SpoiledGrows ==
  TypeOK /\ [Next]_vars => spoiled \subseteq spoiled'
<1> SUFFICES ASSUME TypeOK, [Next]_vars
             PROVE  spoiled \subseteq spoiled'
  OBVIOUS
<1> USE DEF Goto, Continue, SearchGoto, NoFault, Mishap,
       msgVars, rowVars, objVars, searchVars, eventVars, procVars, boundVars
<1>1. ASSUME NEW p \in Procs, NEW f \in SFolders, NEW o \in {"set", "stop", "remove"},
             CancelSearchFolder(p, f, o)
      PROVE  spoiled \subseteq spoiled'
  BY <1>1 DEF CancelSearchFolder, AfterCancel
<1>2. ASSUME NEW p \in Procs, NEW m \in Msgs, NEW to \in Places \cup {-1}, NEW b \in BOOLEAN,
             ChangeMessage(p, m, to, b)
      PROVE  spoiled \subseteq spoiled'
  BY <1>2 DEF ChangeMessage
<1>3. ASSUME NEW p \in Procs, DestroySearchFolder(p)
      PROVE  spoiled \subseteq spoiled'
  BY <1>3 DEF DestroySearchFolder, Delete
<1>4. ASSUME NEW p \in Procs, SetStopped(p) PROVE spoiled \subseteq spoiled'
  BY <1>4 DEF SetStopped, AfterCancel
<1>5. ASSUME NEW p \in Procs, SetRebuild(p) PROVE spoiled \subseteq spoiled'
  BY <1>5 DEF SetRebuild
<1>6. ASSUME NEW p \in Procs, ResetResults(p) PROVE spoiled \subseteq spoiled'
  BY <1>6 DEF ResetResults, Clear, Concurrent
<1>7. ASSUME NEW p \in Procs, InsertSearchFolder(p)
      PROVE  spoiled \subseteq spoiled'
  BY <1>7 DEF InsertSearchFolder, Concurrent
<1>8. ASSUME NEW p \in Procs, SaveSearchCriteria(p)
      PROVE  spoiled \subseteq spoiled'
  BY <1>8 DEF SaveSearchCriteria
<1>9. ASSUME NEW p \in Procs, UpdateSearchFolders(p)
      PROVE  spoiled \subseteq spoiled'
  BY <1>9 DEF UpdateSearchFolders, Queue
<1>10. ASSUME NEW i \in Insts, SearchReset(i) PROVE spoiled \subseteq spoiled'
  BY <1>10 DEF SearchReset, Clear
<1>11. ASSUME NEW i \in Insts, SearchSelect(i) PROVE spoiled \subseteq spoiled'
  BY <1>11 DEF SearchSelect
<1>12. ASSUME NEW i \in Insts, ReadRows(i) PROVE spoiled \subseteq spoiled'
  BY <1>12 DEF ReadRows, ReadBatch, Matching
<1>13. ASSUME NEW i \in Insts, AddResults(i) PROVE spoiled \subseteq spoiled'
  BY <1>13 DEF AddResults
<1>14. ASSUME NEW i \in Insts, SearchDone(i) PROVE spoiled \subseteq spoiled'
  BY <1>14 DEF SearchDone
<1>15. ASSUME NEW i \in Insts, SetRunning(i) PROVE spoiled \subseteq spoiled'
  BY <1>15 DEF SetRunning
<1>16. ASSUME NEW i \in Insts, ThreadFree(i) PROVE spoiled \subseteq spoiled'
  BY <1>16 DEF ThreadFree
<1>17. CASE ProcessTop
  BY <1>17 DEF ProcessTop
<1>18. CASE FlushEvents
  BY <1>18 DEF FlushEvents
<1>19. CASE NextGroup
  BY <1>19 DEF NextGroup, TakeGroup
<1>20. CASE Update
  BY <1>20 DEF Update
<1>21. CASE GroupDone
  BY <1>21 DEF GroupDone
<1>22. ASSUME NEW f \in SFolders, LockFolder(f) PROVE spoiled \subseteq spoiled'
  BY <1>22 DEF LockFolder
<1>23. ASSUME NEW f \in SFolders, GiveUp(f) PROVE spoiled \subseteq spoiled'
  BY <1>23 DEF GiveUp
<1>24. CASE Restart
  BY <1>24, RestartEffect
<1>25. CASE UNCHANGED vars
  BY <1>25 DEF vars
<1> QED
  BY <1>1, <1>2, <1>3, <1>4, <1>5, <1>6, <1>7, <1>8, <1>9, <1>10, <1>11, <1>12,
     <1>13, <1>14, <1>15, <1>16, <1>17, <1>18, <1>19, <1>20, <1>21, <1>22, <1>23,
     <1>24, <1>25
     DEF Next, Threads, ProcStep, Process, Search

(* Requests do not cross when a message is left clean. *)
LEMMA NotConcurrent ==
  ASSUME NEW busy, NEW m \in Msgs, Clean(m)', Concurrent(busy)
  PROVE  ~busy
<1>1. <<"concurrent", m>> \notin spoiled'
  BY DEF Clean, Reasons
<1> QED
  BY <1>1 DEF Concurrent

(* What the history names it keeps. *)
LEMMA OrderlyWasOrderly == TypeOK /\ [Next]_vars /\ Orderly' => Orderly
  BY SpoiledGrows DEF Orderly, Clean

(* Requests keep what they are about. *)
LEMMA ProcNext ==
  TypeOK /\ ObjInv /\ ProcInv /\ [Next]_vars => ProcInv'
<1> SUFFICES ASSUME TypeOK, ObjInv, ProcInv, [Next]_vars
             PROVE  ProcInv'
  OBVIOUS
<1> USE DEF TypeOK, ProcInv, Goto, Continue, SearchGoto, NoFault, Mishap,
       msgVars, rowVars, objVars, searchVars, eventVars, procVars, boundVars
<1>1. ASSUME NEW p \in Procs, NEW f \in SFolders, NEW o \in {"set", "stop", "remove"},
             CancelSearchFolder(p, f, o)
      PROVE  ProcInv'
  <2>1. active[f] # None => folder[active[f]] = f /\ active[f] \notin threadExit
    BY DEF ObjInv
  <2> QED
    BY <1>1, <2>1 DEF CancelSearchFolder, AfterCancel
<1>2. ASSUME NEW p \in Procs, NEW m \in Msgs, NEW to \in Places \cup {-1}, NEW b \in BOOLEAN,
             ChangeMessage(p, m, to, b)
      PROVE  ProcInv'
  <2>1. place[m] # -1 => place[m] \in Places \cup {0}
    OBVIOUS
  <2>2. pending'[p] \in Event
    BY <1>2, <2>1 DEF ChangeMessage, Event
  <2> QED
    BY <1>2, <2>2 DEF ChangeMessage
<1>3. ASSUME NEW p \in Procs, DestroySearchFolder(p) PROVE ProcInv'
  BY <1>3 DEF DestroySearchFolder, Delete
<1>4. ASSUME NEW p \in Procs, SetStopped(p) PROVE ProcInv'
  BY <1>4 DEF SetStopped, AfterCancel
<1>5. ASSUME NEW p \in Procs, SetRebuild(p) PROVE ProcInv'
  BY <1>5 DEF SetRebuild
<1>6. ASSUME NEW p \in Procs, ResetResults(p) PROVE ProcInv'
  BY <1>6 DEF ResetResults, Clear, Concurrent
<1>7. ASSUME NEW p \in Procs, InsertSearchFolder(p) PROVE ProcInv'
  <2>1. PICK i \in Insts : Inserts(p, i)
    BY <1>7, InsertEffect
  <2>2. arg[p] \in SFolders /\ None \notin SFolders
    BY <2>1, SearchFoldersAssumption DEF Inserts, ProcInv
  <2> QED
    BY <2>1, <2>2 DEF Inserts, NewSearchFolder
<1>8. ASSUME NEW p \in Procs, SaveSearchCriteria(p) PROVE ProcInv'
  BY <1>8 DEF SaveSearchCriteria
<1>9. ASSUME NEW p \in Procs, UpdateSearchFolders(p) PROVE ProcInv'
  BY <1>9 DEF UpdateSearchFolders, Queue
<1>10. ASSUME NEW i \in Insts, SearchReset(i) PROVE ProcInv'
  BY <1>10 DEF SearchReset, Clear
<1>11. ASSUME NEW i \in Insts, SearchSelect(i) PROVE ProcInv'
  BY <1>11 DEF SearchSelect
<1>12. ASSUME NEW i \in Insts, ReadRows(i) PROVE ProcInv'
  BY <1>12 DEF ReadRows, ReadBatch, Matching
<1>13. ASSUME NEW i \in Insts, AddResults(i) PROVE ProcInv'
  BY <1>13 DEF AddResults
<1>14. ASSUME NEW i \in Insts, SearchDone(i) PROVE ProcInv'
  BY <1>14 DEF SearchDone
<1>15. ASSUME NEW i \in Insts, SetRunning(i) PROVE ProcInv'
  BY <1>15 DEF SetRunning
<1>16. ASSUME NEW i \in Insts, ThreadFree(i) PROVE ProcInv'
  BY <1>16 DEF ThreadFree
<1>17. CASE ProcessTop
  BY <1>17 DEF ProcessTop
<1>18. CASE FlushEvents
  BY <1>18 DEF FlushEvents
<1>19. CASE NextGroup
  BY <1>19 DEF NextGroup, TakeGroup
<1>20. CASE Update
  BY <1>20 DEF Update
<1>21. CASE GroupDone
  BY <1>21 DEF GroupDone
<1>22. ASSUME NEW f \in SFolders, LockFolder(f) PROVE ProcInv'
  BY <1>22 DEF LockFolder
<1>23. ASSUME NEW f \in SFolders, GiveUp(f) PROVE ProcInv'
  BY <1>23 DEF GiveUp
<1>24. CASE Restart
  BY <1>24 DEF Restart
<1>25. CASE UNCHANGED vars
  BY <1>25 DEF vars
<1> QED
  BY <1>1, <1>2, <1>3, <1>4, <1>5, <1>6, <1>7, <1>8, <1>9, <1>10, <1>11, <1>12,
     <1>13, <1>14, <1>15, <1>16, <1>17, <1>18, <1>19, <1>20, <1>21, <1>22, <1>23,
     <1>24, <1>25
     DEF Next, Threads, ProcStep, Process, Search

(* Objects keep their threads. *)
LEMMA ObjNext ==
  TypeOK /\ ProcInv /\ ObjInv /\ [Next]_vars => ObjInv'
<1> SUFFICES ASSUME TypeOK, ProcInv, ObjInv, [Next]_vars
             PROVE  ObjInv'
  OBVIOUS
<1> USE SearchFoldersAssumption DEF TypeOK, ObjInv, Goto, Continue, SearchGoto, NoFault, Mishap,
       msgVars, rowVars, objVars, searchVars, eventVars, procVars, boundVars
<1>1. ASSUME NEW p \in Procs, NEW f \in SFolders, NEW o \in {"set", "stop", "remove"},
             CancelSearchFolder(p, f, o)
      PROVE  ObjInv'
  BY <1>1 DEF CancelSearchFolder, AfterCancel
<1>2. ASSUME NEW p \in Procs, NEW m \in Msgs, NEW to \in Places \cup {-1}, NEW b \in BOOLEAN,
             ChangeMessage(p, m, to, b)
      PROVE  ObjInv'
  BY <1>2 DEF ChangeMessage
<1>3. ASSUME NEW p \in Procs, DestroySearchFolder(p) PROVE ObjInv'
  <2>1. inst[p] \in Insts /\ folder[inst[p]] = arg[p] /\ inst[p] \in threadExit
    BY <1>3 DEF DestroySearchFolder, ProcInv
  <2> QED
    BY <1>3, <2>1 DEF DestroySearchFolder, Delete
<1>4. ASSUME NEW p \in Procs, SetStopped(p) PROVE ObjInv'
  BY <1>4 DEF SetStopped, AfterCancel
<1>5. ASSUME NEW p \in Procs, SetRebuild(p) PROVE ObjInv'
  BY <1>5 DEF SetRebuild
<1>6. ASSUME NEW p \in Procs, ResetResults(p) PROVE ObjInv'
  BY <1>6 DEF ResetResults, Clear, Concurrent
<1>7. ASSUME NEW p \in Procs, InsertSearchFolder(p) PROVE ObjInv'
  <2>1. PICK i \in Insts : Inserts(p, i)
    BY <1>7, InsertEffect
  <2>2. arg[p] \in SFolders /\ None \notin SFolders
    BY <2>1, SearchFoldersAssumption DEF Inserts, ProcInv
  <2> QED
    BY <2>1, <2>2 DEF Inserts, NewSearchFolder
<1>8. ASSUME NEW p \in Procs, SaveSearchCriteria(p) PROVE ObjInv'
  BY <1>8 DEF SaveSearchCriteria
<1>9. ASSUME NEW p \in Procs, UpdateSearchFolders(p) PROVE ObjInv'
  BY <1>9 DEF UpdateSearchFolders, Queue
<1>10. ASSUME NEW i \in Insts, SearchReset(i) PROVE ObjInv'
  BY <1>10 DEF SearchReset, Clear
<1>11. ASSUME NEW i \in Insts, SearchSelect(i) PROVE ObjInv'
  BY <1>11 DEF SearchSelect
<1>12. ASSUME NEW i \in Insts, ReadRows(i) PROVE ObjInv'
  BY <1>12 DEF ReadRows, ReadBatch, Matching
<1>13. ASSUME NEW i \in Insts, AddResults(i) PROVE ObjInv'
  BY <1>13 DEF AddResults
<1>14. ASSUME NEW i \in Insts, SearchDone(i) PROVE ObjInv'
  BY <1>14 DEF SearchDone
<1>15. ASSUME NEW i \in Insts, SetRunning(i) PROVE ObjInv'
  BY <1>15 DEF SetRunning
<1>16. ASSUME NEW i \in Insts, ThreadFree(i) PROVE ObjInv'
  BY <1>16 DEF ThreadFree
<1>17. CASE ProcessTop
  BY <1>17 DEF ProcessTop
<1>18. CASE FlushEvents
  BY <1>18 DEF FlushEvents
<1>19. CASE NextGroup
  BY <1>19 DEF NextGroup, TakeGroup
<1>20. CASE Update
  BY <1>20 DEF Update
<1>21. CASE GroupDone
  BY <1>21 DEF GroupDone
<1>22. ASSUME NEW f \in SFolders, LockFolder(f) PROVE ObjInv'
  BY <1>22 DEF LockFolder
<1>23. ASSUME NEW f \in SFolders, GiveUp(f) PROVE ObjInv'
  BY <1>23 DEF GiveUp
<1>24. CASE Restart
  <2>1. threadExit' = {}
    BY <1>24 DEF Restart
  <2> HIDE DEF TypeOK
  <2>2. TypeOK
    OBVIOUS
  <2>3. Load \subseteq SFolders
    BY DEF Load, TypeOK
  <2> QED
    BY <1>24, <2>1, <2>2, <2>3, RestartEffect
<1>25. CASE UNCHANGED vars
  BY <1>25 DEF vars
<1> QED
  BY <1>1, <1>2, <1>3, <1>4, <1>5, <1>6, <1>7, <1>8, <1>9, <1>10, <1>11, <1>12,
     <1>13, <1>14, <1>15, <1>16, <1>17, <1>18, <1>19, <1>20, <1>21, <1>22, <1>23,
     <1>24, <1>25
     DEF Next, Threads, ProcStep, Process, Search

(* A search folder in the map has one object. *)
LEMMA SoleNext ==
  TypeOK /\ ProcInv /\ ObjInv /\ Sole /\ Orderly' /\ [Next]_vars => Sole'
<1> SUFFICES ASSUME TypeOK, ProcInv, ObjInv, Sole, Orderly', [Next]_vars
             PROVE  Sole'
  OBVIOUS
<1> USE SearchFoldersAssumption DEF TypeOK, Sole, Goto, Continue, SearchGoto, NoFault, Mishap,
       msgVars, rowVars, objVars, searchVars, eventVars, procVars, boundVars
<1>1. ASSUME NEW p \in Procs, NEW f \in SFolders, NEW o \in {"set", "stop", "remove"},
             CancelSearchFolder(p, f, o)
      PROVE  Sole'
  <2>1. active[f] # None => folder[active[f]] = f
    BY DEF ObjInv
  <2> QED
    BY <1>1, <2>1 DEF CancelSearchFolder, AfterCancel
<1>2. ASSUME NEW p \in Procs, NEW m \in Msgs, NEW to \in Places \cup {-1}, NEW b \in BOOLEAN,
             ChangeMessage(p, m, to, b)
      PROVE  Sole'
  BY <1>2 DEF ChangeMessage
<1>3. ASSUME NEW p \in Procs, DestroySearchFolder(p) PROVE Sole'
  <2>1. inst[p] \in Insts /\ folder[inst[p]] = arg[p] /\ inst[p] \in threadExit
    BY <1>3 DEF DestroySearchFolder, ProcInv
  <2>2. \A f \in SFolders : active[f] # inst[p]
    BY <2>1 DEF ObjInv
  <2> QED
    BY <1>3, <2>1, <2>2 DEF DestroySearchFolder, Delete
<1>4. ASSUME NEW p \in Procs, SetStopped(p) PROVE Sole'
  BY <1>4 DEF SetStopped, AfterCancel
<1>5. ASSUME NEW p \in Procs, SetRebuild(p) PROVE Sole'
  BY <1>5 DEF SetRebuild
<1>6. ASSUME NEW p \in Procs, ResetResults(p) PROVE Sole'
  BY <1>6 DEF ResetResults, Clear, Concurrent
<1>7. ASSUME NEW p \in Procs, InsertSearchFolder(p) PROVE Sole'
  <2>1. PICK j \in Insts : Inserts(p, j)
    BY <1>7, InsertEffect
  <2>2. arg[p] \in SFolders /\ None \notin SFolders
    BY <2>1, SearchFoldersAssumption DEF Inserts, ProcInv
  <2>3. Objects(arg[p]) = {}
    BY <2>1, NotConcurrent DEF Inserts, Orderly
  <2>4. active[arg[p]] = None
    BY <2>2, <2>3 DEF Objects, ObjInv
  <2> QED
    BY <2>1, <2>2, <2>3, <2>4 DEF Inserts, NewSearchFolder, Objects
<1>8. ASSUME NEW p \in Procs, SaveSearchCriteria(p) PROVE Sole'
  BY <1>8 DEF SaveSearchCriteria
<1>9. ASSUME NEW p \in Procs, UpdateSearchFolders(p) PROVE Sole'
  BY <1>9 DEF UpdateSearchFolders, Queue
<1>10. ASSUME NEW i \in Insts, SearchReset(i) PROVE Sole'
  BY <1>10 DEF SearchReset, Clear
<1>11. ASSUME NEW i \in Insts, SearchSelect(i) PROVE Sole'
  BY <1>11 DEF SearchSelect
<1>12. ASSUME NEW i \in Insts, ReadRows(i) PROVE Sole'
  BY <1>12 DEF ReadRows, ReadBatch, Matching
<1>13. ASSUME NEW i \in Insts, AddResults(i) PROVE Sole'
  BY <1>13 DEF AddResults
<1>14. ASSUME NEW i \in Insts, SearchDone(i) PROVE Sole'
  BY <1>14 DEF SearchDone
<1>15. ASSUME NEW i \in Insts, SetRunning(i) PROVE Sole'
  BY <1>15 DEF SetRunning
<1>16. ASSUME NEW i \in Insts, ThreadFree(i) PROVE Sole'
  BY <1>16 DEF ThreadFree
<1>17. CASE ProcessTop
  BY <1>17 DEF ProcessTop
<1>18. CASE FlushEvents
  BY <1>18 DEF FlushEvents
<1>19. CASE NextGroup
  BY <1>19 DEF NextGroup, TakeGroup
<1>20. CASE Update
  BY <1>20 DEF Update
<1>21. CASE GroupDone
  BY <1>21 DEF GroupDone
<1>22. ASSUME NEW f \in SFolders, LockFolder(f) PROVE Sole'
  BY <1>22 DEF LockFolder
<1>23. ASSUME NEW f \in SFolders, GiveUp(f) PROVE Sole'
  BY <1>23 DEF GiveUp
<1>24. CASE Restart
  <2> HIDE DEF TypeOK
  <2>1. TypeOK /\ Load \subseteq SFolders
    BY DEF Load, TypeOK
  <2> QED
    BY <1>24, <2>1, RestartEffect
<1>25. CASE UNCHANGED vars
  BY <1>25 DEF vars
<1> QED
  BY <1>1, <1>2, <1>3, <1>4, <1>5, <1>6, <1>7, <1>8, <1>9, <1>10, <1>11, <1>12,
     <1>13, <1>14, <1>15, <1>16, <1>17, <1>18, <1>19, <1>20, <1>21, <1>22, <1>23,
     <1>24, <1>25
     DEF Next, Threads, ProcStep, Process, Search

(* Locks are held by those who read. *)
LEMMA RowNext ==
  TypeOK /\ ProcInv /\ ObjInv /\ RowInv /\ [Next]_vars => RowInv'
<1> SUFFICES ASSUME TypeOK, ProcInv, ObjInv, RowInv, [Next]_vars
             PROVE  RowInv'
  OBVIOUS
<1> USE SearchFoldersAssumption DEF TypeOK, RowInv, Goto, Continue, SearchGoto, NoFault, Mishap,
       msgVars, rowVars, objVars, searchVars, eventVars, procVars, boundVars
<1>1. ASSUME NEW p \in Procs, NEW f \in SFolders, NEW o \in {"set", "stop", "remove"},
             CancelSearchFolder(p, f, o)
      PROVE  RowInv'
  BY <1>1 DEF CancelSearchFolder, AfterCancel
<1>2. ASSUME NEW p \in Procs, NEW m \in Msgs, NEW to \in Places \cup {-1}, NEW b \in BOOLEAN,
             ChangeMessage(p, m, to, b)
      PROVE  RowInv'
  BY <1>2 DEF ChangeMessage
<1>3. ASSUME NEW p \in Procs, DestroySearchFolder(p) PROVE RowInv'
  <2>1. inst[p] \in Insts /\ spc[inst[p]] = "finished"
    BY <1>3 DEF DestroySearchFolder, ProcInv
  <2> QED
    BY <1>3, <2>1 DEF DestroySearchFolder, Delete
<1>4. ASSUME NEW p \in Procs, SetStopped(p) PROVE RowInv'
  BY <1>4 DEF SetStopped, AfterCancel
<1>5. ASSUME NEW p \in Procs, SetRebuild(p) PROVE RowInv'
  BY <1>5 DEF SetRebuild
<1>6. ASSUME NEW p \in Procs, ResetResults(p) PROVE RowInv'
  BY <1>6 DEF ResetResults, Clear, Concurrent
<1>7. ASSUME NEW p \in Procs, InsertSearchFolder(p) PROVE RowInv'
  <2>1. PICK j \in Insts : Inserts(p, j)
    BY <1>7, InsertEffect
  <2>2. arg[p] \in SFolders /\ None \notin SFolders /\ spc[j] = "none"
    BY <2>1, SearchFoldersAssumption DEF Inserts, ProcInv, ObjInv
  <2> QED
    BY <2>1, <2>2 DEF Inserts, NewSearchFolder
<1>8. ASSUME NEW p \in Procs, SaveSearchCriteria(p) PROVE RowInv'
  BY <1>8 DEF SaveSearchCriteria
<1>9. ASSUME NEW p \in Procs, UpdateSearchFolders(p) PROVE RowInv'
  BY <1>9 DEF UpdateSearchFolders, Queue
<1>10. ASSUME NEW i \in Insts, SearchReset(i) PROVE RowInv'
  <2>1. spc[i] = "reset" /\ spc' \in [Insts -> SearchPc] /\ spc'[i] \in {"select", "complete"}
        /\ (\A j \in Insts : j # i => spc'[j] = spc[j])
        /\ UNCHANGED <<rowLock, folder, found, todo, ppc, cur, left>>
    <3>1. \E l \in {"select", "complete"} : spc' = [spc EXCEPT ![i] = l]
      BY <1>10 DEF SearchReset
    <3> QED
      BY <1>10, <3>1 DEF SearchReset, SearchPc
  <2> HIDE DEF TypeOK
  <2> QED
    BY <2>1
<1>11. ASSUME NEW i \in Insts, SearchSelect(i) PROVE RowInv'
  BY <1>11 DEF SearchSelect
<1>12. ASSUME NEW i \in Insts, ReadRows(i) PROVE RowInv'
  <2>1. folder[i] \in SFolders /\ spc[i] = "batch"
    BY <1>12 DEF ReadRows, ObjInv
  <2>2. CASE spc' = [spc EXCEPT ![i] = "complete"]
    BY <1>12, <2>1, <2>2 DEF ReadRows, ReadBatch, Matching
  <2>3. ASSUME rowLock[folder[i]] = None, rowLock' = [rowLock EXCEPT ![folder[i]] = i],
               NEW b \in SUBSET todo[i], ReadBatch(i, b)
        PROVE  RowInv'
    <3>1. /\ spc'[i] = "commit" /\ rowLock'[folder[i]] = i
          /\ \A j \in Insts : j # i => spc'[j] = spc[j] /\ found'[j] = found[j] /\ todo'[j] = todo[j]
          /\ \A f \in SFolders : rowLock[f] # None => rowLock'[f] = rowLock[f]
          /\ UNCHANGED <<folder, ppc, cur, left>>
      BY <1>12, <2>1, <2>3 DEF ReadRows, ReadBatch
    <3>2. \A j \in Insts : spc[j] = "commit" => folder[j] \in SFolders
      BY DEF ObjInv
    <3> HIDE DEF TypeOK
    <3>3. left \subseteq SFolders
      BY DEF TypeOK
    <3> QED
      BY <2>1, <3>1, <3>2, <3>3
  <2> QED
    BY <1>12, <2>2, <2>3 DEF ReadRows
<1>13. ASSUME NEW i \in Insts, AddResults(i) PROVE RowInv'
  BY <1>13 DEF AddResults
<1>14. ASSUME NEW i \in Insts, SearchDone(i) PROVE RowInv'
  BY <1>14 DEF SearchDone
<1>15. ASSUME NEW i \in Insts, SetRunning(i) PROVE RowInv'
  BY <1>15 DEF SetRunning
<1>16. ASSUME NEW i \in Insts, ThreadFree(i) PROVE RowInv'
  BY <1>16 DEF ThreadFree
<1>17. CASE ProcessTop
  BY <1>17 DEF ProcessTop
<1>18. CASE FlushEvents
  BY <1>18 DEF FlushEvents
<1>19. CASE NextGroup
  BY <1>19 DEF NextGroup, TakeGroup
<1>20. CASE Update
  BY <1>20 DEF Update
<1>21. CASE GroupDone
  BY <1>21 DEF GroupDone
<1>22. ASSUME NEW f \in SFolders, LockFolder(f) PROVE RowInv'
  BY <1>22 DEF LockFolder
<1>23. ASSUME NEW f \in SFolders, GiveUp(f) PROVE RowInv'
  BY <1>23 DEF GiveUp
<1>24. CASE Restart
  <2>1. found' = [i \in Insts |-> {}] /\ todo' = [i \in Insts |-> {}] /\ ppc' = "top"
    BY <1>24 DEF Restart
  <2>2. \A i \in Insts : spc'[i] # "commit"
    BY <1>24, RestartEffect DEF TypeOK
  <2> QED
    BY <2>1, <2>2
<1>25. CASE UNCHANGED vars
  BY <1>25 DEF vars
<1> QED
  BY <1>1, <1>2, <1>3, <1>4, <1>5, <1>6, <1>7, <1>8, <1>9, <1>10, <1>11, <1>12,
     <1>13, <1>14, <1>15, <1>16, <1>17, <1>18, <1>19, <1>20, <1>21, <1>22, <1>23,
     <1>24, <1>25
     DEF Next, Threads, ProcStep, Process, Search

(* The map is locked while a group is worked off. *)
LEMMA QueueNext ==
  TypeOK /\ ProcInv /\ ObjInv /\ QueueInv /\ [Next]_vars => QueueInv'
<1> SUFFICES ASSUME TypeOK, ProcInv, ObjInv, QueueInv, [Next]_vars
             PROVE  QueueInv'
  OBVIOUS
<1> USE SearchFoldersAssumption DEF TypeOK, QueueInv, MapLocked, Goto, Continue, SearchGoto, NoFault, Mishap,
       msgVars, rowVars, objVars, searchVars, eventVars, procVars, boundVars
<1>1. ASSUME NEW p \in Procs, NEW f \in SFolders, NEW o \in {"set", "stop", "remove"},
             CancelSearchFolder(p, f, o)
      PROVE  QueueInv'
  BY <1>1 DEF CancelSearchFolder, AfterCancel
<1>2. ASSUME NEW p \in Procs, NEW m \in Msgs, NEW to \in Places \cup {-1}, NEW b \in BOOLEAN,
             ChangeMessage(p, m, to, b)
      PROVE  QueueInv'
  BY <1>2 DEF ChangeMessage
<1>3. ASSUME NEW p \in Procs, DestroySearchFolder(p) PROVE QueueInv'
  BY <1>3 DEF DestroySearchFolder, Delete
<1>4. ASSUME NEW p \in Procs, SetStopped(p) PROVE QueueInv'
  BY <1>4 DEF SetStopped, AfterCancel
<1>5. ASSUME NEW p \in Procs, SetRebuild(p) PROVE QueueInv'
  BY <1>5 DEF SetRebuild
<1>6. ASSUME NEW p \in Procs, ResetResults(p) PROVE QueueInv'
  BY <1>6 DEF ResetResults, Clear, Concurrent
<1>7. ASSUME NEW p \in Procs, InsertSearchFolder(p) PROVE QueueInv'
  <2>1. PICK j \in Insts : Inserts(p, j)
    BY <1>7, InsertEffect
  <2>2. arg[p] \in SFolders /\ None \notin Insts
    BY <2>1, SearchFoldersAssumption DEF Inserts, ProcInv
  <2> QED
    BY <2>1, <2>2 DEF Inserts, NewSearchFolder
<1>8. ASSUME NEW p \in Procs, SaveSearchCriteria(p) PROVE QueueInv'
  BY <1>8 DEF SaveSearchCriteria
<1>9. ASSUME NEW p \in Procs, UpdateSearchFolders(p) PROVE QueueInv'
  BY <1>9 DEF UpdateSearchFolders, Queue
<1>10. ASSUME NEW i \in Insts, SearchReset(i) PROVE QueueInv'
  BY <1>10 DEF SearchReset, Clear
<1>11. ASSUME NEW i \in Insts, SearchSelect(i) PROVE QueueInv'
  BY <1>11 DEF SearchSelect
<1>12. ASSUME NEW i \in Insts, ReadRows(i) PROVE QueueInv'
  BY <1>12 DEF ReadRows, ReadBatch, Matching
<1>13. ASSUME NEW i \in Insts, AddResults(i) PROVE QueueInv'
  BY <1>13 DEF AddResults
<1>14. ASSUME NEW i \in Insts, SearchDone(i) PROVE QueueInv'
  BY <1>14 DEF SearchDone
<1>15. ASSUME NEW i \in Insts, SetRunning(i) PROVE QueueInv'
  BY <1>15 DEF SetRunning
<1>16. ASSUME NEW i \in Insts, ThreadFree(i) PROVE QueueInv'
  BY <1>16 DEF ThreadFree
<1>17. CASE ProcessTop
  BY <1>17 DEF ProcessTop
<1>18. CASE FlushEvents
  BY <1>18 DEF FlushEvents
<1>19. CASE NextGroup
  <2>1. CASE batch = <<>> /\ ppc' = "top" /\ UNCHANGED <<group, batch, left>>
    BY <1>19, <2>1 DEF NextGroup
  <2>2. ASSUME NEW k \in 1..Len(batch), TakeGroup(k) PROVE QueueInv'
    <3>1. \A i \in 1..k : batch[i] \in Event
      OBVIOUS
    <3>2. group' \in Group
      BY <2>2, <3>1 DEF TakeGroup, Event, Group
    <3> QED
      BY <1>19, <2>2, <3>2 DEF NextGroup, TakeGroup, NoGroup
  <2> QED
    BY <1>19, <2>1, <2>2 DEF NextGroup
<1>20. CASE Update
  BY <1>20 DEF Update
<1>21. CASE GroupDone
  BY <1>21 DEF GroupDone
<1>22. ASSUME NEW f \in SFolders, LockFolder(f) PROVE QueueInv'
  BY <1>22 DEF LockFolder
<1>23. ASSUME NEW f \in SFolders, GiveUp(f) PROVE QueueInv'
  BY <1>23 DEF GiveUp
<1>24. CASE Restart
  <2>1. ppc' = "top" /\ batch' = <<>> /\ group' = NoGroup /\ hits' = {} /\ left' = {}
    BY <1>24 DEF Restart
  <2> QED
    BY <2>1 DEF NoGroup
<1>25. CASE UNCHANGED vars
  BY <1>25 DEF vars
<1> QED
  BY <1>1, <1>2, <1>3, <1>4, <1>5, <1>6, <1>7, <1>8, <1>9, <1>10, <1>11, <1>12,
     <1>13, <1>14, <1>15, <1>16, <1>17, <1>18, <1>19, <1>20, <1>21, <1>22, <1>23,
     <1>24, <1>25
     DEF Next, Threads, ProcStep, Process, Search

(* The types, by group of variables. *)
MsgTypes == place \in [Msgs -> Places \cup {0, -1}] /\ match \in [Msgs -> BOOLEAN]
RowTypes ==
  /\ status \in [SFolders -> Status] /\ saved \subseteq SFolders
  /\ results \in [SFolders -> SUBSET Msgs]
  /\ rowLock \in [SFolders -> Insts \cup {"process", None}]
ObjTypes ==
  /\ active \in [SFolders -> Insts \cup {None}]
  /\ folder \in [Insts -> SFolders \cup {None}] /\ threadExit \subseteq Insts
SearchTypes ==
  /\ spc \in [Insts -> SearchPc]
  /\ todo \in [Insts -> SUBSET Msgs] /\ found \in [Insts -> SUBSET Msgs]
EventTypes ==
  /\ events \in Seq(Event) /\ batch \in Seq(Event) /\ ppc \in ProcessPc
  /\ group \in Group \cup {NoGroup} /\ left \subseteq SFolders
  /\ cur \in SFolders \cup {None} /\ hits \subseteq Msgs
ProcTypes ==
  /\ pc \in [Procs -> ProcPc] /\ op \in [Procs -> {"set", "stop", "remove", None}]
  /\ arg \in [Procs -> SFolders \cup {None}] /\ inst \in [Procs -> Insts \cup {None}]
  /\ pending \in [Procs -> Event \cup {None}]
HistoryTypes == spoiled \subseteq Reasons \X Msgs /\ current \subseteq SFolders
BoundTypes ==
  /\ sets \in 0..MaxSets /\ changes \in 0..MaxChanges /\ mishaps \in 0..MaxMishaps

(* Together these are TypeOK. *)
LEMMA TypesAre ==
  TypeOK <=> /\ MsgTypes /\ RowTypes /\ ObjTypes /\ SearchTypes /\ EventTypes
             /\ ProcTypes /\ HistoryTypes /\ BoundTypes
  BY DEF TypeOK, MsgTypes, RowTypes, ObjTypes, SearchTypes, EventTypes, ProcTypes, HistoryTypes,
         BoundTypes

(* Messages. *)
LEMMA MsgTypesNext ==
  MsgTypes /\ [Next]_vars => MsgTypes'
<1> SUFFICES ASSUME MsgTypes, [Next]_vars
             PROVE  MsgTypes'
  OBVIOUS
<1> USE DEF MsgTypes, Goto, Continue, SearchGoto, NoFault, Mishap,
       msgVars, rowVars, objVars, searchVars, eventVars, procVars, boundVars
<1>1. ASSUME NEW p \in Procs, NEW f \in SFolders, NEW o \in {"set", "stop", "remove"},
             CancelSearchFolder(p, f, o)
      PROVE  MsgTypes'
  BY <1>1 DEF CancelSearchFolder, AfterCancel
<1>2. ASSUME NEW p \in Procs, NEW m \in Msgs, NEW to \in Places \cup {-1}, NEW b \in BOOLEAN,
             ChangeMessage(p, m, to, b)
      PROVE  MsgTypes'
  BY <1>2 DEF ChangeMessage
<1>3. ASSUME NEW p \in Procs, DestroySearchFolder(p) PROVE MsgTypes'
  BY <1>3 DEF DestroySearchFolder, Delete
<1>4. ASSUME NEW p \in Procs, SetStopped(p) PROVE MsgTypes'
  BY <1>4 DEF SetStopped, AfterCancel
<1>5. ASSUME NEW p \in Procs, SetRebuild(p) PROVE MsgTypes'
  BY <1>5 DEF SetRebuild
<1>6. ASSUME NEW p \in Procs, ResetResults(p) PROVE MsgTypes'
  BY <1>6 DEF ResetResults, Clear, Concurrent
<1>7. ASSUME NEW p \in Procs, InsertSearchFolder(p) PROVE MsgTypes'
  BY <1>7 DEF InsertSearchFolder, NewSearchFolder, Concurrent, Objects
<1>8. ASSUME NEW p \in Procs, SaveSearchCriteria(p) PROVE MsgTypes'
  BY <1>8 DEF SaveSearchCriteria
<1>9. ASSUME NEW p \in Procs, UpdateSearchFolders(p) PROVE MsgTypes'
  BY <1>9 DEF UpdateSearchFolders, Queue
<1>10. ASSUME NEW i \in Insts, SearchReset(i) PROVE MsgTypes'
  BY <1>10 DEF SearchReset, Clear
<1>11. ASSUME NEW i \in Insts, SearchSelect(i) PROVE MsgTypes'
  BY <1>11 DEF SearchSelect
<1>12. ASSUME NEW i \in Insts, ReadRows(i) PROVE MsgTypes'
  BY <1>12 DEF ReadRows, ReadBatch, Matching
<1>13. ASSUME NEW i \in Insts, AddResults(i) PROVE MsgTypes'
  BY <1>13 DEF AddResults
<1>14. ASSUME NEW i \in Insts, SearchDone(i) PROVE MsgTypes'
  BY <1>14 DEF SearchDone
<1>15. ASSUME NEW i \in Insts, SetRunning(i) PROVE MsgTypes'
  BY <1>15 DEF SetRunning
<1>16. ASSUME NEW i \in Insts, ThreadFree(i) PROVE MsgTypes'
  BY <1>16 DEF ThreadFree
<1>17. CASE ProcessTop
  BY <1>17 DEF ProcessTop
<1>18. CASE FlushEvents
  BY <1>18 DEF FlushEvents
<1>19. CASE NextGroup
  BY <1>19 DEF NextGroup, TakeGroup
<1>20. CASE Update
  BY <1>20 DEF Update
<1>21. CASE GroupDone
  BY <1>21 DEF GroupDone
<1>22. ASSUME NEW f \in SFolders, LockFolder(f) PROVE MsgTypes'
  BY <1>22 DEF LockFolder
<1>23. ASSUME NEW f \in SFolders, GiveUp(f) PROVE MsgTypes'
  BY <1>23 DEF GiveUp
<1>24. CASE Restart
  BY <1>24 DEF Restart
<1>25. CASE UNCHANGED vars
  BY <1>25 DEF vars
<1> QED
  BY <1>1, <1>2, <1>3, <1>4, <1>5, <1>6, <1>7, <1>8, <1>9, <1>10, <1>11, <1>12,
     <1>13, <1>14, <1>15, <1>16, <1>17, <1>18, <1>19, <1>20, <1>21, <1>22, <1>23,
     <1>24, <1>25
     DEF Next, Threads, ProcStep, Process, Search

(* Rows of the database. *)
LEMMA RowTypesNext ==
  /\ TypeOK /\ RowTypes /\ ObjTypes /\ SearchTypes /\ EventTypes
  /\ ProcInv /\ ObjInv /\ RowInv /\ [Next]_vars
  => RowTypes'
<1> SUFFICES ASSUME TypeOK, RowTypes, ObjTypes, SearchTypes, EventTypes,
                    ProcInv, ObjInv, RowInv, [Next]_vars
             PROVE  RowTypes'
  OBVIOUS
<1> USE DEF RowTypes, Status, Goto, Continue, SearchGoto, NoFault, Mishap,
       msgVars, rowVars, objVars, searchVars, eventVars, procVars, boundVars
<1>1. ASSUME NEW p \in Procs, NEW f \in SFolders, NEW o \in {"set", "stop", "remove"},
             CancelSearchFolder(p, f, o)
      PROVE  RowTypes'
  BY <1>1 DEF CancelSearchFolder, AfterCancel
<1>2. ASSUME NEW p \in Procs, NEW m \in Msgs, NEW to \in Places \cup {-1}, NEW b \in BOOLEAN,
             ChangeMessage(p, m, to, b)
      PROVE  RowTypes'
  BY <1>2 DEF ChangeMessage
<1>3. ASSUME NEW p \in Procs, DestroySearchFolder(p) PROVE RowTypes'
  BY <1>3 DEF DestroySearchFolder, Delete
<1>4. ASSUME NEW p \in Procs, SetStopped(p) PROVE RowTypes'
  <2>1. arg[p] \in SFolders
    BY <1>4 DEF SetStopped, ProcInv
  <2> QED
    BY <1>4, <2>1 DEF SetStopped, AfterCancel
<1>5. ASSUME NEW p \in Procs, SetRebuild(p) PROVE RowTypes'
  <2>1. arg[p] \in SFolders
    BY <1>5 DEF SetRebuild, ProcInv
  <2> QED
    BY <1>5, <2>1 DEF SetRebuild
<1>6. ASSUME NEW p \in Procs, ResetResults(p) PROVE RowTypes'
  <2>1. arg[p] \in SFolders
    BY <1>6 DEF ResetResults, ProcInv
  <2> QED
    BY <1>6, <2>1 DEF ResetResults, Clear, Concurrent
<1>7. ASSUME NEW p \in Procs, InsertSearchFolder(p) PROVE RowTypes'
  BY <1>7 DEF InsertSearchFolder
<1>8. ASSUME NEW p \in Procs, SaveSearchCriteria(p) PROVE RowTypes'
  <2>1. arg[p] \in SFolders
    BY <1>8 DEF SaveSearchCriteria, ProcInv
  <2> QED
    BY <1>8, <2>1 DEF SaveSearchCriteria
<1>9. ASSUME NEW p \in Procs, UpdateSearchFolders(p) PROVE RowTypes'
  BY <1>9 DEF UpdateSearchFolders, Queue
<1>10. ASSUME NEW i \in Insts, SearchReset(i) PROVE RowTypes'
  <2>1. folder[i] \in SFolders
    BY <1>10 DEF SearchReset, ObjInv, ObjTypes
  <2> QED
    BY <1>10, <2>1 DEF SearchReset, Clear
<1>11. ASSUME NEW i \in Insts, SearchSelect(i) PROVE RowTypes'
  BY <1>11 DEF SearchSelect
<1>12. ASSUME NEW i \in Insts, ReadRows(i) PROVE RowTypes'
  <2>1. folder[i] \in SFolders
    BY <1>12 DEF ReadRows, ObjInv, ObjTypes
  <2>2. UNCHANGED <<status, saved, results>>
    BY <1>12 DEF ReadRows
  <2>3. rowLock' = rowLock \/ rowLock' = [rowLock EXCEPT ![folder[i]] = i]
    BY <1>12 DEF ReadRows
  <2> QED
    BY <2>1, <2>2, <2>3
<1>13. ASSUME NEW i \in Insts, AddResults(i) PROVE RowTypes'
  <2>1. folder[i] \in SFolders
    BY <1>13 DEF AddResults, ObjInv, ObjTypes
  <2>2. found[i] \subseteq Msgs
    BY DEF SearchTypes
  <2> QED
    BY <1>13, <2>1, <2>2 DEF AddResults
<1>14. ASSUME NEW i \in Insts, SearchDone(i) PROVE RowTypes'
  BY <1>14 DEF SearchDone
<1>15. ASSUME NEW i \in Insts, SetRunning(i) PROVE RowTypes'
  <2>1. folder[i] \in SFolders
    BY <1>15 DEF SetRunning, ObjInv, ObjTypes
  <2> QED
    BY <1>15, <2>1 DEF SetRunning
<1>16. ASSUME NEW i \in Insts, ThreadFree(i) PROVE RowTypes'
  BY <1>16 DEF ThreadFree
<1>17. CASE ProcessTop
  BY <1>17 DEF ProcessTop
<1>18. CASE FlushEvents
  BY <1>18 DEF FlushEvents
<1>19. CASE NextGroup
  BY <1>19 DEF NextGroup, TakeGroup
<1>20. CASE Update
  <2>1. cur \in SFolders /\ hits \subseteq Msgs
    BY <1>20 DEF Update, RowInv, EventTypes
  <2> QED
    BY <1>20, <2>1 DEF Update
<1>21. CASE GroupDone
  BY <1>21 DEF GroupDone
<1>22. ASSUME NEW f \in SFolders, LockFolder(f) PROVE RowTypes'
  BY <1>22 DEF LockFolder
<1>23. ASSUME NEW f \in SFolders, GiveUp(f) PROVE RowTypes'
  BY <1>23 DEF GiveUp
<1>24. CASE Restart
  <2>1. UNCHANGED <<status, saved>> /\ rowLock' = [f \in SFolders |-> None]
    BY <1>24 DEF Restart
  <2>2. results' = [f \in SFolders |-> IF f \in Rebuild THEN {} ELSE results[f]]
    BY <1>24, RestartEffect
  <2> QED
    BY <2>1, <2>2
<1>25. CASE UNCHANGED vars
  BY <1>25 DEF vars
<1> QED
  BY <1>1, <1>2, <1>3, <1>4, <1>5, <1>6, <1>7, <1>8, <1>9, <1>10, <1>11, <1>12,
     <1>13, <1>14, <1>15, <1>16, <1>17, <1>18, <1>19, <1>20, <1>21, <1>22, <1>23,
     <1>24, <1>25
     DEF Next, Threads, ProcStep, Process, Search

(* Objects. *)
LEMMA ObjTypesNext ==
  TypeOK /\ ObjTypes /\ ProcInv /\ [Next]_vars => ObjTypes'
<1> SUFFICES ASSUME TypeOK, ObjTypes, ProcInv, [Next]_vars
             PROVE  ObjTypes'
  OBVIOUS
<1> USE DEF ObjTypes, Goto, Continue, SearchGoto, NoFault, Mishap,
       msgVars, rowVars, objVars, searchVars, eventVars, procVars, boundVars
<1>1. ASSUME NEW p \in Procs, NEW f \in SFolders, NEW o \in {"set", "stop", "remove"},
             CancelSearchFolder(p, f, o)
      PROVE  ObjTypes'
  BY <1>1 DEF CancelSearchFolder, AfterCancel
<1>2. ASSUME NEW p \in Procs, NEW m \in Msgs, NEW to \in Places \cup {-1}, NEW b \in BOOLEAN,
             ChangeMessage(p, m, to, b)
      PROVE  ObjTypes'
  BY <1>2 DEF ChangeMessage
<1>3. ASSUME NEW p \in Procs, DestroySearchFolder(p) PROVE ObjTypes'
  BY <1>3 DEF DestroySearchFolder, Delete
<1>4. ASSUME NEW p \in Procs, SetStopped(p) PROVE ObjTypes'
  BY <1>4 DEF SetStopped, AfterCancel
<1>5. ASSUME NEW p \in Procs, SetRebuild(p) PROVE ObjTypes'
  BY <1>5 DEF SetRebuild
<1>6. ASSUME NEW p \in Procs, ResetResults(p) PROVE ObjTypes'
  BY <1>6 DEF ResetResults, Clear, Concurrent
<1>7. ASSUME NEW p \in Procs, InsertSearchFolder(p) PROVE ObjTypes'
  <2>1. PICK j \in Insts : Inserts(p, j)
    BY <1>7, InsertEffect
  <2>2. arg[p] \in SFolders
    BY <2>1 DEF Inserts, ProcInv
  <2> QED
    BY <2>1, <2>2 DEF Inserts, NewSearchFolder
<1>8. ASSUME NEW p \in Procs, SaveSearchCriteria(p) PROVE ObjTypes'
  BY <1>8 DEF SaveSearchCriteria
<1>9. ASSUME NEW p \in Procs, UpdateSearchFolders(p) PROVE ObjTypes'
  BY <1>9 DEF UpdateSearchFolders, Queue
<1>10. ASSUME NEW i \in Insts, SearchReset(i) PROVE ObjTypes'
  BY <1>10 DEF SearchReset
<1>11. ASSUME NEW i \in Insts, SearchSelect(i) PROVE ObjTypes'
  BY <1>11 DEF SearchSelect
<1>12. ASSUME NEW i \in Insts, ReadRows(i) PROVE ObjTypes'
  BY <1>12 DEF ReadRows
<1>13. ASSUME NEW i \in Insts, AddResults(i) PROVE ObjTypes'
  BY <1>13 DEF AddResults
<1>14. ASSUME NEW i \in Insts, SearchDone(i) PROVE ObjTypes'
  BY <1>14 DEF SearchDone
<1>15. ASSUME NEW i \in Insts, SetRunning(i) PROVE ObjTypes'
  BY <1>15 DEF SetRunning
<1>16. ASSUME NEW i \in Insts, ThreadFree(i) PROVE ObjTypes'
  BY <1>16 DEF ThreadFree
<1>17. CASE ProcessTop
  BY <1>17 DEF ProcessTop
<1>18. CASE FlushEvents
  BY <1>18 DEF FlushEvents
<1>19. CASE NextGroup
  BY <1>19 DEF NextGroup, TakeGroup
<1>20. CASE Update
  BY <1>20 DEF Update
<1>21. CASE GroupDone
  BY <1>21 DEF GroupDone
<1>22. ASSUME NEW f \in SFolders, LockFolder(f) PROVE ObjTypes'
  BY <1>22 DEF LockFolder
<1>23. ASSUME NEW f \in SFolders, GiveUp(f) PROVE ObjTypes'
  BY <1>23 DEF GiveUp
<1>24. CASE Restart
  <2>1. threadExit' = {}
    BY <1>24 DEF Restart
  <2> QED
    BY <1>24, <2>1, RestartEffect
<1>25. CASE UNCHANGED vars
  BY <1>25 DEF vars
<1> QED
  BY <1>1, <1>2, <1>3, <1>4, <1>5, <1>6, <1>7, <1>8, <1>9, <1>10, <1>11, <1>12,
     <1>13, <1>14, <1>15, <1>16, <1>17, <1>18, <1>19, <1>20, <1>21, <1>22, <1>23,
     <1>24, <1>25
     DEF Next, Threads, ProcStep, Process, Search

(* Searches. *)
LEMMA SearchTypesNext ==
  TypeOK /\ SearchTypes /\ [Next]_vars => SearchTypes'
<1> SUFFICES ASSUME TypeOK, SearchTypes, [Next]_vars
             PROVE  SearchTypes'
  OBVIOUS
<1> USE DEF SearchTypes, SearchPc, Goto, Continue, SearchGoto, NoFault, Mishap,
       msgVars, rowVars, objVars, searchVars, eventVars, procVars, boundVars
<1>1. ASSUME NEW p \in Procs, NEW f \in SFolders, NEW o \in {"set", "stop", "remove"},
             CancelSearchFolder(p, f, o)
      PROVE  SearchTypes'
  BY <1>1 DEF CancelSearchFolder, AfterCancel
<1>2. ASSUME NEW p \in Procs, NEW m \in Msgs, NEW to \in Places \cup {-1}, NEW b \in BOOLEAN,
             ChangeMessage(p, m, to, b)
      PROVE  SearchTypes'
  BY <1>2 DEF ChangeMessage
<1>3. ASSUME NEW p \in Procs, DestroySearchFolder(p) PROVE SearchTypes'
  BY <1>3 DEF DestroySearchFolder
<1>4. ASSUME NEW p \in Procs, SetStopped(p) PROVE SearchTypes'
  BY <1>4 DEF SetStopped, AfterCancel
<1>5. ASSUME NEW p \in Procs, SetRebuild(p) PROVE SearchTypes'
  BY <1>5 DEF SetRebuild
<1>6. ASSUME NEW p \in Procs, ResetResults(p) PROVE SearchTypes'
  BY <1>6 DEF ResetResults
<1>7. ASSUME NEW p \in Procs, InsertSearchFolder(p) PROVE SearchTypes'
  <2>1. PICK j \in Insts : Inserts(p, j)
    BY <1>7, InsertEffect
  <2> QED
    BY <2>1 DEF Inserts
<1>8. ASSUME NEW p \in Procs, SaveSearchCriteria(p) PROVE SearchTypes'
  BY <1>8 DEF SaveSearchCriteria
<1>9. ASSUME NEW p \in Procs, UpdateSearchFolders(p) PROVE SearchTypes'
  BY <1>9 DEF UpdateSearchFolders, Queue
<1>10. ASSUME NEW i \in Insts, SearchReset(i) PROVE SearchTypes'
  <2>1. UNCHANGED <<todo, found>> /\ (SearchGoto(i, "select") \/ SearchGoto(i, "complete"))
    BY <1>10 DEF SearchReset
  <2> QED
    BY <2>1
<1>11. ASSUME NEW i \in Insts, SearchSelect(i) PROVE SearchTypes'
  BY <1>11 DEF SearchSelect
<1>12. ASSUME NEW i \in Insts, ReadRows(i) PROVE SearchTypes'
  <2>1. CASE SearchGoto(i, "complete") /\ todo' = [todo EXCEPT ![i] = {}] /\ UNCHANGED found
    BY <2>1
  <2>2. ASSUME NEW b \in SUBSET todo[i], ReadBatch(i, b) PROVE SearchTypes'
    <3>1. \A S \in Matching(i, b) : S \subseteq todo[i]
      BY DEF Matching
    <3> QED
      BY <2>2, <3>1 DEF ReadBatch
  <2> QED
    BY <1>12, <2>1, <2>2 DEF ReadRows
<1>13. ASSUME NEW i \in Insts, AddResults(i) PROVE SearchTypes'
  BY <1>13 DEF AddResults
<1>14. ASSUME NEW i \in Insts, SearchDone(i) PROVE SearchTypes'
  BY <1>14 DEF SearchDone
<1>15. ASSUME NEW i \in Insts, SetRunning(i) PROVE SearchTypes'
  BY <1>15 DEF SetRunning
<1>16. ASSUME NEW i \in Insts, ThreadFree(i) PROVE SearchTypes'
  BY <1>16 DEF ThreadFree
<1>17. CASE ProcessTop
  BY <1>17 DEF ProcessTop
<1>18. CASE FlushEvents
  BY <1>18 DEF FlushEvents
<1>19. CASE NextGroup
  BY <1>19 DEF NextGroup, TakeGroup
<1>20. CASE Update
  BY <1>20 DEF Update
<1>21. CASE GroupDone
  BY <1>21 DEF GroupDone
<1>22. ASSUME NEW f \in SFolders, LockFolder(f) PROVE SearchTypes'
  BY <1>22 DEF LockFolder
<1>23. ASSUME NEW f \in SFolders, GiveUp(f) PROVE SearchTypes'
  BY <1>23 DEF GiveUp
<1>24. CASE Restart
  <2>1. found' = [i \in Insts |-> {}] /\ todo' = [i \in Insts |-> {}]
    BY <1>24 DEF Restart
  <2> QED
    BY <1>24, <2>1, RestartEffect
<1>25. CASE UNCHANGED vars
  BY <1>25 DEF vars
<1> QED
  BY <1>1, <1>2, <1>3, <1>4, <1>5, <1>6, <1>7, <1>8, <1>9, <1>10, <1>11, <1>12,
     <1>13, <1>14, <1>15, <1>16, <1>17, <1>18, <1>19, <1>20, <1>21, <1>22, <1>23,
     <1>24, <1>25
     DEF Next, Threads, ProcStep, Process, Search

(* Events and what becomes of them. *)
LEMMA EventTypesNext ==
  EventTypes /\ ProcInv /\ [Next]_vars => EventTypes'
<1> SUFFICES ASSUME EventTypes, ProcInv, [Next]_vars
             PROVE  EventTypes'
  OBVIOUS
<1> USE DEF EventTypes, ProcessPc, Goto, Continue, SearchGoto, NoFault, Mishap,
       msgVars, rowVars, objVars, searchVars, eventVars, procVars, boundVars
<1>1. ASSUME NEW p \in Procs, NEW f \in SFolders, NEW o \in {"set", "stop", "remove"},
             CancelSearchFolder(p, f, o)
      PROVE  EventTypes'
  BY <1>1 DEF CancelSearchFolder, AfterCancel
<1>2. ASSUME NEW p \in Procs, NEW m \in Msgs, NEW to \in Places \cup {-1}, NEW b \in BOOLEAN,
             ChangeMessage(p, m, to, b)
      PROVE  EventTypes'
  BY <1>2 DEF ChangeMessage
<1>3. ASSUME NEW p \in Procs, DestroySearchFolder(p) PROVE EventTypes'
  BY <1>3 DEF DestroySearchFolder, Delete
<1>4. ASSUME NEW p \in Procs, SetStopped(p) PROVE EventTypes'
  BY <1>4 DEF SetStopped, AfterCancel
<1>5. ASSUME NEW p \in Procs, SetRebuild(p) PROVE EventTypes'
  BY <1>5 DEF SetRebuild
<1>6. ASSUME NEW p \in Procs, ResetResults(p) PROVE EventTypes'
  BY <1>6 DEF ResetResults
<1>7. ASSUME NEW p \in Procs, InsertSearchFolder(p) PROVE EventTypes'
  BY <1>7 DEF InsertSearchFolder
<1>8. ASSUME NEW p \in Procs, SaveSearchCriteria(p) PROVE EventTypes'
  BY <1>8 DEF SaveSearchCriteria
<1>9. ASSUME NEW p \in Procs, UpdateSearchFolders(p) PROVE EventTypes'
  <2>1. pending[p] \in Event
    BY <1>9 DEF UpdateSearchFolders, Queue, ProcInv
  <2>2. Append(events, pending[p]) \in Seq(Event)
    BY <2>1
  <2> QED
    BY <1>9, <2>2 DEF UpdateSearchFolders, Queue
<1>10. ASSUME NEW i \in Insts, SearchReset(i) PROVE EventTypes'
  BY <1>10 DEF SearchReset
<1>11. ASSUME NEW i \in Insts, SearchSelect(i) PROVE EventTypes'
  BY <1>11 DEF SearchSelect
<1>12. ASSUME NEW i \in Insts, ReadRows(i) PROVE EventTypes'
  BY <1>12 DEF ReadRows
<1>13. ASSUME NEW i \in Insts, AddResults(i) PROVE EventTypes'
  BY <1>13 DEF AddResults
<1>14. ASSUME NEW i \in Insts, SearchDone(i) PROVE EventTypes'
  BY <1>14 DEF SearchDone
<1>15. ASSUME NEW i \in Insts, SetRunning(i) PROVE EventTypes'
  BY <1>15 DEF SetRunning
<1>16. ASSUME NEW i \in Insts, ThreadFree(i) PROVE EventTypes'
  BY <1>16 DEF ThreadFree
<1>17. CASE ProcessTop
  BY <1>17 DEF ProcessTop
<1>18. CASE FlushEvents
  <2>1. SortByPlace(events) \in Seq(Event)
    BY SortPermutes
  <2>2. <<>> \in Seq(Event)
    OBVIOUS
  <2> QED
    BY <1>18, <2>1, <2>2 DEF FlushEvents
<1>19. CASE NextGroup
  <2>1. CASE batch = <<>> /\ ppc' = "top" /\ UNCHANGED <<group, batch, left>>
    BY <1>19, <2>1 DEF NextGroup
  <2>2. ASSUME NEW k \in 1..Len(batch), TakeGroup(k) PROVE EventTypes'
    <3>1. \A i \in 1..k : batch[i] \in Event
      OBVIOUS
    <3>2. group' \in Group
      BY <2>2, <3>1 DEF TakeGroup, Event, Group
    <3>3. SubSeq(batch, k + 1, Len(batch)) \in Seq(Event)
      OBVIOUS
    <3> QED
      BY <1>19, <2>2, <3>2, <3>3 DEF NextGroup, TakeGroup
  <2> QED
    BY <1>19, <2>1, <2>2 DEF NextGroup
<1>20. CASE Update
  BY <1>20 DEF Update
<1>21. CASE GroupDone
  BY <1>21 DEF GroupDone
<1>22. ASSUME NEW f \in SFolders, LockFolder(f) PROVE EventTypes'
  <2>1. {m \in group.msgs : GroupInTarget /\ match[m]} \subseteq Msgs
    BY DEF Group, NoGroup
  <2> QED
    BY <1>22, <2>1 DEF LockFolder
<1>23. ASSUME NEW f \in SFolders, GiveUp(f) PROVE EventTypes'
  BY <1>23 DEF GiveUp
<1>24. CASE Restart
  <2>1. events' = <<>> /\ batch' = <<>> /\ ppc' = "top" /\ group' = NoGroup
        /\ left' = {} /\ cur' = None /\ hits' = {}
    BY <1>24 DEF Restart
  <2> QED
    BY <2>1
<1>25. CASE UNCHANGED vars
  BY <1>25 DEF vars
<1> QED
  BY <1>1, <1>2, <1>3, <1>4, <1>5, <1>6, <1>7, <1>8, <1>9, <1>10, <1>11, <1>12,
     <1>13, <1>14, <1>15, <1>16, <1>17, <1>18, <1>19, <1>20, <1>21, <1>22, <1>23,
     <1>24, <1>25
     DEF Next, Threads, ProcStep, Process, Search

(* Requests. *)
LEMMA ProcTypesNext ==
  MsgTypes /\ ObjTypes /\ ProcTypes /\ [Next]_vars => ProcTypes'
<1> SUFFICES ASSUME MsgTypes, ObjTypes, ProcTypes, [Next]_vars
             PROVE  ProcTypes'
  OBVIOUS
<1> USE DEF ProcTypes, ProcPc, Goto, Continue, SearchGoto, NoFault, Mishap,
       msgVars, rowVars, objVars, searchVars, eventVars, procVars, boundVars
<1>1. ASSUME NEW p \in Procs, NEW f \in SFolders, NEW o \in {"set", "stop", "remove"},
             CancelSearchFolder(p, f, o)
      PROVE  ProcTypes'
  <2>1. active[f] \in Insts \cup {None}
    BY DEF ObjTypes
  <2>2. pc' = [pc EXCEPT ![p] = "destroy"] \/ pc' = [pc EXCEPT ![p] = AfterCancel(o)]
    BY <1>1 DEF CancelSearchFolder
  <2>3. AfterCancel(o) \in ProcPc
    BY DEF AfterCancel
  <2> QED
    BY <1>1, <2>1, <2>2, <2>3 DEF CancelSearchFolder
<1>2. ASSUME NEW p \in Procs, NEW m \in Msgs, NEW to \in Places \cup {-1}, NEW b \in BOOLEAN,
             ChangeMessage(p, m, to, b)
      PROVE  ProcTypes'
  <2>1. /\ pc' = [pc EXCEPT ![p] = "notify"] /\ UNCHANGED <<op, arg, inst>>
        /\ \E e : pending' = [pending EXCEPT ![p] = e]
    BY <1>2 DEF ChangeMessage
  <2>2. pending'[p] \in Event
    <3>1. place[m] # -1 => place[m] \in Places \cup {0}
      BY DEF MsgTypes
    <3> QED
      BY <1>2, <3>1 DEF ChangeMessage, Event
  <2> QED
    BY <2>1, <2>2
<1>3. ASSUME NEW p \in Procs, DestroySearchFolder(p) PROVE ProcTypes'
  BY <1>3 DEF DestroySearchFolder, Delete
<1>4. ASSUME NEW p \in Procs, SetStopped(p) PROVE ProcTypes'
  <2>1. AfterCancel(op[p]) \in ProcPc
    BY DEF AfterCancel
  <2> QED
    BY <1>4, <2>1 DEF SetStopped
<1>5. ASSUME NEW p \in Procs, SetRebuild(p) PROVE ProcTypes'
  BY <1>5 DEF SetRebuild
<1>6. ASSUME NEW p \in Procs, ResetResults(p) PROVE ProcTypes'
  BY <1>6 DEF ResetResults
<1>7. ASSUME NEW p \in Procs, InsertSearchFolder(p) PROVE ProcTypes'
  BY <1>7 DEF InsertSearchFolder
<1>8. ASSUME NEW p \in Procs, SaveSearchCriteria(p) PROVE ProcTypes'
  BY <1>8 DEF SaveSearchCriteria
<1>9. ASSUME NEW p \in Procs, UpdateSearchFolders(p) PROVE ProcTypes'
  BY <1>9 DEF UpdateSearchFolders, Queue
<1>10. ASSUME NEW i \in Insts, SearchReset(i) PROVE ProcTypes'
  BY <1>10 DEF SearchReset
<1>11. ASSUME NEW i \in Insts, SearchSelect(i) PROVE ProcTypes'
  BY <1>11 DEF SearchSelect
<1>12. ASSUME NEW i \in Insts, ReadRows(i) PROVE ProcTypes'
  BY <1>12 DEF ReadRows
<1>13. ASSUME NEW i \in Insts, AddResults(i) PROVE ProcTypes'
  BY <1>13 DEF AddResults
<1>14. ASSUME NEW i \in Insts, SearchDone(i) PROVE ProcTypes'
  BY <1>14 DEF SearchDone
<1>15. ASSUME NEW i \in Insts, SetRunning(i) PROVE ProcTypes'
  BY <1>15 DEF SetRunning
<1>16. ASSUME NEW i \in Insts, ThreadFree(i) PROVE ProcTypes'
  BY <1>16 DEF ThreadFree
<1>17. CASE ProcessTop
  BY <1>17 DEF ProcessTop
<1>18. CASE FlushEvents
  BY <1>18 DEF FlushEvents
<1>19. CASE NextGroup
  BY <1>19 DEF NextGroup, TakeGroup
<1>20. CASE Update
  BY <1>20 DEF Update
<1>21. CASE GroupDone
  BY <1>21 DEF GroupDone
<1>22. ASSUME NEW f \in SFolders, LockFolder(f) PROVE ProcTypes'
  BY <1>22 DEF LockFolder
<1>23. ASSUME NEW f \in SFolders, GiveUp(f) PROVE ProcTypes'
  BY <1>23 DEF GiveUp
<1>24. CASE Restart
  <2>1. /\ pc' = [p \in Procs |-> "idle"] /\ op' = [p \in Procs |-> None]
        /\ arg' = [p \in Procs |-> None] /\ inst' = [p \in Procs |-> None]
        /\ pending' = [p \in Procs |-> None]
    BY <1>24 DEF Restart
  <2> QED
    BY <2>1
<1>25. CASE UNCHANGED vars
  BY <1>25 DEF vars
<1> QED
  BY <1>1, <1>2, <1>3, <1>4, <1>5, <1>6, <1>7, <1>8, <1>9, <1>10, <1>11, <1>12,
     <1>13, <1>14, <1>15, <1>16, <1>17, <1>18, <1>19, <1>20, <1>21, <1>22, <1>23,
     <1>24, <1>25
     DEF Next, Threads, ProcStep, Process, Search

(* The history. *)
LEMMA HistoryTypesNext ==
  TypeOK /\ HistoryTypes /\ ObjTypes /\ EventTypes /\ ProcInv /\ ObjInv /\ [Next]_vars => HistoryTypes'
<1> SUFFICES ASSUME TypeOK, HistoryTypes, ObjTypes, EventTypes, ProcInv, ObjInv, [Next]_vars
             PROVE  HistoryTypes'
  OBVIOUS
<1> USE DEF HistoryTypes, Goto, Continue, SearchGoto, NoFault, Mishap,
       msgVars, rowVars, objVars, searchVars, eventVars, procVars, boundVars
<1>1. ASSUME NEW p \in Procs, NEW f \in SFolders, NEW o \in {"set", "stop", "remove"},
             CancelSearchFolder(p, f, o)
      PROVE  HistoryTypes'
  BY <1>1 DEF CancelSearchFolder, AfterCancel
<1>2. ASSUME NEW p \in Procs, NEW m \in Msgs, NEW to \in Places \cup {-1}, NEW b \in BOOLEAN,
             ChangeMessage(p, m, to, b)
      PROVE  HistoryTypes'
  <2>1. {<<"crossed", m>> : q \in {q \in Procs : pc[q] = "notify" /\ pending[q].msg = m}}
          \subseteq Reasons \X Msgs
    BY DEF Reasons
  <2> QED
    BY <1>2, <2>1 DEF ChangeMessage
<1>3. ASSUME NEW p \in Procs, DestroySearchFolder(p) PROVE HistoryTypes'
  BY <1>3 DEF DestroySearchFolder, Delete
<1>4. ASSUME NEW p \in Procs, SetStopped(p) PROVE HistoryTypes'
  BY <1>4 DEF SetStopped, AfterCancel
<1>5. ASSUME NEW p \in Procs, SetRebuild(p) PROVE HistoryTypes'
  BY <1>5 DEF SetRebuild
<1>6. ASSUME NEW p \in Procs, ResetResults(p) PROVE HistoryTypes'
  BY <1>6 DEF ResetResults, Clear, Concurrent, Reasons
<1>7. ASSUME NEW p \in Procs, InsertSearchFolder(p) PROVE HistoryTypes'
  BY <1>7 DEF InsertSearchFolder, Concurrent, Reasons
<1>8. ASSUME NEW p \in Procs, SaveSearchCriteria(p) PROVE HistoryTypes'
  BY <1>8 DEF SaveSearchCriteria
<1>9. ASSUME NEW p \in Procs, UpdateSearchFolders(p) PROVE HistoryTypes'
  BY <1>9 DEF UpdateSearchFolders, Queue
<1>10. ASSUME NEW i \in Insts, SearchReset(i) PROVE HistoryTypes'
  BY <1>10 DEF SearchReset, Clear
<1>11. ASSUME NEW i \in Insts, SearchSelect(i) PROVE HistoryTypes'
  BY <1>11 DEF SearchSelect
<1>12. ASSUME NEW i \in Insts, ReadRows(i) PROVE HistoryTypes'
  BY <1>12 DEF ReadRows
<1>13. ASSUME NEW i \in Insts, AddResults(i) PROVE HistoryTypes'
  BY <1>13 DEF AddResults
<1>14. ASSUME NEW i \in Insts, SearchDone(i) PROVE HistoryTypes'
  <2>1. folder[i] \in SFolders
    BY <1>14 DEF SearchDone, ObjInv, ObjTypes
  <2> QED
    BY <1>14, <2>1 DEF SearchDone
<1>15. ASSUME NEW i \in Insts, SetRunning(i) PROVE HistoryTypes'
  BY <1>15 DEF SetRunning
<1>16. ASSUME NEW i \in Insts, ThreadFree(i) PROVE HistoryTypes'
  BY <1>16 DEF ThreadFree
<1>17. CASE ProcessTop
  BY <1>17 DEF ProcessTop
<1>18. CASE FlushEvents
  <2>1. \A i \in DOMAIN events : events[i].msg \in Msgs
    <3>1. \A i \in DOMAIN events : events[i] \in Event
      BY DEF EventTypes
    <3> QED
      BY <3>1 DEF Event
  <2>2. Reordered(events) \subseteq Msgs
    BY <2>1 DEF Reordered
  <2> QED
    BY <1>18, <2>2 DEF FlushEvents, Reasons
<1>19. CASE NextGroup
  BY <1>19 DEF NextGroup, TakeGroup
<1>20. CASE Update
  <2>1. group.msgs \subseteq Msgs
    BY DEF EventTypes, Group, NoGroup
  <2> QED
    BY <1>20, <2>1 DEF Update, Reasons
<1>21. CASE GroupDone
  BY <1>21 DEF GroupDone
<1>22. ASSUME NEW f \in SFolders, LockFolder(f) PROVE HistoryTypes'
  BY <1>22 DEF LockFolder
<1>23. ASSUME NEW f \in SFolders, GiveUp(f) PROVE HistoryTypes'
  <2>1. group.msgs \subseteq Msgs
    BY DEF EventTypes, Group, NoGroup
  <2> QED
    BY <1>23, <2>1 DEF GiveUp, Reasons
<1>24. CASE Restart
  <2>1. \A e \in Event : e.msg \in Msgs
    BY DEF Event
  <2>2. Unreported \subseteq Msgs
    BY <2>1 DEF Unreported, ProcInv
  <2>3. /\ \A i \in DOMAIN events : events[i] \in Event
        /\ \A i \in DOMAIN batch : batch[i] \in Event
    BY DEF EventTypes
  <2>4. group.msgs \subseteq Msgs
    BY DEF EventTypes, Group, NoGroup
  <2>5. Unprocessed \subseteq Msgs
    BY <2>1, <2>3, <2>4 DEF Unprocessed
  <2>6. current' \subseteq current /\ spoiled' \subseteq spoiled \cup Reasons \X Msgs
    BY <1>24, <2>2, <2>5, RestartEffect DEF Reasons
  <2> QED
    BY <2>6
<1>25. CASE UNCHANGED vars
  BY <1>25 DEF vars
<1> QED
  BY <1>1, <1>2, <1>3, <1>4, <1>5, <1>6, <1>7, <1>8, <1>9, <1>10, <1>11, <1>12,
     <1>13, <1>14, <1>15, <1>16, <1>17, <1>18, <1>19, <1>20, <1>21, <1>22, <1>23,
     <1>24, <1>25
     DEF Next, Threads, ProcStep, Process, Search

(* The counters. *)
LEMMA BoundTypesNext ==
  BoundTypes /\ [Next]_vars => BoundTypes'
<1> SUFFICES ASSUME BoundTypes, [Next]_vars
             PROVE  BoundTypes'
  OBVIOUS
<1>a. MaxSets \in Nat /\ MaxChanges \in Nat /\ MaxMishaps \in Nat
  BY SearchFoldersAssumption
<1> USE <1>a DEF BoundTypes, Goto, Continue, SearchGoto, NoFault, Mishap,
       msgVars, rowVars, objVars, searchVars, eventVars, procVars, boundVars
<1>1. ASSUME NEW p \in Procs, NEW f \in SFolders, NEW o \in {"set", "stop", "remove"},
             CancelSearchFolder(p, f, o)
      PROVE  BoundTypes'
  BY <1>1 DEF CancelSearchFolder, AfterCancel
<1>2. ASSUME NEW p \in Procs, NEW m \in Msgs, NEW to \in Places \cup {-1}, NEW b \in BOOLEAN,
             ChangeMessage(p, m, to, b)
      PROVE  BoundTypes'
  BY <1>2 DEF ChangeMessage
<1>3. ASSUME NEW p \in Procs, DestroySearchFolder(p) PROVE BoundTypes'
  BY <1>3 DEF DestroySearchFolder, Delete
<1>4. ASSUME NEW p \in Procs, SetStopped(p) PROVE BoundTypes'
  BY <1>4 DEF SetStopped, AfterCancel
<1>5. ASSUME NEW p \in Procs, SetRebuild(p) PROVE BoundTypes'
  BY <1>5 DEF SetRebuild
<1>6. ASSUME NEW p \in Procs, ResetResults(p) PROVE BoundTypes'
  BY <1>6 DEF ResetResults, Clear, Concurrent
<1>7. ASSUME NEW p \in Procs, InsertSearchFolder(p) PROVE BoundTypes'
  BY <1>7 DEF InsertSearchFolder
<1>8. ASSUME NEW p \in Procs, SaveSearchCriteria(p) PROVE BoundTypes'
  BY <1>8 DEF SaveSearchCriteria
<1>9. ASSUME NEW p \in Procs, UpdateSearchFolders(p) PROVE BoundTypes'
  BY <1>9 DEF UpdateSearchFolders, Queue
<1>10. ASSUME NEW i \in Insts, SearchReset(i) PROVE BoundTypes'
  BY <1>10 DEF SearchReset, Clear
<1>11. ASSUME NEW i \in Insts, SearchSelect(i) PROVE BoundTypes'
  BY <1>11 DEF SearchSelect
<1>12. ASSUME NEW i \in Insts, ReadRows(i) PROVE BoundTypes'
  BY <1>12 DEF ReadRows
<1>13. ASSUME NEW i \in Insts, AddResults(i) PROVE BoundTypes'
  BY <1>13 DEF AddResults
<1>14. ASSUME NEW i \in Insts, SearchDone(i) PROVE BoundTypes'
  BY <1>14 DEF SearchDone
<1>15. ASSUME NEW i \in Insts, SetRunning(i) PROVE BoundTypes'
  BY <1>15 DEF SetRunning
<1>16. ASSUME NEW i \in Insts, ThreadFree(i) PROVE BoundTypes'
  BY <1>16 DEF ThreadFree
<1>17. CASE ProcessTop
  BY <1>17 DEF ProcessTop
<1>18. CASE FlushEvents
  BY <1>18 DEF FlushEvents
<1>19. CASE NextGroup
  BY <1>19 DEF NextGroup, TakeGroup
<1>20. CASE Update
  BY <1>20 DEF Update
<1>21. CASE GroupDone
  BY <1>21 DEF GroupDone
<1>22. ASSUME NEW f \in SFolders, LockFolder(f) PROVE BoundTypes'
  BY <1>22 DEF LockFolder
<1>23. ASSUME NEW f \in SFolders, GiveUp(f) PROVE BoundTypes'
  BY <1>23 DEF GiveUp
<1>24. CASE Restart
  BY <1>24 DEF Restart
<1>25. CASE UNCHANGED vars
  BY <1>25 DEF vars
<1> QED
  BY <1>1, <1>2, <1>3, <1>4, <1>5, <1>6, <1>7, <1>8, <1>9, <1>10, <1>11, <1>12,
     <1>13, <1>14, <1>15, <1>16, <1>17, <1>18, <1>19, <1>20, <1>21, <1>22, <1>23,
     <1>24, <1>25
     DEF Next, Threads, ProcStep, Process, Search

(* Every variable keeps its type. *)
LEMMA TypeNext ==
  TypeOK /\ ProcInv /\ ObjInv /\ RowInv /\ [Next]_vars => TypeOK'
<1> SUFFICES ASSUME TypeOK, ProcInv, ObjInv, RowInv, [Next]_vars PROVE TypeOK'
  OBVIOUS
<1>1. /\ MsgTypes /\ RowTypes /\ ObjTypes /\ SearchTypes /\ EventTypes
      /\ ProcTypes /\ HistoryTypes /\ BoundTypes
  BY TypesAre
<1>2. /\ MsgTypes' /\ RowTypes' /\ ObjTypes' /\ SearchTypes' /\ EventTypes'
      /\ ProcTypes' /\ HistoryTypes' /\ BoundTypes'
  BY <1>1, MsgTypesNext, RowTypesNext, ObjTypesNext, SearchTypesNext, EventTypesNext,
     ProcTypesNext, HistoryTypesNext, BoundTypesNext
<1> QED
  BY <1>2 DEF TypeOK, MsgTypes, RowTypes, ObjTypes, SearchTypes, EventTypes, ProcTypes,
     HistoryTypes, BoundTypes

(* While requests do not cross, what is called complete is complete. *)
LEMMA CompleteNext ==
  TypeOK /\ ProcInv /\ ObjInv /\ Sole /\ Complete /\ Orderly' /\ [Next]_vars => Complete'
<1> SUFFICES ASSUME TypeOK, ProcInv, ObjInv, Sole, Complete, Orderly', [Next]_vars
             PROVE  Complete'
  OBVIOUS
<1> USE DEF TypeOK, Complete, Goto, Continue, SearchGoto, NoFault, Mishap,
       msgVars, rowVars, objVars, searchVars, eventVars, procVars, boundVars
<1>f. ASSUME UNCHANGED <<status, active, folder, spc, current, op, arg>>,
             \A q \in Procs : pc'[q] = pc[q] \/ {pc'[q], pc[q]} \subseteq {"save", "notify", "idle"}
      PROVE  Complete'
  <2> HIDE DEF TypeOK, Complete
  <2>1. \A f : (Stopping(f)' <=> Stopping(f)) /\ Objects(f)' = Objects(f) /\ Phase(f)' = Phase(f)
    BY <1>f DEF Stopping, Objects, Phase
  <2> QED
    BY <1>f, <2>1 DEF Complete
<1>1. ASSUME NEW p \in Procs, NEW f \in SFolders, NEW o \in {"set", "stop", "remove"},
             CancelSearchFolder(p, f, o)
      PROVE  Complete'
  <2>1. op' = [op EXCEPT ![p] = o] /\ arg' = [arg EXCEPT ![p] = f] /\ pc[p] = "idle"
        /\ active' = [active EXCEPT ![f] = None] /\ current' = current \ {f}
        /\ UNCHANGED <<status, folder, spc>>
    BY <1>1 DEF CancelSearchFolder
  <2>2. pc' = [pc EXCEPT ![p] = "destroy"] \/ pc' = [pc EXCEPT ![p] = AfterCancel(o)]
    BY <1>1 DEF CancelSearchFolder
  <2>3. \A q \in Procs : q # p => pc'[q] = pc[q] /\ op'[q] = op[q] /\ arg'[q] = arg[q]
    BY <2>1, <2>2
  <2>4. op'[p] = o /\ pc'[p] # "stopped" /\ (o = "set" => pc'[p] \notin {"reset", "insert"})
        /\ pc'[p] # "insert"
    BY <2>1, <2>2 DEF AfterCancel
  <2>6. \A g \in SFolders : /\ g # f => active'[g] = active[g] /\ Phase(g)' = Phase(g)
                            /\ g = f => active'[g] = None /\ Phase(g)' = "none"
    BY <2>1 DEF Phase
  <2>9. current \subseteq SFolders
    OBVIOUS
  <2> HIDE DEF TypeOK, Complete
  <2>5. \A g \in SFolders : Stopping(g)' <=> Stopping(g)
    BY <2>1, <2>3, <2>4 DEF Stopping
  <2>7. \A q \in Procs : pc[q] \in {"reset", "insert"} => arg[q] \in SFolders
    BY DEF ProcInv
  <2>8. \A g : Objects(g)' = Objects(g)
    BY <2>1 DEF Objects
  <2>e. \A g : g \in current' <=> g \in current /\ g # f
    BY <2>1
  <2>c1. \A q \in Procs : pc'[q] \in {"reset", "insert"} /\ op'[q] = "set" =>
          status'[arg'[q]] # "RUNNING" \/ Objects(arg[q])' # {} \/ Stopping(arg[q])'
    BY <2>1, <2>3, <2>4, <2>5, <2>6, <2>7, <2>8, <2>9 DEF Complete
  <2>c2. \A g \in SFolders : status'[g] = "RUNNING" /\ active'[g] # None =>
          g \in current' \/ Stopping(g)'
    BY <2>1, <2>3, <2>4, <2>5, <2>6, <2>7, <2>8, <2>9 DEF Complete
  <2>c3. \A g \in current' : Phase(g)' \in {"status", "complete", "finished"}
    BY <2>6, <2>e, <2>9 DEF Complete
  <2>c4. \A g \in SFolders : Phase(g)' = "status" => g \in current'
    BY <2>6, <2>e, <2>9 DEF Complete
  <2> QED
    BY <2>c1, <2>c2, <2>c3, <2>c4 DEF Complete
<1>2. ASSUME NEW p \in Procs, NEW m \in Msgs, NEW to \in Places \cup {-1}, NEW b \in BOOLEAN,
             ChangeMessage(p, m, to, b)
      PROVE  Complete'
  BY <1>2, <1>f DEF ChangeMessage
<1>3. ASSUME NEW p \in Procs, DestroySearchFolder(p) PROVE Complete'
  <2>1. inst[p] \in Insts /\ folder[inst[p]] = arg[p] /\ inst[p] \in threadExit
        /\ arg[p] \in SFolders
    BY <1>3 DEF DestroySearchFolder, ProcInv
  <2>2. \A f \in SFolders : active[f] # inst[p]
    BY <2>1, SearchFoldersAssumption DEF ObjInv
  <2>3. \A f \in SFolders : Phase(f)' = Phase(f)
    BY <1>3, <2>1, <2>2 DEF DestroySearchFolder, Delete, Phase
  <2>4. Stopping(arg[p])' /\ \A f \in SFolders : Stopping(f) => Stopping(f)'
    BY <1>3 DEF DestroySearchFolder, Stopping
  <2>5. \A f \in SFolders : f # arg[p] => Objects(f) = Objects(f)'
    BY <1>3, <2>1, SearchFoldersAssumption DEF DestroySearchFolder, Delete, Objects
  <2>6. /\ \A q \in Procs : pc'[q] \in {"reset", "insert"} => pc[q] = pc'[q] /\ arg[q] \in SFolders
        /\ UNCHANGED <<op, arg, status, active, current>>
    BY <1>3 DEF DestroySearchFolder, Delete, ProcInv
  <2>7. current \subseteq SFolders
    OBVIOUS
  <2> HIDE DEF TypeOK
  <2> QED
    BY <2>3, <2>4, <2>5, <2>6, <2>7
<1>4. ASSUME NEW p \in Procs, SetStopped(p) PROVE Complete'
  <2>1. arg[p] \in SFolders
    BY <1>4 DEF SetStopped, ProcInv
  <2>2. status'[arg[p]] = "STOPPED" /\ \A f \in SFolders : f # arg[p] => status'[f] = status[f]
    BY <1>4, <2>1 DEF SetStopped
  <2>3. \A q \in Procs : q # p => pc'[q] = pc[q] /\ op'[q] = op[q] /\ arg'[q] = arg[q]
    BY <1>4 DEF SetStopped
  <2>4. pc'[p] \in {"reset", "insert"} => op'[p] # "set"
    BY <1>4 DEF SetStopped, AfterCancel
  <2>5. \A f \in SFolders : f # arg[p] /\ Stopping(f) => Stopping(f)'
    BY <1>4, <2>3 DEF SetStopped, Stopping
  <2>6. \A q \in Procs : pc[q] \in {"reset", "insert"} => arg[q] \in SFolders
    BY DEF ProcInv
  <2>7. (\A f \in SFolders : Phase(f)' = Phase(f) /\ Objects(f)' = Objects(f))
        /\ UNCHANGED <<active, current>> /\ current \subseteq SFolders
    BY <1>4 DEF SetStopped, Phase, Objects
  <2> HIDE DEF TypeOK
  <2> QED
    BY <2>1, <2>2, <2>3, <2>4, <2>5, <2>6, <2>7
<1>5. ASSUME NEW p \in Procs, SetRebuild(p) PROVE Complete'
  <2>1. arg[p] \in SFolders
    BY <1>5 DEF SetRebuild, ProcInv
  <2>2. status'[arg[p]] = "REBUILD" /\ \A f \in SFolders : f # arg[p] => status'[f] = status[f]
    BY <1>5, <2>1 DEF SetRebuild
  <2>3. (\A q \in Procs : q # p => pc'[q] = pc[q]) /\ UNCHANGED <<op, arg, active, current>>
    BY <1>5 DEF SetRebuild
  <2>5. \A f \in SFolders : Stopping(f) => Stopping(f)'
    BY <1>5, <2>3 DEF SetRebuild, Stopping
  <2>6. \A q \in Procs : pc[q] \in {"reset", "insert"} => arg[q] \in SFolders
    BY DEF ProcInv
  <2>7. (\A f \in SFolders : Phase(f)' = Phase(f) /\ Objects(f)' = Objects(f))
        /\ current \subseteq SFolders
    BY <1>5 DEF SetRebuild, Phase, Objects
  <2> HIDE DEF TypeOK
  <2> QED
    BY <2>1, <2>2, <2>3, <2>5, <2>6, <2>7
<1>6. ASSUME NEW p \in Procs, ResetResults(p) PROVE Complete'
  <2>1. arg[p] \in SFolders /\ pc[p] = "reset"
    BY <1>6 DEF ResetResults, ProcInv
  <2>a. PICK m \in Msgs : Clean(m)'
    BY DEF Orderly
  <2>b. Concurrent(active[arg[p]] # None) => active[arg[p]] = None
    BY <2>a, NotConcurrent
  <2>2. (Clear(arg[p]) /\ active[arg[p]] = None) \/ UNCHANGED current
    BY <1>6, <2>b DEF ResetResults
  <2>3. (\A q \in Procs : q # p => pc'[q] = pc[q] /\ op'[q] = op[q] /\ arg'[q] = arg[q])
        /\ UNCHANGED <<active, status, folder, spc>>
    BY <1>6 DEF ResetResults
  <2>4. /\ pc'[p] \in {"insert", "idle"}
        /\ pc'[p] = "insert" => op[p] = "set" /\ op'[p] = op[p] /\ arg'[p] = arg[p]
    BY <1>6 DEF ResetResults
  <2>5. \A f \in SFolders : Stopping(f) => Stopping(f)'
    BY <2>1, <2>3 DEF Stopping
  <2>6. \A q \in Procs : pc[q] \in {"reset", "insert"} => arg[q] \in SFolders
    BY DEF ProcInv
  <2>7. (\A f \in SFolders : Phase(f)' = Phase(f) /\ Objects(f)' = Objects(f))
    BY <2>3 DEF Phase, Objects
  <2>8. current' = current \/ (current' = current \ {arg[p]} /\ active[arg[p]] = None)
    BY <1>6, <2>2 DEF ResetResults, Clear
  <2>d. current \subseteq SFolders
    OBVIOUS
  <2>9. Phase(arg[p]) = "status" => active[arg[p]] # None
    BY DEF Phase
  <2> HIDE DEF TypeOK, Complete
  <2>c1. \A q \in Procs : pc'[q] \in {"reset", "insert"} /\ op'[q] = "set" =>
          status'[arg'[q]] # "RUNNING" \/ Objects(arg[q])' # {} \/ Stopping(arg[q])'
    BY <2>1, <2>3, <2>4, <2>5, <2>6, <2>7, <2>8, <2>9, <2>d DEF Complete
  <2>c2. \A g \in SFolders : status'[g] = "RUNNING" /\ active'[g] # None =>
          g \in current' \/ Stopping(g)'
    BY <2>1, <2>3, <2>4, <2>5, <2>6, <2>7, <2>8, <2>9, <2>d DEF Complete
  <2>c3. \A g \in current' : Phase(g)' \in {"status", "complete", "finished"}
    BY <2>1, <2>3, <2>4, <2>5, <2>6, <2>7, <2>8, <2>9, <2>d DEF Complete
  <2>c4. \A g \in SFolders : Phase(g)' = "status" => g \in current'
    BY <2>1, <2>3, <2>4, <2>5, <2>6, <2>7, <2>8, <2>9, <2>d DEF Complete
  <2> QED
    BY <2>c1, <2>c2, <2>c3, <2>c4 DEF Complete
<1>7. ASSUME NEW p \in Procs, InsertSearchFolder(p) PROVE Complete'
  <2>1. PICK j \in Insts : Inserts(p, j)
    BY <1>7, InsertEffect
  <2>2. arg[p] \in SFolders /\ None \notin SFolders /\ None \notin Insts /\ op[p] = "set"
    BY <2>1, SearchFoldersAssumption DEF Inserts, ProcInv
  <2>3. Objects(arg[p]) = {}
    BY <2>1, NotConcurrent DEF Inserts, Orderly
  <2>4. active[arg[p]] = None
    BY <2>2, <2>3 DEF Objects, ObjInv
  <2>5. /\ \A f \in SFolders : f # arg[p] => active'[f] = active[f] /\ active[f] # j
        /\ active'[arg[p]] = j /\ folder'[j] = arg[p] /\ spc'[j] = "reset"
        /\ \A i \in Insts : i # j => folder'[i] = folder[i] /\ spc'[i] = spc[i]
        /\ UNCHANGED <<status, op, arg, current>> /\ pc'[p] = "save" /\ pc[p] = "insert"
        /\ \A q \in Procs : q # p => pc'[q] = pc[q]
    BY <2>1, <2>2, <2>4 DEF Inserts, NewSearchFolder, ObjInv
  <2>7. \A f \in SFolders : IF f = arg[p] THEN Phase(f) = "none" /\ Phase(f)' = "reset"
                           ELSE Phase(f)' = Phase(f)
    BY <2>2, <2>4, <2>5 DEF Phase
  <2>9. current \subseteq SFolders
    OBVIOUS
  <2> HIDE DEF TypeOK, Complete
  <2>6. \A f \in SFolders : Stopping(f) => Stopping(f)'
    BY <2>5 DEF Stopping
  <2>b. \A f \in SFolders : f # arg[p] => Objects(f)' = Objects(f)
    BY <2>2, <2>5, <2>1 DEF Objects, Inserts
  <2>c. Objects(arg[p])' # {}
    BY <2>5 DEF Objects
  <2>8. \A q \in Procs : pc[q] \in {"reset", "insert"} => arg[q] \in SFolders
    BY DEF ProcInv
  <2> QED
    BY <2>2, <2>3, <2>4, <2>5, <2>6, <2>7, <2>8, <2>9, <2>b, <2>c DEF Complete
<1>8. ASSUME NEW p \in Procs, SaveSearchCriteria(p) PROVE Complete'
  <2>1. UNCHANGED <<status, active, folder, spc, current>> /\ pc[p] = "save" /\ pc'[p] = "idle"
        /\ \A q \in Procs : q # p => pc'[q] = pc[q] /\ op'[q] = op[q] /\ arg'[q] = arg[q]
    BY <1>8 DEF SaveSearchCriteria
  <2> HIDE DEF TypeOK, Complete
  <2>2. \A f : (Stopping(f)' <=> Stopping(f)) /\ Objects(f)' = Objects(f) /\ Phase(f)' = Phase(f)
    BY <2>1 DEF Stopping, Objects, Phase
  <2> QED
    BY <2>1, <2>2 DEF Complete
<1>9. ASSUME NEW p \in Procs, UpdateSearchFolders(p) PROVE Complete'
  BY <1>9, <1>f DEF UpdateSearchFolders, Queue
<1>10. ASSUME NEW i \in Insts, SearchReset(i) PROVE Complete'
  <2>1. folder[i] \in SFolders /\ i \in Insts /\ None \notin Insts
    BY <1>10, SearchFoldersAssumption DEF SearchReset, ObjInv
  <2>2. UNCHANGED <<status, active, folder, op, arg, pc>> /\ spc[i] = "reset"
        /\ \A j \in Insts : j # i => spc'[j] = spc[j]
    BY <1>10 DEF SearchReset
  <2>3. \A f : (Stopping(f)' <=> Stopping(f)) /\ Objects(f)' = Objects(f)
    BY <2>2 DEF Stopping, Objects
  <2>4. \A f \in SFolders : IF active[f] = i THEN f = folder[i] /\ Phase(f) = spc[i] /\ Phase(f)' = spc'[i]
                           ELSE Phase(f)' = Phase(f)
    BY <2>1, <2>2 DEF Phase, ObjInv
  <2>5. current \subseteq SFolders
    OBVIOUS
  <2>6. spc'[i] \in {"select", "complete"} /\ current \ {folder[i]} \subseteq current'
        /\ current' \subseteq current
    BY <1>10 DEF SearchReset, Clear
  <2>7. active[folder[i]] # None => active[folder[i]] = i
    BY <2>1 DEF Sole
  <2>8. Phase(folder[i]) = "status" => active[folder[i]] # None
    BY DEF Phase
  <2> HIDE DEF TypeOK
  <2> QED
    BY <2>1, <2>2, <2>3, <2>4, <2>5, <2>6, <2>7, <2>8
<1>11. ASSUME NEW i \in Insts, SearchSelect(i) PROVE Complete'
  <2>1. folder[i] \in SFolders /\ i \in Insts /\ None \notin Insts
    BY <1>11, SearchFoldersAssumption DEF SearchSelect, ObjInv
  <2>2. UNCHANGED <<status, active, folder, current, op, arg, pc>> /\ spc[i] = "select"
        /\ \A j \in Insts : j # i => spc'[j] = spc[j]
    BY <1>11 DEF SearchSelect
  <2>3. \A f : (Stopping(f)' <=> Stopping(f)) /\ Objects(f)' = Objects(f)
    BY <2>2 DEF Stopping, Objects
  <2>4. \A f \in SFolders : IF active[f] = i THEN f = folder[i] /\ Phase(f) = spc[i] /\ Phase(f)' = spc'[i]
                           ELSE Phase(f)' = Phase(f)
    BY <2>1, <2>2 DEF Phase, ObjInv
  <2>5. current \subseteq SFolders
    OBVIOUS
  <2>6. spc'[i] = "batch"
    BY <1>11 DEF SearchSelect
  <2> HIDE DEF TypeOK
  <2> QED
    BY <2>1, <2>2, <2>3, <2>4, <2>5, <2>6
<1>12. ASSUME NEW i \in Insts, ReadRows(i) PROVE Complete'
  <2>1. folder[i] \in SFolders /\ i \in Insts /\ None \notin Insts
    BY <1>12, SearchFoldersAssumption DEF ReadRows, ObjInv
  <2>2. UNCHANGED <<status, active, folder, current, op, arg, pc>> /\ spc[i] = "batch"
        /\ \A j \in Insts : j # i => spc'[j] = spc[j]
    BY <1>12 DEF ReadRows, ReadBatch
  <2>3. \A f : (Stopping(f)' <=> Stopping(f)) /\ Objects(f)' = Objects(f)
    BY <2>2 DEF Stopping, Objects
  <2>4. \A f \in SFolders : IF active[f] = i THEN f = folder[i] /\ Phase(f) = spc[i] /\ Phase(f)' = spc'[i]
                           ELSE Phase(f)' = Phase(f)
    BY <2>1, <2>2 DEF Phase, ObjInv
  <2>5. current \subseteq SFolders
    OBVIOUS
  <2>6. spc'[i] \in {"commit", "complete"}
    BY <1>12 DEF ReadRows, ReadBatch
  <2> HIDE DEF TypeOK
  <2> QED
    BY <2>1, <2>2, <2>3, <2>4, <2>5, <2>6
<1>13. ASSUME NEW i \in Insts, AddResults(i) PROVE Complete'
  <2>1. folder[i] \in SFolders /\ i \in Insts /\ None \notin Insts
    BY <1>13, SearchFoldersAssumption DEF AddResults, ObjInv
  <2>2. UNCHANGED <<status, active, folder, current, op, arg, pc>> /\ spc[i] = "commit"
        /\ \A j \in Insts : j # i => spc'[j] = spc[j]
    BY <1>13 DEF AddResults
  <2>3. \A f : (Stopping(f)' <=> Stopping(f)) /\ Objects(f)' = Objects(f)
    BY <2>2 DEF Stopping, Objects
  <2>4. \A f \in SFolders : IF active[f] = i THEN f = folder[i] /\ Phase(f) = spc[i] /\ Phase(f)' = spc'[i]
                           ELSE Phase(f)' = Phase(f)
    BY <2>1, <2>2 DEF Phase, ObjInv
  <2>5. current \subseteq SFolders
    OBVIOUS
  <2>6. spc'[i] = "batch"
    BY <1>13 DEF AddResults
  <2> HIDE DEF TypeOK
  <2> QED
    BY <2>1, <2>2, <2>3, <2>4, <2>5, <2>6
<1>14. ASSUME NEW i \in Insts, SearchDone(i) PROVE Complete'
  <2>1. folder[i] \in SFolders /\ i \in Insts /\ None \notin Insts
    BY <1>14, SearchFoldersAssumption DEF SearchDone, ObjInv
  <2>2. UNCHANGED <<status, active, folder, op, arg, pc>> /\ spc[i] = "batch"
        /\ \A j \in Insts : j # i => spc'[j] = spc[j]
    BY <1>14 DEF SearchDone
  <2>3. \A f : (Stopping(f)' <=> Stopping(f)) /\ Objects(f)' = Objects(f)
    BY <2>2 DEF Stopping, Objects
  <2>4. \A f \in SFolders : IF active[f] = i THEN f = folder[i] /\ Phase(f) = spc[i] /\ Phase(f)' = spc'[i]
                           ELSE Phase(f)' = Phase(f)
    BY <2>1, <2>2 DEF Phase, ObjInv
  <2>5. current \subseteq SFolders
    OBVIOUS
  <2>6. spc'[i] = "status"
    BY <1>14 DEF SearchDone
  <2>7. IF i \in threadExit THEN current' = current /\ active[folder[i]] # i
        ELSE current' = current \cup {folder[i]} /\ active[folder[i]] = i
    BY <1>14, <2>1 DEF SearchDone, Sole, ObjInv
  <2> HIDE DEF TypeOK
  <2> QED
    BY <2>1, <2>2, <2>3, <2>4, <2>5, <2>6, <2>7
<1>15. ASSUME NEW i \in Insts, SetRunning(i) PROVE Complete'
  <2>1. folder[i] \in SFolders /\ i \in Insts /\ None \notin Insts
    BY <1>15, SearchFoldersAssumption DEF SetRunning, ObjInv
  <2>2. UNCHANGED <<active, folder, current, op, arg, pc>> /\ spc[i] = "status"
        /\ \A j \in Insts : j # i => spc'[j] = spc[j]
    BY <1>15 DEF SetRunning
  <2>3. \A f : (Stopping(f)' <=> Stopping(f)) /\ Objects(f)' = Objects(f)
    BY <2>2 DEF Stopping, Objects
  <2>4. \A f \in SFolders : IF active[f] = i THEN f = folder[i] /\ Phase(f) = spc[i] /\ Phase(f)' = spc'[i]
                           ELSE Phase(f)' = Phase(f)
    BY <2>1, <2>2 DEF Phase, ObjInv
  <2>5. current \subseteq SFolders
    OBVIOUS
  <2>6. spc'[i] = "complete" /\ \A f \in SFolders : f # folder[i] => status'[f] = status[f]
    BY <1>15, <2>1 DEF SetRunning
  <2>7. active[folder[i]] # None => active[folder[i]] = i
    BY <2>1 DEF Sole
  <2>8. Objects(folder[i]) # {}
    BY <2>1 DEF Objects
  <2>9. \A q \in Procs : pc[q] \in {"reset", "insert"} => arg[q] \in SFolders
    BY DEF ProcInv
  <2> HIDE DEF TypeOK
  <2> QED
    BY <2>1, <2>2, <2>3, <2>4, <2>5, <2>6, <2>7, <2>8, <2>9
<1>16. ASSUME NEW i \in Insts, ThreadFree(i) PROVE Complete'
  <2>1. folder[i] \in SFolders /\ i \in Insts /\ None \notin Insts
    BY <1>16, SearchFoldersAssumption DEF ThreadFree, ObjInv
  <2>2. UNCHANGED <<status, active, folder, current, op, arg, pc>> /\ spc[i] = "complete"
        /\ \A j \in Insts : j # i => spc'[j] = spc[j]
    BY <1>16 DEF ThreadFree
  <2>3. \A f : (Stopping(f)' <=> Stopping(f)) /\ Objects(f)' = Objects(f)
    BY <2>2 DEF Stopping, Objects
  <2>4. \A f \in SFolders : IF active[f] = i THEN f = folder[i] /\ Phase(f) = spc[i] /\ Phase(f)' = spc'[i]
                           ELSE Phase(f)' = Phase(f)
    BY <2>1, <2>2 DEF Phase, ObjInv
  <2>5. current \subseteq SFolders
    OBVIOUS
  <2>6. spc'[i] = "finished"
    BY <1>16 DEF ThreadFree
  <2> HIDE DEF TypeOK
  <2> QED
    BY <2>1, <2>2, <2>3, <2>4, <2>5, <2>6
<1>17. CASE ProcessTop
  BY <1>17, <1>f DEF ProcessTop
<1>18. CASE FlushEvents
  BY <1>18, <1>f DEF FlushEvents
<1>19. CASE NextGroup
  BY <1>19, <1>f DEF NextGroup, TakeGroup
<1>20. CASE Update
  BY <1>20, <1>f DEF Update
<1>21. CASE GroupDone
  BY <1>21, <1>f DEF GroupDone
<1>22. ASSUME NEW f \in SFolders, LockFolder(f) PROVE Complete'
  BY <1>22, <1>f DEF LockFolder
<1>23. ASSUME NEW f \in SFolders, GiveUp(f) PROVE Complete'
  BY <1>23, <1>f DEF GiveUp
<1>24. CASE Restart
  <2>1. pc' = [q \in Procs |-> "idle"] /\ UNCHANGED status
    BY <1>24 DEF Restart
  <2>2. Load \ Rebuild \subseteq current
    <3>1. PICK m \in Msgs : Clean(m)'
      BY DEF Orderly
    <3>2. <<"halfbuilt", m>> \notin spoiled'
      BY <3>1 DEF Clean, Reasons
    <3> QED
      BY <1>24, <3>2, RestartEffect
  <2> HIDE DEF TypeOK
  <2>3. /\ \A f \in SFolders : IF f \in Load THEN active'[f] \in Insts /\ folder'[active'[f]] = f
                               ELSE active'[f] = None
        /\ \A j \in Insts : spc'[j] = IF folder'[j] = None THEN "none"
                                       ELSE IF folder'[j] \in Rebuild THEN "reset" ELSE "finished"
        /\ current' = current \cap (Load \ Rebuild)
    BY <1>24, RestartEffect
  <2>4. None \notin SFolders /\ current \subseteq SFolders /\ None \notin Insts
    BY SearchFoldersAssumption DEF TypeOK
  <2>5. \A f \in SFolders : Phase(f)' = IF f \notin Load THEN "none"
                                        ELSE IF f \in Rebuild THEN "reset" ELSE "finished"
    BY <2>3, <2>4 DEF Phase
  <2>6. \A f \in SFolders : status[f] = "RUNNING" => f \notin Rebuild
    BY DEF Rebuild
  <2> QED
    BY <2>1, <2>2, <2>3, <2>4, <2>5, <2>6
<1>25. CASE UNCHANGED vars
  BY <1>25, <1>f DEF vars
<1> HIDE DEF TypeOK, Complete
<1> QED
  BY <1>1, <1>2, <1>3, <1>4, <1>5, <1>6, <1>7, <1>8, <1>9, <1>10, <1>11, <1>12,
     <1>13, <1>14, <1>15, <1>16, <1>17, <1>18, <1>19, <1>20, <1>21, <1>22, <1>23,
     <1>24, <1>25
     DEF Next, Threads, ProcStep, Process, Search

-----------------------------------------------------------------------------
(* The invariant: messages.                                                  *)

Matches(m) == InTarget(m) /\ match[m]

(* A change of m is still to be sorted into the batch or taken from it.      *)
Tells(p, m) == pc[p] = "notify" /\ pending[p].msg = m
Pend(m) == \E p \in Procs : Tells(p, m)
Has(s, m) == \E i \in DOMAIN s : s[i].msg = m
Later(m) == Pend(m) \/ Has(events, m) \/ Has(batch, m)

(* Nothing is known of m, or that it was added to the folder it is in: what  *)
(* searches and the process thread make of it is right.                      *)
RowsRight(m) ==
  /\ \A f \in SFolders : m \in results[f] => Matches(m)
  /\ \A i \in Insts : (m \in todo[i] => InTarget(m)) /\ (m \in found[i] => Matches(m))
  /\ m \in hits => Matches(m)
Adds(e, m) == e.msg = m => e.type = "ADD" /\ e.place = place[m]
OnlyAdded(m) ==
  /\ \A p \in Procs : pc[p] = "notify" => Adds(pending[p], m)
  /\ \A i \in DOMAIN events : Adds(events[i], m)
  /\ \A i \in DOMAIN batch : Adds(batch[i], m)
  /\ m \in group.msgs => group.type = "ADD" /\ group.place = place[m]
Untouched(m) == RowsRight(m) /\ OnlyAdded(m)

(* What event e says of m is so. *)
Says(m, e) ==
  /\ e.type = "DELETE" => place[m] = -1
  /\ e.type # "DELETE" => place[m] = e.place
  /\ e.type = "ADD" => Untouched(m)

(* The last event of m in s says what is so. *)
Told(s, m) == \E i \in DOMAIN s : /\ s[i].msg = m /\ Says(m, s[i])
                                  /\ \A j \in DOMAIN s : j > i => s[j].msg # m

(* At most one change of m is not yet queued, and what it says is so. *)
OneNews(m) == \A p, q \in Procs : Tells(p, m) /\ Tells(q, m) => p = q
NewsSays(m) == \A p \in Procs : Tells(p, m) => Says(m, pending[p])

(* The last that is on its way about m, from a request to the process        *)
(* thread, says what is so.                                                  *)
Reported(m) ==
  /\ OneNews(m) /\ NewsSays(m)
  /\ Has(events, m) => Pend(m) \/ Told(events, m)
  /\ Has(batch, m) => Pend(m) \/ Has(events, m) \/ Told(batch, m)
  /\ m \in group.msgs => Later(m) \/ Says(m, group)

(* The process thread has read m as it is, or will read it again. *)
HitRight(m) ==
  ppc = "update" /\ m \in group.msgs => Later(m) \/ (m \in hits <=> GroupInTarget /\ match[m])

(* The process thread will come back to m in search folder f. *)
Coming(f, m) == Later(m) \/ (m \in group.msgs /\ f \in left)

(* The search of f is beyond its first step, and what it holds. *)
Progress(f) == f \in current \/ Phase(f) \in {"batch", "commit"}
Found(f) == IF active[f] = None THEN {} ELSE found[active[f]]
Todo(f) == IF active[f] = None THEN {} ELSE todo[active[f]]

(* m is rightly in the results of f, or not in them, or will be put right.   *)
Exact(f, m) ==
  /\ Progress(f) \/ Phase(f) = "select" => (m \in results[f] => Matches(m) \/ Coming(f, m))
  /\ m \in Found(f) => Matches(m) \/ Coming(f, m)
  /\ m \in Todo(f) => InTarget(m) \/ Coming(f, m)
  /\ Progress(f) /\ Matches(m) => m \in results[f] \cup Found(f) \cup Todo(f) \/ Coming(f, m)

UnbornInv == \A m \in Msgs : place[m] = 0 => Untouched(m)
ReportedInv == \A m \in Msgs : Clean(m) => Reported(m)
HitsInv == \A m \in Msgs : HitRight(m)
ExactInv == \A m \in Msgs, f \in SFolders : Clean(m) => Exact(f, m)

-----------------------------------------------------------------------------
(* Searches and the process thread read a message as it is. *)
LEMMA RowsRightNext ==
  ASSUME NEW n \in Msgs,
         TypeOK, RowsRight(n), OnlyAdded(n), UNCHANGED <<place[n], match[n]>>, [Next]_vars
  PROVE  RowsRight(n)'
<1> USE DEF Goto, Continue, SearchGoto, NoFault, Mishap,
       msgVars, rowVars, objVars, searchVars, eventVars, procVars, boundVars
<1>a. (InTarget(n)' <=> InTarget(n)) /\ (Matches(n)' <=> Matches(n))
  BY DEF Matches, InTarget
<1>b. /\ results \in [SFolders -> SUBSET Msgs] /\ todo \in [Insts -> SUBSET Msgs]
      /\ found \in [Insts -> SUBSET Msgs]
  BY DEF TypeOK
<1>1. ASSUME NEW p \in Procs, NEW f \in SFolders, NEW o \in {"set", "stop", "remove"},
             CancelSearchFolder(p, f, o)
      PROVE  RowsRight(n)'
  BY <1>1, <1>a DEF CancelSearchFolder, AfterCancel, RowsRight
<1>2. ASSUME NEW p \in Procs, NEW m \in Msgs, NEW to \in Places \cup {-1}, NEW b \in BOOLEAN,
             ChangeMessage(p, m, to, b)
      PROVE  RowsRight(n)'
  BY <1>2, <1>a DEF ChangeMessage, RowsRight
<1>3. ASSUME NEW p \in Procs, DestroySearchFolder(p) PROVE RowsRight(n)'
  BY <1>3, <1>a DEF DestroySearchFolder, Delete, RowsRight
<1>4. ASSUME NEW p \in Procs, SetStopped(p) PROVE RowsRight(n)'
  BY <1>4, <1>a DEF SetStopped, AfterCancel, RowsRight
<1>5. ASSUME NEW p \in Procs, SetRebuild(p) PROVE RowsRight(n)'
  BY <1>5, <1>a DEF SetRebuild, RowsRight
<1>6. ASSUME NEW p \in Procs, ResetResults(p) PROVE RowsRight(n)'
  <2>1. UNCHANGED <<todo, found, hits>> /\ \A f \in SFolders : results'[f] \subseteq results[f]
    BY <1>6, <1>b DEF ResetResults, Clear
  <2> QED
    BY <2>1, <1>a DEF RowsRight
<1>7. ASSUME NEW p \in Procs, InsertSearchFolder(p) PROVE RowsRight(n)'
  BY <1>7, <1>a DEF InsertSearchFolder, RowsRight
<1>8. ASSUME NEW p \in Procs, SaveSearchCriteria(p) PROVE RowsRight(n)'
  BY <1>8, <1>a DEF SaveSearchCriteria, RowsRight
<1>9. ASSUME NEW p \in Procs, UpdateSearchFolders(p) PROVE RowsRight(n)'
  BY <1>9, <1>a DEF UpdateSearchFolders, Queue, RowsRight
<1>10. ASSUME NEW i \in Insts, SearchReset(i) PROVE RowsRight(n)'
  <2>1. UNCHANGED <<todo, found, hits>> /\ \A f \in SFolders : results'[f] \subseteq results[f]
    BY <1>10, <1>b DEF SearchReset, Clear
  <2> QED
    BY <2>1, <1>a DEF RowsRight
<1>11. ASSUME NEW i \in Insts, SearchSelect(i) PROVE RowsRight(n)'
  <2>1. UNCHANGED <<results, found, hits>> /\ todo' = [todo EXCEPT ![i] = {m \in Msgs : InTarget(m)}]
    BY <1>11 DEF SearchSelect
  <2>2. \A j \in Insts : n \in todo'[j] => n \in todo[j] \/ InTarget(n)
    BY <2>1, <1>b
  <2> QED
    BY <2>1, <2>2, <1>a DEF RowsRight
<1>12. ASSUME NEW i \in Insts, ReadRows(i) PROVE RowsRight(n)'
  <2>1. UNCHANGED <<results, hits>>
    BY <1>12 DEF ReadRows
  <2>2. CASE UNCHANGED found /\ todo' = [todo EXCEPT ![i] = {}]
    BY <2>1, <2>2, <1>a, <1>b DEF RowsRight
  <2>3. ASSUME NEW b \in SUBSET todo[i], NEW S \in Matching(i, b), found' = [found EXCEPT ![i] = S],
               todo' = [todo EXCEPT ![i] = @ \ b]
        PROVE  RowsRight(n)'
    <3>1. n \in S => n \in todo[i] /\ match[n]
      BY <2>3 DEF Matching
    <3>2. /\ \A j \in Insts : n \in todo'[j] => n \in todo[j]
          /\ \A j \in Insts : j # i => found'[j] = found[j]
          /\ found'[i] = S
      BY <2>3, <1>b
    <3>3. n \in S => Matches(n)
      BY <3>1 DEF RowsRight, Matches
    <3>4. \A j \in Insts : n \in found'[j] => n \in found[j] \/ n \in S
      BY <3>2
    <3> QED
      BY <2>1, <3>2, <3>3, <3>4, <1>a DEF RowsRight
  <2> QED
    BY <1>12, <2>2, <2>3 DEF ReadRows, ReadBatch
<1>13. ASSUME NEW i \in Insts, AddResults(i) PROVE RowsRight(n)'
  <2>1. UNCHANGED <<todo, hits>> /\ \A j \in Insts : found'[j] \subseteq found[j]
    BY <1>13, <1>b DEF AddResults
  <2>2. \A f \in SFolders : results'[f] \subseteq results[f] \cup found[i]
    BY <1>13, <1>b DEF AddResults
  <2> QED
    BY <2>1, <2>2, <1>a DEF RowsRight
<1>14. ASSUME NEW i \in Insts, SearchDone(i) PROVE RowsRight(n)'
  <2>1. UNCHANGED <<results, found, hits>> /\ \A j \in Insts : todo'[j] \subseteq todo[j]
    BY <1>14, <1>b DEF SearchDone
  <2> QED
    BY <2>1, <1>a DEF RowsRight
<1>15. ASSUME NEW i \in Insts, SetRunning(i) PROVE RowsRight(n)'
  BY <1>15, <1>a DEF SetRunning, RowsRight
<1>16. ASSUME NEW i \in Insts, ThreadFree(i) PROVE RowsRight(n)'
  BY <1>16, <1>a DEF ThreadFree, RowsRight
<1>17. CASE ProcessTop
  BY <1>17, <1>a DEF ProcessTop, RowsRight
<1>18. CASE FlushEvents
  BY <1>18, <1>a DEF FlushEvents, RowsRight
<1>19. CASE NextGroup
  BY <1>19, <1>a DEF NextGroup, TakeGroup, RowsRight
<1>20. CASE Update
  <2>1. UNCHANGED <<todo, found>> /\ hits' = {}
    BY <1>20 DEF Update
  <2>2. \A f \in SFolders : results'[f] \subseteq results[f] \cup hits
    BY <1>20, <1>b DEF Update
  <2> QED
    BY <2>1, <2>2, <1>a DEF RowsRight
<1>21. CASE GroupDone
  BY <1>21, <1>a DEF GroupDone, RowsRight
<1>22. ASSUME NEW f \in SFolders, LockFolder(f) PROVE RowsRight(n)'
  <2>1. UNCHANGED <<results, todo, found>> /\ hits' = {m \in group.msgs : GroupInTarget /\ match[m]}
    BY <1>22 DEF LockFolder
  <2>2. n \in hits' => Matches(n)
    BY <2>1 DEF OnlyAdded, Matches, GroupInTarget, InTarget
  <2> QED
    BY <2>1, <2>2, <1>a DEF RowsRight
<1>23. ASSUME NEW f \in SFolders, GiveUp(f) PROVE RowsRight(n)'
  BY <1>23, <1>a DEF GiveUp, RowsRight
<1>24. CASE Restart
  <2>1. hits' = {} /\ todo' = [i \in Insts |-> {}] /\ found' = [i \in Insts |-> {}]
    BY <1>24 DEF Restart
  <2>2. \A f \in SFolders : results'[f] \subseteq results[f]
    BY <1>24, RestartEffect
  <2> QED
    BY <2>1, <2>2, <1>a DEF RowsRight
<1>25. CASE UNCHANGED vars
  BY <1>25, <1>a DEF vars, RowsRight
<1> QED
  BY <1>1, <1>2, <1>3, <1>4, <1>5, <1>6, <1>7, <1>8, <1>9, <1>10, <1>11, <1>12,
     <1>13, <1>14, <1>15, <1>16, <1>17, <1>18, <1>19, <1>20, <1>21, <1>22, <1>23,
     <1>24, <1>25
     DEF Next, Threads, ProcStep, Process, Search

(* The only event about a message stays that until the message is changed. *)
LEMMA OnlyAddedNext ==
  ASSUME NEW n \in Msgs,
         TypeOK, OnlyAdded(n), UNCHANGED <<place[n], match[n]>>, [Next]_vars
  PROVE  OnlyAdded(n)'
<1> USE DEF Goto, Continue, SearchGoto, NoFault, Mishap,
       msgVars, rowVars, objVars, searchVars, eventVars, procVars, boundVars
<1>a. UNCHANGED place[n]
  OBVIOUS
<1>b. pc \in [Procs -> ProcPc] /\ pending \in [Procs -> Event \cup {None}]
      /\ place \in [Msgs -> Places \cup {0, -1}] /\ match \in [Msgs -> BOOLEAN]
  BY DEF TypeOK
<1>c. events \in Seq(Event) /\ batch \in Seq(Event)
  BY DEF TypeOK
<1>f. ASSUME UNCHANGED <<pending, events, batch, group>>,
             \A q \in Procs : pc'[q] = "notify" => pc[q] = "notify"
      PROVE  OnlyAdded(n)'
  BY <1>f, <1>a DEF OnlyAdded, Adds
<1>1. ASSUME NEW p \in Procs, NEW f \in SFolders, NEW o \in {"set", "stop", "remove"},
             CancelSearchFolder(p, f, o)
      PROVE  OnlyAdded(n)'
  BY <1>1, <1>b, <1>f DEF CancelSearchFolder, AfterCancel
<1>2. ASSUME NEW p \in Procs, NEW m \in Msgs, NEW to \in Places \cup {-1}, NEW b \in BOOLEAN,
             ChangeMessage(p, m, to, b)
      PROVE  OnlyAdded(n)'
  <2>1. m # n
    BY <1>2, <1>b DEF ChangeMessage
  <2>2. /\ pending' = [pending EXCEPT ![p] =
               [place |-> IF to = -1 THEN place[m] ELSE to, msg |-> m,
                type |-> IF to = -1 THEN "DELETE"
                         ELSE IF place[m] = 0 THEN "ADD" ELSE "MODIFY"]]
        /\ pc' = [pc EXCEPT ![p] = "notify"] /\ UNCHANGED <<events, batch, group>>
    BY <1>2 DEF ChangeMessage
  <2>3. pending'[p].msg = m /\ \A q \in Procs : q # p => pending'[q] = pending[q] /\ pc'[q] = pc[q]
    BY <2>2, <1>b
  <2> QED
    BY <2>1, <2>2, <2>3, <1>a DEF OnlyAdded, Adds
<1>3. ASSUME NEW p \in Procs, DestroySearchFolder(p) PROVE OnlyAdded(n)'
  BY <1>3, <1>b, <1>f DEF DestroySearchFolder, Delete
<1>4. ASSUME NEW p \in Procs, SetStopped(p) PROVE OnlyAdded(n)'
  BY <1>4, <1>b, <1>f DEF SetStopped, AfterCancel
<1>5. ASSUME NEW p \in Procs, SetRebuild(p) PROVE OnlyAdded(n)'
  BY <1>5, <1>b, <1>f DEF SetRebuild
<1>6. ASSUME NEW p \in Procs, ResetResults(p) PROVE OnlyAdded(n)'
  BY <1>6, <1>b, <1>f DEF ResetResults, Clear, Concurrent
<1>7. ASSUME NEW p \in Procs, InsertSearchFolder(p) PROVE OnlyAdded(n)'
  BY <1>7, <1>b, <1>f DEF InsertSearchFolder
<1>8. ASSUME NEW p \in Procs, SaveSearchCriteria(p) PROVE OnlyAdded(n)'
  BY <1>8, <1>b, <1>f DEF SaveSearchCriteria
<1>9. ASSUME NEW p \in Procs, UpdateSearchFolders(p) PROVE OnlyAdded(n)'
  <2>1. events' = Append(events, pending[p]) /\ pc[p] = "notify" /\ UNCHANGED <<batch, group>>
        /\ pc' = [pc EXCEPT ![p] = "idle"] /\ pending' = [pending EXCEPT ![p] = None]
    BY <1>9 DEF UpdateSearchFolders, Queue
  <2>2. \A q \in Procs : pc'[q] = "notify" => pc[q] = "notify" /\ pending'[q] = pending[q]
    BY <2>1, <1>b
  <2>3. \A j \in DOMAIN events' : events'[j] = pending[p] \/ (j \in DOMAIN events /\ events'[j] = events[j])
    BY <2>1, <1>c
  <2> QED
    BY <2>1, <2>2, <2>3, <1>a DEF OnlyAdded, Adds
<1>10. ASSUME NEW i \in Insts, SearchReset(i) PROVE OnlyAdded(n)'
  BY <1>10, <1>b, <1>f DEF SearchReset, Clear
<1>11. ASSUME NEW i \in Insts, SearchSelect(i) PROVE OnlyAdded(n)'
  BY <1>11, <1>b, <1>f DEF SearchSelect
<1>12. ASSUME NEW i \in Insts, ReadRows(i) PROVE OnlyAdded(n)'
  BY <1>12, <1>b, <1>f DEF ReadRows, ReadBatch, Matching
<1>13. ASSUME NEW i \in Insts, AddResults(i) PROVE OnlyAdded(n)'
  BY <1>13, <1>b, <1>f DEF AddResults
<1>14. ASSUME NEW i \in Insts, SearchDone(i) PROVE OnlyAdded(n)'
  BY <1>14, <1>b, <1>f DEF SearchDone
<1>15. ASSUME NEW i \in Insts, SetRunning(i) PROVE OnlyAdded(n)'
  BY <1>15, <1>b, <1>f DEF SetRunning
<1>16. ASSUME NEW i \in Insts, ThreadFree(i) PROVE OnlyAdded(n)'
  BY <1>16, <1>b, <1>f DEF ThreadFree
<1>17. CASE ProcessTop
  BY <1>17, <1>b, <1>f DEF ProcessTop
<1>18. CASE FlushEvents
  <2>1. events' = <<>> /\ batch' = SortByPlace(events) /\ UNCHANGED <<pc, pending, group>>
    BY <1>18 DEF FlushEvents
  <2>2. \A k \in DOMAIN batch' : \E i \in DOMAIN events : batch'[k] = events[i]
    BY <2>1, <1>c, SortPermutes
  <2> QED
    BY <2>1, <2>2, <1>a DEF OnlyAdded, Adds
<1>19. CASE NextGroup
  <2>1. CASE UNCHANGED <<pc, pending, events, batch, group>>
    BY <2>1, <1>a DEF OnlyAdded, Adds
  <2>2. ASSUME NEW k \in 1..Len(batch), IsRun(k), TakeGroup(k), UNCHANGED <<pc, pending, events>>
        PROVE  OnlyAdded(n)'
    <3>1. batch' = SubSeq(batch, k + 1, Len(batch)) /\ group'.msgs = {batch[i].msg : i \in 1..k}
          /\ group'.place = batch[1].place /\ group'.type = batch[1].type
      BY <2>2 DEF TakeGroup
    <3>2. \A j \in DOMAIN batch' : \E i \in DOMAIN batch : batch'[j] = batch[i]
      BY <3>1, <1>c
    <3>3. \A i \in 1..k : i \in DOMAIN batch /\ group'.place = batch[i].place
                        /\ group'.type = batch[i].type
      BY <2>2, <3>1, <1>c DEF IsRun, Alike
    <3> QED
      BY <2>2, <3>1, <3>2, <3>3, <1>a DEF OnlyAdded, Adds
  <2> QED
    BY <1>19, <2>1, <2>2 DEF NextGroup
<1>20. CASE Update
  BY <1>20, <1>b, <1>f DEF Update
<1>21. CASE GroupDone
  BY <1>21, <1>a DEF GroupDone, OnlyAdded, Adds, NoGroup
<1>22. ASSUME NEW f \in SFolders, LockFolder(f) PROVE OnlyAdded(n)'
  BY <1>22, <1>b, <1>f DEF LockFolder
<1>23. ASSUME NEW f \in SFolders, GiveUp(f) PROVE OnlyAdded(n)'
  BY <1>23, <1>b, <1>f DEF GiveUp
<1>24. CASE Restart
  <2>1. pc' = [p \in Procs |-> "idle"] /\ events' = <<>> /\ batch' = <<>> /\ group' = NoGroup
    BY <1>24 DEF Restart
  <2> QED
    BY <2>1 DEF OnlyAdded, NoGroup
<1>25. CASE UNCHANGED vars
  BY <1>25, <1>b, <1>f DEF vars
<1> QED
  BY <1>1, <1>2, <1>3, <1>4, <1>5, <1>6, <1>7, <1>8, <1>9, <1>10, <1>11, <1>12,
     <1>13, <1>14, <1>15, <1>16, <1>17, <1>18, <1>19, <1>20, <1>21, <1>22, <1>23,
     <1>24, <1>25
     DEF Next, Threads, ProcStep, Process, Search

(* A message that is as it was added stays that until it is changed. *)
LEMMA UntouchedNext ==
  ASSUME NEW n \in Msgs, TypeOK, Untouched(n), UNCHANGED <<place[n], match[n]>>, [Next]_vars
  PROVE  Untouched(n)'
  BY RowsRightNext, OnlyAddedNext DEF Untouched

(* Only the request that changes a message changes it. *)
LEMMA MessageChanges ==
  ASSUME NEW n \in Msgs, TypeOK, [Next]_vars
  PROVE  \/ UNCHANGED <<place[n], match[n]>>
         \/ \E p \in Procs, to \in Places \cup {-1}, b \in BOOLEAN : ChangeMessage(p, n, to, b)
<1> DEFINE Goal == \/ UNCHANGED <<place[n], match[n]>>
                   \/ \E p \in Procs, to \in Places \cup {-1}, b \in BOOLEAN : ChangeMessage(p, n, to, b)
<1> USE DEF Goto, Continue, SearchGoto, NoFault, Mishap,
       msgVars, rowVars, objVars, searchVars, eventVars, procVars, boundVars
<1>1. CASE UNCHANGED <<place, match>>
  BY <1>1
<1>2. ASSUME NEW p \in Procs, NEW m \in Msgs, NEW to \in Places \cup {-1}, NEW b \in BOOLEAN,
             ChangeMessage(p, m, to, b)
      PROVE  Goal
  <2>1. CASE m = n
    BY <1>2, <2>1
  <2>2. CASE m # n
    BY <1>2, <2>2 DEF ChangeMessage, TypeOK
  <2> QED
    BY <2>1, <2>2
<1>3. \/ UNCHANGED <<place, match>>
      \/ \E p \in Procs, m \in Msgs, to \in Places \cup {-1}, b \in BOOLEAN : ChangeMessage(p, m, to, b)
  <2>1. ASSUME NEW p \in Procs, NEW f \in SFolders, NEW o \in {"set", "stop", "remove"},
             CancelSearchFolder(p, f, o)
        PROVE  UNCHANGED <<place, match>>
    BY <2>1 DEF CancelSearchFolder
  <2>2. ASSUME NEW p \in Procs, DestroySearchFolder(p)
        PROVE  UNCHANGED <<place, match>>
    BY <2>2 DEF DestroySearchFolder
  <2>3. ASSUME NEW p \in Procs, SetStopped(p)
        PROVE  UNCHANGED <<place, match>>
    BY <2>3 DEF SetStopped
  <2>4. ASSUME NEW p \in Procs, SetRebuild(p)
        PROVE  UNCHANGED <<place, match>>
    BY <2>4 DEF SetRebuild
  <2>5. ASSUME NEW p \in Procs, ResetResults(p)
        PROVE  UNCHANGED <<place, match>>
    BY <2>5 DEF ResetResults
  <2>6. ASSUME NEW p \in Procs, InsertSearchFolder(p)
        PROVE  UNCHANGED <<place, match>>
    BY <2>6 DEF InsertSearchFolder
  <2>7. ASSUME NEW p \in Procs, SaveSearchCriteria(p)
        PROVE  UNCHANGED <<place, match>>
    BY <2>7 DEF SaveSearchCriteria
  <2>8. ASSUME NEW p \in Procs, UpdateSearchFolders(p)
        PROVE  UNCHANGED <<place, match>>
    BY <2>8 DEF UpdateSearchFolders, Queue
  <2>9. ASSUME NEW i \in Insts, SearchReset(i)
        PROVE  UNCHANGED <<place, match>>
    BY <2>9 DEF SearchReset
  <2>10. ASSUME NEW i \in Insts, SearchSelect(i)
        PROVE  UNCHANGED <<place, match>>
    BY <2>10 DEF SearchSelect
  <2>11. ASSUME NEW i \in Insts, ReadRows(i)
        PROVE  UNCHANGED <<place, match>>
    BY <2>11 DEF ReadRows
  <2>12. ASSUME NEW i \in Insts, AddResults(i)
        PROVE  UNCHANGED <<place, match>>
    BY <2>12 DEF AddResults
  <2>13. ASSUME NEW i \in Insts, SearchDone(i)
        PROVE  UNCHANGED <<place, match>>
    BY <2>13 DEF SearchDone
  <2>14. ASSUME NEW i \in Insts, SetRunning(i)
        PROVE  UNCHANGED <<place, match>>
    BY <2>14 DEF SetRunning
  <2>15. ASSUME NEW i \in Insts, ThreadFree(i)
        PROVE  UNCHANGED <<place, match>>
    BY <2>15 DEF ThreadFree
  <2>16. CASE ProcessTop
    BY <2>16 DEF ProcessTop
  <2>17. CASE FlushEvents
    BY <2>17 DEF FlushEvents
  <2>18. CASE NextGroup
    BY <2>18 DEF NextGroup
  <2>19. CASE Update
    BY <2>19 DEF Update
  <2>20. CASE GroupDone
    BY <2>20 DEF GroupDone
  <2>21. ASSUME NEW f \in SFolders, LockFolder(f)
        PROVE  UNCHANGED <<place, match>>
    BY <2>21 DEF LockFolder
  <2>22. ASSUME NEW f \in SFolders, GiveUp(f)
        PROVE  UNCHANGED <<place, match>>
    BY <2>22 DEF GiveUp
  <2>23. CASE Restart
    BY <2>23 DEF Restart
  <2>24. CASE UNCHANGED vars
    BY <2>24 DEF vars
  <2> QED
    BY <2>1, <2>2, <2>3, <2>4, <2>5, <2>6, <2>7, <2>8, <2>9, <2>10, <2>11, <2>12,
     <2>13, <2>14, <2>15, <2>16, <2>17, <2>18, <2>19, <2>20, <2>21, <2>22, <2>23,
     <2>24
       DEF Next, Threads, ProcStep, Process, Search
<1> QED
  BY <1>1, <1>2, <1>3

(* A message that was not created is known to nobody. *)
LEMMA UnbornNext ==
  ASSUME TypeOK, UnbornInv, [Next]_vars
  PROVE  UnbornInv'
<1> SUFFICES ASSUME NEW n \in Msgs, place'[n] = 0 PROVE Untouched(n)'
  BY DEF UnbornInv
<1>1. UNCHANGED <<place[n], match[n]>>
  <2>1. ASSUME NEW p \in Procs, NEW to \in Places \cup {-1}, NEW b \in BOOLEAN, ChangeMessage(p, n, to, b)
        PROVE  FALSE
    <3>1. place'[n] = to
      BY <2>1 DEF ChangeMessage, TypeOK
    <3>2. 0 \notin Places
      BY SearchFoldersAssumption
    <3> QED
      BY <3>1, <3>2
  <2> QED
    BY <2>1, MessageChanges
<1> QED
  BY <1>1, UntouchedNext DEF UnbornInv

(* What has been told about a message stays so as long as the message does.  *)
LEMMA NewsKept ==
  ASSUME NEW n \in Msgs, Reported(n), UNCHANGED <<pending, events, batch, group, place[n]>>,
         \A q \in Procs : pc'[q] = "notify" <=> pc[q] = "notify", Untouched(n) => Untouched(n)'
  PROVE  Reported(n)'
<1>1. \A e : Says(n, e) => Says(n, e)'
  BY DEF Says
<1>2. (Pend(n)' <=> Pend(n)) /\ (Has(events, n)' <=> Has(events, n)) /\ (Has(batch, n)' <=> Has(batch, n))
  BY DEF Pend, Tells, Has
<1>3. (Told(events, n) => Told(events, n)') /\ (Told(batch, n) => Told(batch, n)')
  BY DEF Told, Says
<1>4. NewsSays(n)'
  BY DEF Reported, NewsSays, Tells, Says
<1>5. n \in group'.msgs => Later(n)' \/ Says(n, group)'
  BY <1>2 DEF Reported, Says, Later
<1>6. OneNews(n)'
  BY DEF Reported, OneNews, Tells
<1> QED
  BY <1>2, <1>3, <1>4, <1>5, <1>6 DEF Reported

(* The sort keeps the last event of a message last, unless it is reordered.  *)
LEMMA SortKeepsLast ==
  ASSUME NEW s \in Seq(Event), NEW m, m \notin Reordered(s), NEW i \in DOMAIN s, s[i].msg = m,
         \A j \in DOMAIN s : j > i => s[j].msg # m
  PROVE  \E k \in DOMAIN SortByPlace(s) :
           /\ SortByPlace(s)[k] = s[i]
           /\ \A l \in DOMAIN SortByPlace(s) : l > k => SortByPlace(s)[l].msg # m
<1>0. PICK t, k : t = SortByPlace(s) /\ k = Rank(s, i)
  OBVIOUS
<1>1. /\ DOMAIN t = DOMAIN s
      /\ \A j \in DOMAIN s : Rank(s, j) \in DOMAIN s /\ t[Rank(s, j)] = s[j]
      /\ \A l \in DOMAIN s : \E j \in DOMAIN s : Rank(s, j) = l
  BY <1>0, SortPermutes
<1>2. DOMAIN s \subseteq Int /\ \A j \in DOMAIN s : s[j].place \in Int /\ Rank(s, j) \in Int
  BY EventPlace, RankIsMonotonic
<1>3. ASSUME NEW l \in DOMAIN t, l > k, t[l].msg = m
      PROVE  FALSE
  <2>0. PICK j \in DOMAIN s : Rank(s, j) = l
    BY <1>1
  <2>1. Rank(s, j) = l /\ s[j].msg = m
    BY <1>1, <1>3, <2>0
  <2>2. j < i
    BY <1>2, <1>3, <2>1, <1>0
  <2>3. ~(s[j].place > s[i].place)
    BY <2>1, <2>2 DEF Reordered
  <2>4. Before(s, j, i) /\ i # j
    BY <1>2, <2>2, <2>3 DEF Before
  <2>5. Rank(s, j) < Rank(s, i)
    BY <2>4, RankIsMonotonic
  <2> QED
    BY <1>0, <1>2, <1>3, <2>1, <2>5
<1>4. k \in DOMAIN t /\ t[k] = s[i]
  BY <1>0, <1>1
<1> QED
  BY <1>0, <1>3, <1>4

(* The last news of a clean message is right on its way to the process thread. *)
LEMMA ReportedNext ==
  ASSUME NEW n \in Msgs,
         TypeOK, QueueInv, UnbornInv, Reported(n), Clean(n)', [Next]_vars
  PROVE  Reported(n)'
<1> USE DEF Goto, Continue, SearchGoto, NoFault, Mishap,
       msgVars, rowVars, objVars, searchVars, eventVars, procVars, boundVars
<1>b. pc \in [Procs -> ProcPc] /\ pending \in [Procs -> Event \cup {None}]
      /\ place \in [Msgs -> Places \cup {0, -1}] /\ match \in [Msgs -> BOOLEAN]
  BY DEF TypeOK
<1>c. events \in Seq(Event) /\ batch \in Seq(Event) /\ group \in Group \cup {NoGroup}
  BY DEF TypeOK
<1>u. UNCHANGED <<place[n], match[n]>> /\ Untouched(n) => Untouched(n)'
  BY UntouchedNext
<1>1. ASSUME NEW p \in Procs, NEW f \in SFolders, NEW o \in {"set", "stop", "remove"},
             CancelSearchFolder(p, f, o)
      PROVE  Reported(n)'
  <2>1. \A q \in Procs : pc'[q] = "notify" <=> pc[q] = "notify"
    BY <1>1, <1>b DEF CancelSearchFolder, AfterCancel
  <2> QED
    BY <1>1, <2>1, <1>u, NewsKept DEF CancelSearchFolder
<1>2. ASSUME NEW p \in Procs, NEW m \in Msgs, NEW to \in Places \cup {-1}, NEW b \in BOOLEAN,
             ChangeMessage(p, m, to, b)
      PROVE  Reported(n)'
  <2>1. /\ pending' = [pending EXCEPT ![p] =
               [place |-> IF to = -1 THEN place[m] ELSE to, msg |-> m,
                type |-> IF to = -1 THEN "DELETE"
                         ELSE IF place[m] = 0 THEN "ADD" ELSE "MODIFY"]]
        /\ pc[p] = "idle" /\ pc' = [pc EXCEPT ![p] = "notify"] /\ UNCHANGED <<events, batch, group>>
    BY <1>2 DEF ChangeMessage
  <2>2. /\ pending'[p].msg = m /\ pc'[p] = "notify"
        /\ \A q \in Procs : q # p => pending'[q] = pending[q] /\ pc'[q] = pc[q]
    BY <2>1, <1>b
  <2>3. CASE m # n
    <3>1. (Pend(n)' <=> Pend(n)) /\ (Has(events, n)' <=> Has(events, n)) /\ (Has(batch, n)' <=> Has(batch, n))
      BY <2>1, <2>2, <2>3 DEF Pend, Tells, Has
    <3>2. UNCHANGED <<place[n], match[n]>>
      BY <1>2, <1>b, <2>3 DEF ChangeMessage
    <3>3. (Told(events, n) => Told(events, n)') /\ (Told(batch, n) => Told(batch, n)')
      BY <2>1, <3>2, <1>u DEF Told, Says
    <3>4. NewsSays(n)'
      BY <2>2, <2>3, <3>2, <1>u DEF Reported, NewsSays, Tells, Says
    <3>5. n \in group'.msgs => Later(n)' \/ Says(n, group)'
      BY <2>1, <3>1, <3>2, <1>u DEF Reported, Says, Later
    <3>6. OneNews(n)'
      BY <2>2, <2>3 DEF Reported, OneNews, Tells
    <3> QED
      BY <3>1, <3>3, <3>4, <3>5, <3>6 DEF Reported
  <2>4. CASE m = n
    <3>1. \A q \in Procs : pc[q] = "notify" => pending[q].msg # n
      <4>1. <<"crossed", n>> \notin spoiled'
        BY DEF Clean, Reasons
      <4>2. spoiled' = spoiled \cup
              {<<"crossed", m>> : q \in {q \in Procs : pc[q] = "notify" /\ pending[q].msg = m}}
        BY <1>2 DEF ChangeMessage
      <4> QED
        BY <4>1, <4>2, <2>4
    <3>2. Pend(n)'
      BY <2>2, <2>4 DEF Pend, Tells
    <3>3. place'[n] = to
      BY <1>2, <1>b, <2>4 DEF ChangeMessage
    <3>4. place[n] = 0 => Untouched(n)'
      <4>1. SUFFICES ASSUME place[n] = 0 PROVE Untouched(n)'
        OBVIOUS
      <4>2. Untouched(n) /\ ~Matches(n) /\ ~InTarget(n) /\ 0 \notin Places
        BY <4>1, SearchFoldersAssumption DEF UnbornInv, Matches, InTarget
      <4>3. /\ \A i \in DOMAIN events : events[i].msg # n
            /\ \A i \in DOMAIN batch : batch[i].msg # n
            /\ n \notin group.msgs
        <5>1. /\ \A i \in DOMAIN events : events[i] \in Event
              /\ \A i \in DOMAIN batch : batch[i] \in Event
          BY <1>c
        <5>2. \A e \in Event : e.place \in Places
          BY DEF Event
        <5>3. n \in group.msgs => group.place \in Places
          BY <1>c DEF Group, NoGroup
        <5> QED
          BY <4>1, <4>2, <5>1, <5>2, <5>3 DEF Untouched, OnlyAdded, Adds
      <4>4. /\ \A f \in SFolders : n \notin results[f]
            /\ \A i \in Insts : n \notin todo[i] /\ n \notin found[i]
            /\ n \notin hits
        BY <4>2 DEF Untouched, RowsRight
      <4>5. RowsRight(n)'
        BY <1>2, <4>4 DEF ChangeMessage, RowsRight
      <4>6. pending'[p].type = "ADD" /\ pending'[p].place = to
        <5>1. to # -1
          BY <1>2, <2>4, <4>1 DEF ChangeMessage
        <5> QED
          BY <2>1, <2>4, <4>1, <5>1, <1>b
      <4>7. OnlyAdded(n)'
        BY <2>1, <2>2, <3>1, <3>3, <4>3, <4>6 DEF OnlyAdded, Adds
      <4> QED
        BY <4>5, <4>7 DEF Untouched
    <3>5. Says(n, pending[p])'
      <4>1. pending'[p] = [place |-> IF to = -1 THEN place[m] ELSE to, msg |-> m,
                           type |-> IF to = -1 THEN "DELETE"
                                    ELSE IF place[m] = 0 THEN "ADD" ELSE "MODIFY"]
        BY <2>1, <1>b
      <4> QED
        BY <2>4, <3>3, <3>4, <4>1 DEF Says
    <3>6. \A q \in Procs : pc'[q] = "notify" /\ pending'[q].msg = n => q = p
      BY <2>2, <3>1
    <3>7. OneNews(n)'
      BY <3>6 DEF OneNews, Tells
    <3>8. NewsSays(n)'
      BY <3>5, <3>6 DEF NewsSays, Tells, Says
    <3> QED
      BY <3>2, <3>7, <3>8 DEF Reported, Later
  <2> QED
    BY <2>3, <2>4
<1>3. ASSUME NEW p \in Procs, DestroySearchFolder(p) PROVE Reported(n)'
  BY <1>3, <1>b, <1>u, NewsKept DEF DestroySearchFolder, Delete
<1>4. ASSUME NEW p \in Procs, SetStopped(p) PROVE Reported(n)'
  <2>1. \A q \in Procs : pc'[q] = "notify" <=> pc[q] = "notify"
    BY <1>4, <1>b DEF SetStopped, AfterCancel
  <2> QED
    BY <1>4, <2>1, <1>u, NewsKept DEF SetStopped
<1>5. ASSUME NEW p \in Procs, SetRebuild(p) PROVE Reported(n)'
  BY <1>5, <1>b, <1>u, NewsKept DEF SetRebuild
<1>6. ASSUME NEW p \in Procs, ResetResults(p) PROVE Reported(n)'
  BY <1>6, <1>b, <1>u, NewsKept DEF ResetResults, Clear, Concurrent
<1>7. ASSUME NEW p \in Procs, InsertSearchFolder(p) PROVE Reported(n)'
  BY <1>7, <1>b, <1>u, NewsKept DEF InsertSearchFolder, NewSearchFolder, Concurrent
<1>8. ASSUME NEW p \in Procs, SaveSearchCriteria(p) PROVE Reported(n)'
  BY <1>8, <1>b, <1>u, NewsKept DEF SaveSearchCriteria
<1>9. ASSUME NEW p \in Procs, UpdateSearchFolders(p) PROVE Reported(n)'
  <2>0. PICK e : e = pending[p]
    OBVIOUS
  <2>1. /\ pc[p] = "notify" /\ pc' = [pc EXCEPT ![p] = "idle"] /\ pending' = [pending EXCEPT ![p] = None]
        /\ events' = Append(events, e) /\ UNCHANGED <<place, match, batch, group>>
    BY <1>9, <2>0 DEF UpdateSearchFolders, Queue
  <2>2. /\ pc'[p] # "notify"
        /\ \A q \in Procs : q # p => pending'[q] = pending[q] /\ pc'[q] = pc[q]
    BY <2>1, <1>b
  <2>3. /\ DOMAIN events' = 1..(Len(events) + 1) /\ DOMAIN events = 1..Len(events)
        /\ \A i \in DOMAIN events : events'[i] = events[i]
        /\ events'[Len(events) + 1] = e /\ Len(events) \in Nat
    BY <2>1, <1>c
  <2>4. NewsSays(n)'
    BY <2>1, <2>2, <1>u DEF Reported, NewsSays, Tells, Says
  <2>5. OneNews(n)'
    BY <2>2 DEF Reported, OneNews, Tells
  <2>6. (Told(batch, n) => Told(batch, n)') /\ (Has(batch, n)' <=> Has(batch, n))
    BY <2>1, <1>u DEF Told, Says, Has
  <2>7. CASE e.msg = n
    <3>1. Says(n, e)
      BY <2>0, <2>1, <2>7 DEF Reported, NewsSays, Tells
    <3>2. Says(n, e)'
      BY <2>1, <3>1, <1>u DEF Says
    <3>3. Has(events, n)'
      BY <2>3, <2>7 DEF Has
    <3>4. Told(events, n)'
      <4>1. \E i \in DOMAIN events' : /\ events'[i].msg = n /\ i = Len(events) + 1 /\ events'[i] = e
                                      /\ \A j \in DOMAIN events' : j > i => events'[j].msg # n
        BY <2>3, <2>7
      <4> QED
        BY <4>1, <2>1, <3>1, <1>u DEF Told, Says
    <3> QED
      BY <2>4, <2>5, <3>3, <3>4 DEF Reported, Later
  <2>8. CASE e.msg # n
    <3>1. (Pend(n)' <=> Pend(n)) /\ (Has(events, n)' <=> Has(events, n))
      BY <2>0, <2>1, <2>2, <2>3, <2>8 DEF Pend, Tells, Has
    <3>2. Told(events, n) => Told(events, n)'
      BY <2>1, <2>3, <2>8, <1>u DEF Told, Says
    <3>3. n \in group'.msgs => Later(n)' \/ Says(n, group)'
      BY <2>1, <2>6, <3>1, <1>u DEF Reported, Says, Later
    <3> QED
      BY <2>4, <2>5, <2>6, <3>1, <3>2, <3>3 DEF Reported
  <2> QED
    BY <2>7, <2>8
<1>10. ASSUME NEW i \in Insts, SearchReset(i) PROVE Reported(n)'
  BY <1>10, <1>b, <1>u, NewsKept DEF SearchReset, Clear
<1>11. ASSUME NEW i \in Insts, SearchSelect(i) PROVE Reported(n)'
  BY <1>11, <1>b, <1>u, NewsKept DEF SearchSelect
<1>12. ASSUME NEW i \in Insts, ReadRows(i) PROVE Reported(n)'
  BY <1>12, <1>b, <1>u, NewsKept DEF ReadRows, ReadBatch, Matching
<1>13. ASSUME NEW i \in Insts, AddResults(i) PROVE Reported(n)'
  BY <1>13, <1>b, <1>u, NewsKept DEF AddResults
<1>14. ASSUME NEW i \in Insts, SearchDone(i) PROVE Reported(n)'
  BY <1>14, <1>b, <1>u, NewsKept DEF SearchDone
<1>15. ASSUME NEW i \in Insts, SetRunning(i) PROVE Reported(n)'
  BY <1>15, <1>b, <1>u, NewsKept DEF SetRunning
<1>16. ASSUME NEW i \in Insts, ThreadFree(i) PROVE Reported(n)'
  BY <1>16, <1>b, <1>u, NewsKept DEF ThreadFree
<1>17. CASE ProcessTop
  BY <1>17, <1>b, <1>u, NewsKept DEF ProcessTop
<1>18. CASE FlushEvents
  <2>1. /\ events' = <<>> /\ batch' = SortByPlace(events)
        /\ spoiled' = spoiled \cup {"order"} \X Reordered(events)
        /\ batch = <<>> /\ group = NoGroup /\ UNCHANGED <<place, match, pc, pending, group>>
    BY <1>18 DEF FlushEvents, QueueInv
  <2>2. n \notin Reordered(events)
    BY <2>1 DEF Clean, Reasons
  <2>3. \A k \in DOMAIN batch' : \E i \in DOMAIN events : batch'[k] = events[i]
    BY <2>1, <1>c, SortPermutes
  <2>4. Has(batch, n)' => Has(events, n)
    BY <2>3 DEF Has
  <2>5. Told(events, n) => Told(batch, n)'
    <3>1. SUFFICES ASSUME Told(events, n) PROVE Told(batch, n)'
      OBVIOUS
    <3>2. PICK i \in DOMAIN events : /\ events[i].msg = n /\ Says(n, events[i])
                                     /\ \A j \in DOMAIN events : j > i => events[j].msg # n
      BY <3>1 DEF Told
    <3>3. \E k \in DOMAIN batch' : /\ batch'[k] = events[i]
                                   /\ \A l \in DOMAIN batch' : l > k => batch'[l].msg # n
      BY <2>1, <2>2, <3>2, <1>c, SortKeepsLast
    <3> QED
      BY <2>1, <3>2, <3>3, <1>u DEF Told, Says
  <2>6. NewsSays(n)'
    BY <2>1, <1>u DEF Reported, NewsSays, Tells, Says
  <2>7. (Pend(n)' <=> Pend(n)) /\ ~Has(events, n)' /\ n \notin group'.msgs
        /\ OneNews(n)'
    BY <2>1 DEF Pend, OneNews, Tells, Has, NoGroup, Reported
  <2> QED
    BY <2>1, <2>4, <2>5, <2>6, <2>7 DEF Reported
<1>19. CASE NextGroup
  <2>1. CASE UNCHANGED <<batch, group>>
    BY <1>19, <2>1, <1>u, NewsKept DEF NextGroup
  <2>2. ASSUME NEW k \in 1..Len(batch), IsRun(k), TakeGroup(k)
        PROVE  Reported(n)'
    <3>0. UNCHANGED <<place, match, pc, pending, events>>
      BY <1>19 DEF NextGroup
    <3>1. /\ batch' = SubSeq(batch, k + 1, Len(batch)) /\ group'.msgs = {batch[i].msg : i \in 1..k}
          /\ group'.place = batch[1].place /\ group'.type = batch[1].type
      BY <2>2 DEF TakeGroup
    <3>2. /\ Len(batch) \in Nat /\ DOMAIN batch = 1..Len(batch) /\ DOMAIN batch' = 1..(Len(batch) - k)
          /\ \A j \in DOMAIN batch' : batch'[j] = batch[j + k]
      BY <3>1, <1>c
    <3>3. \A i \in 1..k : group'.place = batch[i].place /\ group'.type = batch[i].type
      BY <2>2, <3>1 DEF IsRun, Alike
    <3>4. NewsSays(n)'
      BY <3>0, <1>u DEF Reported, NewsSays, Tells, Says
    <3>5. OneNews(n)'
      BY <3>0 DEF Reported, OneNews, Tells
    <3>6. (Pend(n)' <=> Pend(n)) /\ (Has(events, n)' <=> Has(events, n))
      BY <3>0 DEF Pend, Tells, Has
    <3>7. Told(events, n) => Told(events, n)'
      BY <3>0, <1>u DEF Told, Says
    <3>8. (Has(batch, n)' => Has(batch, n)) /\ (n \in group'.msgs => Has(batch, n))
      <4>1. \A j \in DOMAIN batch' : j + k \in DOMAIN batch
        BY <3>2
      <4>2. \A i \in 1..k : i \in DOMAIN batch
        BY <3>2
      <4> QED
        BY <3>1, <3>2, <4>1, <4>2 DEF Has
    <3>9. ASSUME Told(batch, n)
          PROVE  /\ Has(batch, n)' => Told(batch, n)'
                 /\ n \in group'.msgs => Has(batch, n)' \/ Says(n, group)'
      <4>1. PICK l \in DOMAIN batch : /\ batch[l].msg = n /\ Says(n, batch[l])
                                      /\ \A j \in DOMAIN batch : j > l => batch[j].msg # n
        BY <3>9 DEF Told
      <4>2. CASE l > k
        <5>1. l - k \in DOMAIN batch' /\ batch'[l - k] = batch[l]
          BY <3>2, <4>2
        <5>2. \A j \in DOMAIN batch' : j > l - k => batch'[j].msg # n
          BY <3>2, <4>1
        <5> QED
          BY <5>1, <5>2, <4>1, <3>0, <1>u DEF Told, Says, Has
      <4>3. CASE l <= k
        <5>1. ~Has(batch, n)'
          BY <3>2, <4>1, <4>3 DEF Has
        <5>2. Says(n, group)'
          BY <3>0, <3>2, <3>3, <4>1, <4>3, <1>u DEF Says
        <5> QED
          BY <5>1, <5>2
      <4> QED
        BY <4>2, <4>3, <3>2
    <3> QED
      BY <3>4, <3>5, <3>6, <3>7, <3>8, <3>9 DEF Reported, Later
  <2> QED
    BY <1>19, <2>1, <2>2 DEF NextGroup
<1>20. CASE Update
  BY <1>20, <1>b, <1>u, NewsKept DEF Update
<1>21. CASE GroupDone
  <2>1. group' = NoGroup /\ UNCHANGED <<place, match, pc, pending, events, batch>>
    BY <1>21 DEF GroupDone
  <2>2. (Told(events, n) => Told(events, n)') /\ (Told(batch, n) => Told(batch, n)')
    BY <2>1, <1>u DEF Told, Says
  <2>3. NewsSays(n)'
    BY <2>1, <1>u DEF Reported, NewsSays, Tells, Says
  <2>4. /\ (Pend(n)' <=> Pend(n)) /\ (Has(events, n)' <=> Has(events, n))
        /\ (Has(batch, n)' <=> Has(batch, n)) /\ n \notin group'.msgs
    BY <2>1 DEF Pend, Tells, Has, NoGroup
  <2>5. OneNews(n)'
    BY <2>1 DEF Reported, OneNews, Tells
  <2> QED
    BY <2>2, <2>3, <2>4, <2>5 DEF Reported
<1>22. ASSUME NEW f \in SFolders, LockFolder(f) PROVE Reported(n)'
  BY <1>22, <1>b, <1>u, NewsKept DEF LockFolder
<1>23. ASSUME NEW f \in SFolders, GiveUp(f) PROVE Reported(n)'
  BY <1>23, <1>b, <1>u, NewsKept DEF GiveUp
<1>24. CASE Restart
  <2>1. pc' = [q \in Procs |-> "idle"] /\ events' = <<>> /\ batch' = <<>> /\ group' = NoGroup
    BY <1>24 DEF Restart
  <2> QED
    BY <2>1 DEF Reported, OneNews, NewsSays, Tells, Has, NoGroup
<1>25. CASE UNCHANGED vars
  BY <1>25, <1>b, <1>u, NewsKept DEF vars
<1> QED
  BY <1>1, <1>2, <1>3, <1>4, <1>5, <1>6, <1>7, <1>8, <1>9, <1>10, <1>11, <1>12,
     <1>13, <1>14, <1>15, <1>16, <1>17, <1>18, <1>19, <1>20, <1>21, <1>22, <1>23,
     <1>24, <1>25
     DEF Next, Threads, ProcStep, Process, Search

(* An event goes on to the process thread, until it takes it as part of a group. *)
LEMMA LaterNext ==
  ASSUME NEW n \in Msgs,
         TypeOK, QueueInv, Later(n), ~Restart, [Next]_vars
  PROVE  \/ Later(n)'
         \/ /\ ppc = "groups" /\ n \in group'.msgs
            /\ left' = {f \in SFolders : active[f] # None}
<1> USE DEF Goto, Continue, SearchGoto, NoFault, Mishap,
       msgVars, rowVars, objVars, searchVars, eventVars, procVars, boundVars
<1> DEFINE Goal == \/ Later(n)'
                   \/ /\ ppc = "groups" /\ n \in group'.msgs
                      /\ left' = {f \in SFolders : active[f] # None}
<1>b. pc \in [Procs -> ProcPc] /\ pending \in [Procs -> Event \cup {None}]
  BY DEF TypeOK
<1>c. events \in Seq(Event) /\ batch \in Seq(Event)
  BY DEF TypeOK
<1>f. ASSUME UNCHANGED <<pending, events, batch>>, \A q \in Procs : pc[q] = "notify" => pc'[q] = "notify"
      PROVE  Goal
  BY <1>f DEF Later, Pend, Tells, Has
<1>1. ASSUME NEW p \in Procs, NEW f \in SFolders, NEW o \in {"set", "stop", "remove"},
             CancelSearchFolder(p, f, o)
      PROVE  Goal
  BY <1>1, <1>b, <1>f DEF CancelSearchFolder, AfterCancel
<1>2. ASSUME NEW p \in Procs, NEW m \in Msgs, NEW to \in Places \cup {-1}, NEW b \in BOOLEAN,
             ChangeMessage(p, m, to, b)
      PROVE  Goal
  <2>1. /\ UNCHANGED <<events, batch>> /\ pc[p] # "notify"
        /\ \A q \in Procs : pc[q] = "notify" => pc'[q] = "notify" /\ pending'[q] = pending[q]
    BY <1>2, <1>b DEF ChangeMessage
  <2> QED
    BY <2>1 DEF Later, Pend, Tells, Has
<1>3. ASSUME NEW p \in Procs, DestroySearchFolder(p) PROVE Goal
  BY <1>3, <1>b, <1>f DEF DestroySearchFolder, Delete
<1>4. ASSUME NEW p \in Procs, SetStopped(p) PROVE Goal
  BY <1>4, <1>b, <1>f DEF SetStopped, AfterCancel
<1>5. ASSUME NEW p \in Procs, SetRebuild(p) PROVE Goal
  BY <1>5, <1>b, <1>f DEF SetRebuild
<1>6. ASSUME NEW p \in Procs, ResetResults(p) PROVE Goal
  BY <1>6, <1>b, <1>f DEF ResetResults, Clear, Concurrent
<1>7. ASSUME NEW p \in Procs, InsertSearchFolder(p) PROVE Goal
  BY <1>7, <1>b, <1>f DEF InsertSearchFolder, NewSearchFolder, Concurrent
<1>8. ASSUME NEW p \in Procs, SaveSearchCriteria(p) PROVE Goal
  BY <1>8, <1>b, <1>f DEF SaveSearchCriteria
<1>9. ASSUME NEW p \in Procs, UpdateSearchFolders(p) PROVE Goal
  <2>1. events' = Append(events, pending[p]) /\ UNCHANGED batch
        /\ \A q \in Procs : q # p /\ pc[q] = "notify" => pc'[q] = "notify" /\ pending'[q] = pending[q]
    BY <1>9, <1>b DEF UpdateSearchFolders, Queue
  <2>2. /\ \A i \in DOMAIN events : i \in DOMAIN events' /\ events'[i] = events[i]
        /\ Len(events) + 1 \in DOMAIN events' /\ events'[Len(events) + 1] = pending[p]
    BY <2>1, <1>c
  <2> QED
    BY <2>1, <2>2 DEF Later, Pend, Tells, Has
<1>10. ASSUME NEW i \in Insts, SearchReset(i) PROVE Goal
  BY <1>10, <1>b, <1>f DEF SearchReset, Clear
<1>11. ASSUME NEW i \in Insts, SearchSelect(i) PROVE Goal
  BY <1>11, <1>b, <1>f DEF SearchSelect
<1>12. ASSUME NEW i \in Insts, ReadRows(i) PROVE Goal
  BY <1>12, <1>b, <1>f DEF ReadRows, ReadBatch
<1>13. ASSUME NEW i \in Insts, AddResults(i) PROVE Goal
  BY <1>13, <1>b, <1>f DEF AddResults
<1>14. ASSUME NEW i \in Insts, SearchDone(i) PROVE Goal
  BY <1>14, <1>b, <1>f DEF SearchDone
<1>15. ASSUME NEW i \in Insts, SetRunning(i) PROVE Goal
  BY <1>15, <1>b, <1>f DEF SetRunning
<1>16. ASSUME NEW i \in Insts, ThreadFree(i) PROVE Goal
  BY <1>16, <1>b, <1>f DEF ThreadFree
<1>17. CASE ProcessTop
  BY <1>17, <1>b, <1>f DEF ProcessTop
<1>18. CASE FlushEvents
  <2>1. batch' = SortByPlace(events) /\ batch = <<>> /\ UNCHANGED <<pc, pending>>
    BY <1>18 DEF FlushEvents, QueueInv
  <2>2. \A i \in DOMAIN events : \E k \in DOMAIN batch' : batch'[k] = events[i]
    BY <2>1, <1>c, SortPermutes
  <2> QED
    BY <2>1, <2>2 DEF Later, Pend, Tells, Has
<1>19. CASE NextGroup
  <2>1. CASE UNCHANGED <<batch, group>>
    BY <1>19, <2>1 DEF NextGroup, Later, Pend, Tells, Has
  <2>2. ASSUME NEW k \in 1..Len(batch), TakeGroup(k)
        PROVE  Goal
    <3>1. /\ batch' = SubSeq(batch, k + 1, Len(batch)) /\ group'.msgs = {batch[i].msg : i \in 1..k}
          /\ left' = {f \in SFolders : active[f] # None}
          /\ UNCHANGED <<pc, pending, events, active>> /\ ppc = "groups"
      BY <1>19, <2>2 DEF TakeGroup, NextGroup
    <3>2. \A i \in DOMAIN batch : i \in 1..k \/ (i - k \in DOMAIN batch' /\ batch'[i - k] = batch[i])
      BY <3>1, <1>c
    <3> QED
      BY <3>1, <3>2 DEF Later, Pend, Tells, Has
  <2> QED
    BY <1>19, <2>1, <2>2 DEF NextGroup
<1>20. CASE Update
  BY <1>20, <1>b, <1>f DEF Update
<1>21. CASE GroupDone
  BY <1>21, <1>b, <1>f DEF GroupDone
<1>22. ASSUME NEW f \in SFolders, LockFolder(f) PROVE Goal
  BY <1>22, <1>b, <1>f DEF LockFolder
<1>23. ASSUME NEW f \in SFolders, GiveUp(f) PROVE Goal
  BY <1>23, <1>b, <1>f DEF GiveUp
<1>24. CASE Restart
  BY <1>24
<1>25. CASE UNCHANGED vars
  BY <1>25, <1>b, <1>f DEF vars
<1> QED
  BY <1>1, <1>2, <1>3, <1>4, <1>5, <1>6, <1>7, <1>8, <1>9, <1>10, <1>11, <1>12,
     <1>13, <1>14, <1>15, <1>16, <1>17, <1>18, <1>19, <1>20, <1>21, <1>22, <1>23,
     <1>24, <1>25
     DEF Next, Threads, ProcStep, Process, Search

(* A request that has changed a message will tell so. *)
LEMMA ChangeTells ==
  ASSUME NEW p \in Procs, NEW n \in Msgs, NEW to \in Places \cup {-1}, NEW b \in BOOLEAN,
         ChangeMessage(p, n, to, b), TypeOK
  PROVE  Later(n)'
<1>1. pc'[p] = "notify" /\ pending'[p].msg = n
  BY DEF ChangeMessage, TypeOK, Goto
<1> QED
  BY <1>1 DEF Later, Pend, Tells

(* What the process thread has read is right, or an event will say so. *)
LEMMA HitNext ==
  ASSUME NEW n \in Msgs,
         TypeOK, QueueInv, HitRight(n), [Next]_vars
  PROVE  HitRight(n)'
<1> USE DEF Goto, Continue, SearchGoto, NoFault, Mishap,
       msgVars, rowVars, objVars, searchVars, eventVars, procVars, boundVars
<1>l. ppc = "update" /\ ~Restart /\ Later(n) => Later(n)'
  BY LaterNext
<1>m. ~Restart => UNCHANGED match[n] \/ Later(n)'
  BY MessageChanges, ChangeTells
<1>r. Restart => ppc' = "top"
  BY DEF Restart
<1>1. ASSUME NEW p \in Procs, NEW f \in SFolders, NEW o \in {"set", "stop", "remove"},
             CancelSearchFolder(p, f, o)
      PROVE  HitRight(n)'
  BY <1>1, <1>l, <1>m, <1>r DEF CancelSearchFolder, AfterCancel, HitRight, GroupInTarget
<1>2. ASSUME NEW p \in Procs, NEW m \in Msgs, NEW to \in Places \cup {-1}, NEW b \in BOOLEAN,
             ChangeMessage(p, m, to, b)
      PROVE  HitRight(n)'
  BY <1>2, <1>l, <1>m, <1>r DEF ChangeMessage, HitRight, GroupInTarget
<1>3. ASSUME NEW p \in Procs, DestroySearchFolder(p) PROVE HitRight(n)'
  BY <1>3, <1>l, <1>m, <1>r DEF DestroySearchFolder, Delete, HitRight, GroupInTarget
<1>4. ASSUME NEW p \in Procs, SetStopped(p) PROVE HitRight(n)'
  BY <1>4, <1>l, <1>m, <1>r DEF SetStopped, AfterCancel, HitRight, GroupInTarget
<1>5. ASSUME NEW p \in Procs, SetRebuild(p) PROVE HitRight(n)'
  BY <1>5, <1>l, <1>m, <1>r DEF SetRebuild, HitRight, GroupInTarget
<1>6. ASSUME NEW p \in Procs, ResetResults(p) PROVE HitRight(n)'
  BY <1>6, <1>l, <1>m, <1>r DEF ResetResults, Clear, Concurrent, HitRight, GroupInTarget
<1>7. ASSUME NEW p \in Procs, InsertSearchFolder(p) PROVE HitRight(n)'
  BY <1>7, <1>l, <1>m, <1>r DEF InsertSearchFolder, NewSearchFolder, Concurrent, HitRight, GroupInTarget
<1>8. ASSUME NEW p \in Procs, SaveSearchCriteria(p) PROVE HitRight(n)'
  BY <1>8, <1>l, <1>m, <1>r DEF SaveSearchCriteria, HitRight, GroupInTarget
<1>9. ASSUME NEW p \in Procs, UpdateSearchFolders(p) PROVE HitRight(n)'
  BY <1>9, <1>l, <1>m, <1>r DEF UpdateSearchFolders, Queue, HitRight, GroupInTarget
<1>10. ASSUME NEW i \in Insts, SearchReset(i) PROVE HitRight(n)'
  BY <1>10, <1>l, <1>m, <1>r DEF SearchReset, Clear, HitRight, GroupInTarget
<1>11. ASSUME NEW i \in Insts, SearchSelect(i) PROVE HitRight(n)'
  BY <1>11, <1>l, <1>m, <1>r DEF SearchSelect, HitRight, GroupInTarget
<1>12. ASSUME NEW i \in Insts, ReadRows(i) PROVE HitRight(n)'
  BY <1>12, <1>l, <1>m, <1>r DEF ReadRows, ReadBatch, HitRight, GroupInTarget
<1>13. ASSUME NEW i \in Insts, AddResults(i) PROVE HitRight(n)'
  BY <1>13, <1>l, <1>m, <1>r DEF AddResults, HitRight, GroupInTarget
<1>14. ASSUME NEW i \in Insts, SearchDone(i) PROVE HitRight(n)'
  BY <1>14, <1>l, <1>m, <1>r DEF SearchDone, HitRight, GroupInTarget
<1>15. ASSUME NEW i \in Insts, SetRunning(i) PROVE HitRight(n)'
  BY <1>15, <1>l, <1>m, <1>r DEF SetRunning, HitRight, GroupInTarget
<1>16. ASSUME NEW i \in Insts, ThreadFree(i) PROVE HitRight(n)'
  BY <1>16, <1>l, <1>m, <1>r DEF ThreadFree, HitRight, GroupInTarget
<1>17. CASE ProcessTop
  BY <1>17, <1>l, <1>m, <1>r DEF ProcessTop, HitRight, GroupInTarget
<1>18. CASE FlushEvents
  BY <1>18, <1>l, <1>m, <1>r DEF FlushEvents, HitRight, GroupInTarget
<1>19. CASE NextGroup
  BY <1>19, <1>l, <1>m, <1>r DEF NextGroup, TakeGroup, HitRight, GroupInTarget
<1>20. CASE Update
  BY <1>20, <1>l, <1>m, <1>r DEF Update, HitRight, GroupInTarget
<1>21. CASE GroupDone
  BY <1>21, <1>l, <1>m, <1>r DEF GroupDone, HitRight, GroupInTarget
<1>22. ASSUME NEW f \in SFolders, LockFolder(f) PROVE HitRight(n)'
  BY <1>22 DEF LockFolder, HitRight, GroupInTarget
<1>23. ASSUME NEW f \in SFolders, GiveUp(f) PROVE HitRight(n)'
  BY <1>23, <1>l, <1>m, <1>r DEF GiveUp, HitRight, GroupInTarget
<1>24. CASE Restart
  BY <1>24 DEF Restart, HitRight
<1>25. CASE UNCHANGED vars
  BY <1>25, <1>l, <1>m, <1>r DEF vars, HitRight, GroupInTarget
<1> QED
  BY <1>1, <1>2, <1>3, <1>4, <1>5, <1>6, <1>7, <1>8, <1>9, <1>10, <1>11, <1>12,
     <1>13, <1>14, <1>15, <1>16, <1>17, <1>18, <1>19, <1>20, <1>21, <1>22, <1>23,
     <1>24, <1>25
     DEF Next, Threads, ProcStep, Process, Search

(* What is coming to a search folder arrives. *)
LEMMA ComingNext ==
  ASSUME NEW n \in Msgs, NEW g \in SFolders,
         TypeOK, QueueInv, Clean(n)', ~Restart, Coming(g, n), active[g] # None,
         ~(ppc = "update" /\ ppc' = "folder" /\ cur = g), [Next]_vars
  PROVE  Coming(g, n)'
<1> USE DEF Goto, Continue, SearchGoto, NoFault, Mishap,
       msgVars, rowVars, objVars, searchVars, eventVars, procVars, boundVars
<1>l. Later(n) => Coming(g, n)'
  BY LaterNext DEF Coming
<1>1. ASSUME NEW p \in Procs, NEW f \in SFolders, NEW o \in {"set", "stop", "remove"},
             CancelSearchFolder(p, f, o)
      PROVE  Coming(g, n)'
  BY <1>1, <1>l DEF CancelSearchFolder, AfterCancel, Coming, MapLocked
<1>2. ASSUME NEW p \in Procs, NEW m \in Msgs, NEW to \in Places \cup {-1}, NEW b \in BOOLEAN,
             ChangeMessage(p, m, to, b)
      PROVE  Coming(g, n)'
  BY <1>2, <1>l DEF ChangeMessage, Coming, MapLocked
<1>3. ASSUME NEW p \in Procs, DestroySearchFolder(p) PROVE Coming(g, n)'
  BY <1>3, <1>l DEF DestroySearchFolder, Delete, Coming, MapLocked
<1>4. ASSUME NEW p \in Procs, SetStopped(p) PROVE Coming(g, n)'
  BY <1>4, <1>l DEF SetStopped, AfterCancel, Coming, MapLocked
<1>5. ASSUME NEW p \in Procs, SetRebuild(p) PROVE Coming(g, n)'
  BY <1>5, <1>l DEF SetRebuild, Coming, MapLocked
<1>6. ASSUME NEW p \in Procs, ResetResults(p) PROVE Coming(g, n)'
  BY <1>6, <1>l DEF ResetResults, Clear, Concurrent, Coming, MapLocked
<1>7. ASSUME NEW p \in Procs, InsertSearchFolder(p) PROVE Coming(g, n)'
  BY <1>7, <1>l DEF InsertSearchFolder, NewSearchFolder, Concurrent, Coming, MapLocked
<1>8. ASSUME NEW p \in Procs, SaveSearchCriteria(p) PROVE Coming(g, n)'
  BY <1>8, <1>l DEF SaveSearchCriteria, Coming, MapLocked
<1>9. ASSUME NEW p \in Procs, UpdateSearchFolders(p) PROVE Coming(g, n)'
  BY <1>9, <1>l DEF UpdateSearchFolders, Queue, Coming, MapLocked
<1>10. ASSUME NEW i \in Insts, SearchReset(i) PROVE Coming(g, n)'
  BY <1>10, <1>l DEF SearchReset, Clear, Coming, MapLocked
<1>11. ASSUME NEW i \in Insts, SearchSelect(i) PROVE Coming(g, n)'
  BY <1>11, <1>l DEF SearchSelect, Coming, MapLocked
<1>12. ASSUME NEW i \in Insts, ReadRows(i) PROVE Coming(g, n)'
  BY <1>12, <1>l DEF ReadRows, ReadBatch, Coming, MapLocked
<1>13. ASSUME NEW i \in Insts, AddResults(i) PROVE Coming(g, n)'
  BY <1>13, <1>l DEF AddResults, Coming, MapLocked
<1>14. ASSUME NEW i \in Insts, SearchDone(i) PROVE Coming(g, n)'
  BY <1>14, <1>l DEF SearchDone, Coming, MapLocked
<1>15. ASSUME NEW i \in Insts, SetRunning(i) PROVE Coming(g, n)'
  BY <1>15, <1>l DEF SetRunning, Coming, MapLocked
<1>16. ASSUME NEW i \in Insts, ThreadFree(i) PROVE Coming(g, n)'
  BY <1>16, <1>l DEF ThreadFree, Coming, MapLocked
<1>17. CASE ProcessTop
  BY <1>17, <1>l DEF ProcessTop, Coming, MapLocked
<1>18. CASE FlushEvents
  BY <1>18, <1>l DEF FlushEvents, Coming, MapLocked
<1>19. CASE NextGroup
  BY <1>19, <1>l DEF NextGroup, Coming, QueueInv, NoGroup
<1>20. CASE Update
  BY <1>20, <1>l DEF Update, Coming, MapLocked
<1>21. CASE GroupDone
  BY <1>21, <1>l DEF GroupDone, Coming, MapLocked
<1>22. ASSUME NEW f \in SFolders, LockFolder(f) PROVE Coming(g, n)'
  BY <1>22, <1>l DEF LockFolder, Coming, MapLocked
<1>23. ASSUME NEW f \in SFolders, GiveUp(f) PROVE Coming(g, n)'
  <2>1. f = g => n \notin group.msgs
    <3>1. <<"giveup", n>> \notin spoiled'
      BY DEF Clean, Reasons
    <3> QED
      BY <1>23, <3>1 DEF GiveUp
  <2> QED
    BY <1>23, <2>1, <1>l DEF GiveUp, Coming
<1>24. CASE Restart
  BY <1>24
<1>25. CASE UNCHANGED vars
  BY <1>25, <1>l DEF vars, Coming, MapLocked
<1> QED
  BY <1>1, <1>2, <1>3, <1>4, <1>5, <1>6, <1>7, <1>8, <1>9, <1>10, <1>11, <1>12,
     <1>13, <1>14, <1>15, <1>16, <1>17, <1>18, <1>19, <1>20, <1>21, <1>22, <1>23,
     <1>24, <1>25
     DEF Next, Threads, ProcStep, Process, Search

(* What is exact stays so when nothing changes. *)
LEMMA ExactSame ==
  ASSUME NEW n \in Msgs, NEW g \in SFolders, Exact(g, n), Complete,
         UNCHANGED <<place[n], match[n]>> \/ Coming(g, n)',
         Coming(g, n) /\ active[g] # None => Coming(g, n)',
         results'[g] = results[g], active'[g] = active[g], g \in current' => g \in current,
         active[g] # None => /\ spc'[active[g]] = spc[active[g]]
                             /\ found'[active[g]] = found[active[g]]
                             /\ todo'[active[g]] = todo[active[g]]
  PROVE  Exact(g, n)'
<1>1. Phase(g)' = Phase(g) /\ Found(g)' = Found(g) /\ Todo(g)' = Todo(g)
  BY DEF Phase, Found, Todo
<1>2. (Progress(g) => active[g] # None) /\ (Phase(g) = "select" => active[g] # None)
      /\ (n \in Found(g) \cup Todo(g) => active[g] # None)
  BY DEF Progress, Phase, Found, Todo, Complete
<1>3. Progress(g)' => Progress(g)
  BY <1>1 DEF Progress
<1>4. CASE Coming(g, n)'
  BY <1>4 DEF Exact
<1>5. CASE UNCHANGED <<place[n], match[n]>> /\ ~Coming(g, n)'
  <2>1. (InTarget(n)' <=> InTarget(n)) /\ (Matches(n)' <=> Matches(n))
    BY <1>5 DEF Matches, InTarget
  <2> QED
    BY <1>1, <1>2, <1>3, <1>5, <2>1 DEF Exact
<1> QED
  BY <1>4, <1>5

(* Without a search, and out of the map, nothing is claimed. *)
LEMMA ExactWithout ==
  ASSUME NEW n \in Msgs, NEW g \in SFolders,
         ~Progress(g)', Phase(g)' # "select", Found(g)' = {}, Todo(g)' = {}
  PROVE  Exact(g, n)'
  BY DEF Exact

(* After a restart what was complete, and not spoiled, is as it was. *)
LEMMA ExactRestart ==
  ASSUME NEW n \in Msgs, NEW g \in SFolders, TypeOK, ObjInv, RowInv, Complete,
         Exact(g, n), Clean(n)', Restart
  PROVE  Exact(g, n)'
<1>1. /\ UNCHANGED <<place, match>> /\ todo' = [i \in Insts |-> {}] /\ found' = [i \in Insts |-> {}]
  BY DEF Restart, msgVars
<1>2. /\ active'[g] \in Insts \cup {None}
      /\ IF g \in Load THEN active'[g] \in Insts /\ folder'[active'[g]] = g ELSE active'[g] = None
      /\ \A i \in Insts : spc'[i] = IF folder'[i] = None THEN "none"
                                    ELSE IF folder'[i] \in Rebuild THEN "reset" ELSE "finished"
      /\ results'[g] = IF g \in Rebuild THEN {} ELSE results[g]
      /\ current' = current \cap (Load \ Rebuild)
      /\ spoiled' = spoiled \cup {"restart"} \X Unprocessed \cup {"crash"} \X Unreported \cup
           (IF Load \ Rebuild \subseteq current THEN {} ELSE {"halfbuilt"} \X Msgs)
  BY RestartEffect
<1>3. Found(g)' = {} /\ Todo(g)' = {}
  BY <1>1, <1>2 DEF Found, Todo
<1>4. Phase(g)' \in {"none", "reset", "finished"}
  BY <1>2 DEF Phase
<1>5. CASE g \in current'
  <2>1. n \notin Unprocessed /\ n \notin Unreported
    BY <1>2 DEF Clean, Reasons
  <2>2. ~Coming(g, n)
    <3>1. ~Has(events, n) /\ ~Has(batch, n) /\ n \notin group.msgs
      BY <2>1 DEF Unprocessed, Has
    <3>2. ~Pend(n)
      BY <2>1 DEF Unreported, Pend, Tells
    <3> QED
      BY <3>1, <3>2 DEF Coming, Later
  <2>3. g \in current /\ results'[g] = results[g]
    BY <1>2, <1>5
  <2>4. Found(g) = {} /\ Todo(g) = {}
    <3>1. active[g] \in Insts /\ spc[active[g]] \in {"status", "complete", "finished"}
      BY <2>3 DEF Complete, Phase, TypeOK
    <3> QED
      BY <3>1 DEF Found, Todo, RowInv
  <2>5. Matches(n)' <=> Matches(n)
    BY <1>1 DEF Matches, InTarget
  <2> QED
    BY <1>3, <2>2, <2>3, <2>4, <2>5 DEF Exact, Progress
<1>6. CASE g \notin current'
  <2>1. ~Progress(g)'
    BY <1>4, <1>6 DEF Progress
  <2> QED
    BY <1>3, <1>4, <2>1, ExactWithout
<1> QED
  BY <1>5, <1>6

(* While the server runs, searches and the process thread together keep the results exact. *)
LEMMA ExactRuns ==
  ASSUME NEW n \in Msgs, NEW g \in SFolders,
         TypeOK, ProcInv, ObjInv, Sole, RowInv, QueueInv, Complete,
         Reported(n), HitRight(n), Exact(g, n), Clean(n)', ~Restart, [Next]_vars
  PROVE  Exact(g, n)'
<1> USE DEF Goto, Continue, SearchGoto, NoFault, Mishap,
       msgVars, rowVars, objVars, searchVars, eventVars, procVars, boundVars
<1>t. /\ active \in [SFolders -> Insts \cup {None}] /\ folder \in [Insts -> SFolders \cup {None}]
      /\ spc \in [Insts -> SearchPc] /\ results \in [SFolders -> SUBSET Msgs]
      /\ todo \in [Insts -> SUBSET Msgs] /\ found \in [Insts -> SUBSET Msgs]
      /\ current \subseteq SFolders /\ None \notin Insts /\ None \notin SFolders
      /\ rowLock \in [SFolders -> Insts \cup {"process", None}] /\ hits \subseteq Msgs
      /\ threadExit \subseteq Insts /\ ppc \in ProcessPc
  BY SearchFoldersAssumption DEF TypeOK
<1>o. active[g] # None => active[g] \in Insts /\ folder[active[g]] = g /\ active[g] \notin threadExit
  BY <1>t DEF ObjInv
<1>s. \A i \in Insts : folder[i] = g => active[g] = i \/ active[g] = None
  BY DEF Sole
<1>m. UNCHANGED <<place[n], match[n]>> \/ Coming(g, n)'
  BY MessageChanges, ChangeTells DEF Coming
<1>c. /\ Coming(g, n) /\ active[g] # None /\ ~(ppc = "update" /\ ppc' = "folder" /\ cur = g)
      => Coming(g, n)'
  BY ComingNext
<1>k. ASSUME results'[g] = results[g], active'[g] = active[g], g \in current' => g \in current,
             active[g] # None => /\ spc'[active[g]] = spc[active[g]]
                                 /\ found'[active[g]] = found[active[g]]
                                 /\ todo'[active[g]] = todo[active[g]],
             ~(ppc = "update" /\ ppc' = "folder" /\ cur = g)
      PROVE  Exact(g, n)'
  BY <1>c, <1>m, <1>k, ExactSame
<1>w. g \notin current' /\ active'[g] = None => Exact(g, n)'
  BY ExactWithout DEF Progress, Phase, Found, Todo
<1>n. active[g] = None => g \notin current
  BY DEF Complete, Phase
<1>d. Coming(g, n)' => Exact(g, n)'
  BY DEF Exact
<1>e. UNCHANGED <<place[n], match[n]>> => (InTarget(n)' <=> InTarget(n)) /\ (Matches(n)' <=> Matches(n))
  BY DEF Matches, InTarget
<1>x. \A i \in Insts : folder[i] = g /\ active[g] # i => i \in threadExit
  BY <1>t DEF Sole
<1>1. ASSUME NEW p \in Procs, NEW f \in SFolders, NEW o \in {"set", "stop", "remove"},
             CancelSearchFolder(p, f, o)
      PROVE  Exact(g, n)'
  <2>1. active' = [active EXCEPT ![f] = None] /\ current' = current \ {f}
        /\ UNCHANGED <<results, spc, found, todo, ppc>>
    BY <1>1 DEF CancelSearchFolder
  <2>2. CASE f = g
    BY <2>1, <2>2, <1>t, <1>w
  <2>3. CASE f # g
    BY <2>1, <2>3, <1>t, <1>k
  <2> QED
    BY <2>2, <2>3
<1>2. ASSUME NEW p \in Procs, NEW m \in Msgs, NEW to \in Places \cup {-1}, NEW b \in BOOLEAN,
             ChangeMessage(p, m, to, b)
      PROVE  Exact(g, n)'
  BY <1>2, <1>k DEF ChangeMessage
<1>3. ASSUME NEW p \in Procs, DestroySearchFolder(p) PROVE Exact(g, n)'
  <2>1. inst[p] \in Insts /\ inst[p] \in threadExit
    BY <1>3 DEF DestroySearchFolder, ProcInv
  <2>2. UNCHANGED <<results, active, found, todo, ppc, current>>
        /\ \A i \in Insts : i # inst[p] => spc'[i] = spc[i]
    BY <1>3, <1>t DEF DestroySearchFolder, Delete
  <2> QED
    BY <2>1, <2>2, <1>o, <1>k
<1>4. ASSUME NEW p \in Procs, SetStopped(p) PROVE Exact(g, n)'
  BY <1>4, <1>k DEF SetStopped, AfterCancel
<1>5. ASSUME NEW p \in Procs, SetRebuild(p) PROVE Exact(g, n)'
  BY <1>5, <1>k DEF SetRebuild
<1>6. ASSUME NEW p \in Procs, ResetResults(p) PROVE Exact(g, n)'
  <2>1. CASE UNCHANGED <<results, current>>
    BY <1>6, <2>1, <1>k DEF ResetResults
  <2>2. CASE Clear(arg[p]) /\ Concurrent(active[arg[p]] # None)
    <3>1. active[arg[p]] = None
      BY <2>2, NotConcurrent
    <3>2. UNCHANGED <<active, spc, found, todo, ppc>> /\ current' = current \ {arg[p]}
          /\ (arg[p] # g => results'[g] = results[g])
      BY <1>6, <2>2, <1>t DEF ResetResults, Clear
    <3>3. CASE arg[p] = g
      BY <3>1, <3>2, <3>3, <1>w
    <3>4. CASE arg[p] # g
      BY <3>2, <3>4, <1>k
    <3> QED
      BY <3>3, <3>4
  <2> QED
    BY <1>6, <2>1, <2>2 DEF ResetResults
<1>7. ASSUME NEW p \in Procs, InsertSearchFolder(p) PROVE Exact(g, n)'
  <2>1. PICK j \in Insts : Inserts(p, j)
    BY <1>7, InsertEffect
  <2>2. arg[p] \in SFolders
    BY <2>1 DEF Inserts, ProcInv
  <2>3. Objects(arg[p]) = {}
    BY <2>1, NotConcurrent DEF Inserts
  <2>4. active[arg[p]] = None
    BY <2>2, <2>3, <1>t DEF Objects, ObjInv
  <2>5. /\ \A f \in SFolders : f # arg[p] => active'[f] = active[f]
        /\ active'[arg[p]] = j /\ spc'[j] = "reset" /\ folder[j] = None
        /\ \A i \in Insts : i # j => spc'[i] = spc[i]
        /\ UNCHANGED <<results, found, todo, ppc, current>>
    BY <2>1, <2>2, <2>4, <1>t DEF Inserts, NewSearchFolder
  <2>6. CASE arg[p] = g
    <3>1. found[j] = {} /\ todo[j] = {}
      BY <2>5 DEF ObjInv, RowInv
    <3>2. Phase(g)' = "reset" /\ Found(g)' = {} /\ Todo(g)' = {}
      BY <2>5, <2>6, <3>1, <1>t DEF Phase, Found, Todo
    <3>3. g \notin current'
      BY <2>4, <2>5, <2>6, <1>n
    <3> QED
      BY <3>2, <3>3, ExactWithout DEF Progress
  <2>7. CASE arg[p] # g
    BY <2>5, <2>7, <1>o, <1>t, <1>k
  <2> QED
    BY <2>6, <2>7
<1>8. ASSUME NEW p \in Procs, SaveSearchCriteria(p) PROVE Exact(g, n)'
  BY <1>8, <1>k DEF SaveSearchCriteria
<1>9. ASSUME NEW p \in Procs, UpdateSearchFolders(p) PROVE Exact(g, n)'
  <2>1. UNCHANGED <<results, active, spc, found, todo, current>> /\ (ppc = "update" => ppc' = "update")
    BY <1>9 DEF UpdateSearchFolders, Queue
  <2> QED
    BY <2>1, <1>k
<1>10. ASSUME NEW i \in Insts, SearchReset(i) PROVE Exact(g, n)'
  <2>1. folder[i] \in SFolders
    BY <1>10, <1>t DEF SearchReset, ObjInv
  <2>2. /\ UNCHANGED <<active, ppc>>
        /\ \A j \in Insts : j # i => spc'[j] = spc[j] /\ found'[j] = found[j] /\ todo'[j] = todo[j]
        /\ \A f \in SFolders : f # folder[i] => results'[f] = results[f]
        /\ \A f : f # folder[i] => (f \in current' <=> f \in current)
        /\ spc[i] = "reset" /\ UNCHANGED <<found, todo>>
        /\ current' \subseteq current
        /\ \/ spc'[i] = "select" /\ results'[folder[i]] = {} /\ folder[i] \notin current'
           \/ spc'[i] = "complete" /\ UNCHANGED <<results, current>>
    BY <1>10, <1>t, <2>1 DEF SearchReset, Clear
  <2>3. CASE folder[i] # g
    BY <2>1, <2>2, <2>3, <1>t, <1>o, <1>k
  <2>4. CASE folder[i] = g /\ active[g] # i
    <3>1. active[g] = None
      BY <2>4, <1>s
    <3> QED
      BY <2>2, <2>4, <3>1, <1>n, <1>w
  <2>5. CASE active[g] = i
    <3>1. g \notin current
      BY <2>2, <2>5, <1>t DEF Complete, Phase
    <3>2. found[i] = {} /\ todo[i] = {}
      BY <2>2 DEF RowInv
    <3>3. ~Progress(g)' /\ Found(g)' = {} /\ Todo(g)' = {} /\ (Phase(g)' = "select" => results'[g] = {})
      BY <2>2, <2>5, <3>1, <3>2, <1>o, <1>t DEF Progress, Phase, Found, Todo
    <3> QED
      BY <3>3 DEF Exact
  <2> QED
    BY <2>3, <2>4, <2>5
<1>11. ASSUME NEW i \in Insts, SearchSelect(i) PROVE Exact(g, n)'
  <2>1. folder[i] \in SFolders
    BY <1>11, <1>t DEF SearchSelect, ObjInv
  <2>2. /\ UNCHANGED <<active, ppc>>
        /\ \A j \in Insts : j # i => spc'[j] = spc[j] /\ found'[j] = found[j] /\ todo'[j] = todo[j]
        /\ UNCHANGED <<results, current>>
        /\ spc[i] = "select" /\ spc'[i] = "batch" /\ UNCHANGED found
        /\ todo'[i] = {m \in Msgs : InTarget(m)}
    BY <1>11, <1>t, <2>1 DEF SearchSelect
  <2>3. CASE folder[i] # g
    BY <2>1, <2>2, <2>3, <1>t, <1>o, <1>k
  <2>4. CASE folder[i] = g /\ active[g] # i
    <3>1. active[g] = None
      BY <2>4, <1>s
    <3> QED
      BY <2>2, <2>4, <3>1, <1>n, <1>w
  <2>5. CASE active[g] = i
    <3>1. UNCHANGED ppc /\ active'[g] = i /\ folder[i] = g /\ i # None
      BY <2>2, <2>5, <1>t, <1>o
    <3>2. Coming(g, n) => Coming(g, n)'
      BY <2>5, <3>1, <1>c
    <3>3. ASSUME ~Coming(g, n)' PROVE Exact(g, n)'
      <4>1. /\ ~Coming(g, n) /\ UNCHANGED <<place[n], match[n]>>
            /\ (InTarget(n)' <=> InTarget(n)) /\ (Matches(n)' <=> Matches(n))
        BY <3>2, <3>3, <1>m, <1>e
      <4>2. Found(g)' = Found(g) /\ (n \in Todo(g)' <=> InTarget(n)) /\ Phase(g) = "select"
        BY <2>2, <2>5, <1>t DEF Found, Todo, Phase
      <4>3. InTarget(n) \/ ~Matches(n)
        BY DEF Matches
      <4> QED
        BY <2>2, <4>1, <4>2, <4>3 DEF Exact
    <3> QED
      BY <3>3, <1>d
  <2> QED
    BY <2>3, <2>4, <2>5
<1>12. ASSUME NEW i \in Insts, ReadRows(i) PROVE Exact(g, n)'
  <2>1. folder[i] \in SFolders
    BY <1>12, <1>t DEF ReadRows, ObjInv
  <2>2. /\ UNCHANGED <<active, ppc>>
        /\ \A j \in Insts : j # i => spc'[j] = spc[j] /\ found'[j] = found[j] /\ todo'[j] = todo[j]
        /\ UNCHANGED <<results, current>>
        /\ spc[i] = "batch" /\ i \notin threadExit
        /\ \/ spc'[i] = "complete" /\ todo'[i] = {} /\ UNCHANGED found
           \/ /\ spc'[i] = "commit"
              /\ \E b \in SUBSET todo[i] : /\ todo'[i] = todo[i] \ b /\ found'[i] \in Matching(i, b)
    BY <1>12, <1>t, <2>1 DEF ReadRows, ReadBatch
  <2>3. CASE folder[i] # g
    BY <2>1, <2>2, <2>3, <1>t, <1>o, <1>k
  <2>4. CASE folder[i] = g /\ active[g] # i
    <3>1. active[g] = None
      BY <2>4, <1>s
    <3> QED
      BY <2>2, <2>4, <3>1, <1>n, <1>w
  <2>5. CASE active[g] = i
    <3>1. UNCHANGED ppc /\ active'[g] = i /\ folder[i] = g /\ i # None
      BY <2>2, <2>5, <1>t, <1>o
    <3>2. Coming(g, n) => Coming(g, n)'
      BY <2>5, <3>1, <1>c
    <3>3. ASSUME ~Coming(g, n)' PROVE Exact(g, n)'
      <4>1. /\ ~Coming(g, n) /\ UNCHANGED <<place[n], match[n]>>
            /\ (InTarget(n)' <=> InTarget(n)) /\ (Matches(n)' <=> Matches(n))
        BY <3>2, <3>3, <1>m, <1>e
      <4>2. found[i] = {} /\ g \notin current /\ Progress(g)
        <5>1. Phase(g) = "batch"
          BY <2>2, <2>5, <3>1 DEF Phase
        <5> QED
          BY <2>2, <5>1 DEF RowInv, Complete, Progress
      <4>3. CASE spc'[i] = "complete" /\ todo'[i] = {} /\ UNCHANGED found
        <5>1. ~Progress(g)' /\ Found(g)' = {} /\ Todo(g)' = {} /\ Phase(g)' # "select"
          BY <2>2, <3>1, <4>2, <4>3 DEF Progress, Phase, Found, Todo
        <5> QED
          BY <5>1, ExactWithout
      <4>4. ASSUME NEW b \in SUBSET todo[i], todo'[i] = todo[i] \ b, found'[i] \in Matching(i, b)
            PROVE  Exact(g, n)'
        <5>1. Found(g) = {} /\ Found(g)' = found'[i] /\ Todo(g) = todo[i] /\ Todo(g)' = todo'[i]
          BY <2>5, <3>1, <4>2 DEF Found, Todo
        <5>2. n \in found'[i] => n \in b /\ match[n]
          BY <4>4 DEF Matching
        <5>3. n \in b /\ Matches(n) => n \in found'[i]
          BY <2>2, <4>4 DEF Matching, Matches
        <5>4. n \in Todo(g) => InTarget(n)
          BY <4>1 DEF Exact
        <5>5. n \in found'[i] => Matches(n)
          BY <5>1, <5>2, <5>4 DEF Matches
        <5> QED
          BY <2>2, <4>1, <4>2, <4>4, <5>1, <5>3, <5>4, <5>5 DEF Exact
      <4> QED
        BY <2>2, <4>3, <4>4
    <3> QED
      BY <3>3, <1>d
  <2> QED
    BY <2>3, <2>4, <2>5
<1>13. ASSUME NEW i \in Insts, AddResults(i) PROVE Exact(g, n)'
  <2>1. folder[i] \in SFolders
    BY <1>13, <1>t DEF AddResults, ObjInv
  <2>2. /\ UNCHANGED <<active, ppc>>
        /\ \A j \in Insts : j # i => spc'[j] = spc[j] /\ found'[j] = found[j] /\ todo'[j] = todo[j]
        /\ \A f \in SFolders : f # folder[i] => results'[f] = results[f]
        /\ UNCHANGED <<todo, current>>
        /\ spc[i] = "commit" /\ spc'[i] = "batch" /\ found'[i] = {}
        /\ results'[folder[i]] = results[folder[i]] \cup found[i]
    BY <1>13, <1>t, <2>1 DEF AddResults
  <2>3. CASE folder[i] # g
    BY <2>1, <2>2, <2>3, <1>t, <1>o, <1>k
  <2>4. CASE folder[i] = g /\ active[g] # i
    <3>1. active[g] = None
      BY <2>4, <1>s
    <3> QED
      BY <2>2, <2>4, <3>1, <1>n, <1>w
  <2>5. CASE active[g] = i
    <3>1. UNCHANGED ppc /\ active'[g] = i /\ folder[i] = g /\ i # None
      BY <2>2, <2>5, <1>t, <1>o
    <3>2. Coming(g, n) => Coming(g, n)'
      BY <2>5, <3>1, <1>c
    <3>3. ASSUME ~Coming(g, n)' PROVE Exact(g, n)'
      <4>1. /\ ~Coming(g, n) /\ UNCHANGED <<place[n], match[n]>>
            /\ (InTarget(n)' <=> InTarget(n)) /\ (Matches(n)' <=> Matches(n))
        BY <3>2, <3>3, <1>m, <1>e
      <4>2. /\ Found(g) = found[i] /\ Found(g)' = {} /\ Todo(g)' = Todo(g) /\ Progress(g)
            /\ results'[g] = results[g] \cup found[i]
        BY <2>2, <2>5, <3>1 DEF Found, Todo, Progress, Phase
      <4> QED
        BY <4>1, <4>2 DEF Exact
    <3> QED
      BY <3>3, <1>d
  <2> QED
    BY <2>3, <2>4, <2>5
<1>14. ASSUME NEW i \in Insts, SearchDone(i) PROVE Exact(g, n)'
  <2>1. folder[i] \in SFolders
    BY <1>14, <1>t DEF SearchDone, ObjInv
  <2>2. /\ UNCHANGED <<active, ppc>>
        /\ \A j \in Insts : j # i => spc'[j] = spc[j] /\ found'[j] = found[j] /\ todo'[j] = todo[j]
        /\ UNCHANGED <<results, found>>
        /\ \A f : f # folder[i] => (f \in current' <=> f \in current)
        /\ spc[i] = "batch" /\ spc'[i] = "status" /\ todo'[i] = {}
        /\ IF i \in threadExit THEN current' = current ELSE todo[i] = {}
    BY <1>14, <1>t, <2>1 DEF SearchDone
  <2>3. CASE folder[i] # g
    BY <2>1, <2>2, <2>3, <1>t, <1>o, <1>k
  <2>4. CASE folder[i] = g /\ active[g] # i
    <3>1. active[g] = None
      BY <2>4, <1>s
    <3> QED
      BY <2>2, <2>4, <3>1, <1>n, <1>w, <1>x
  <2>5. CASE active[g] = i
    <3>1. UNCHANGED ppc /\ active'[g] = i /\ folder[i] = g /\ i # None
      BY <2>2, <2>5, <1>t, <1>o
    <3>2. Coming(g, n) => Coming(g, n)'
      BY <2>5, <3>1, <1>c
    <3>3. ASSUME ~Coming(g, n)' PROVE Exact(g, n)'
      <4>1. /\ ~Coming(g, n) /\ UNCHANGED <<place[n], match[n]>>
            /\ (InTarget(n)' <=> InTarget(n)) /\ (Matches(n)' <=> Matches(n))
        BY <3>2, <3>3, <1>m, <1>e
      <4>2. Found(g)' = Found(g) /\ Todo(g) = {} /\ Todo(g)' = {} /\ Progress(g) /\ Phase(g)' = "status"
        BY <2>2, <2>5, <3>1, <1>o DEF Found, Todo, Progress, Phase
      <4> QED
        BY <2>2, <4>1, <4>2 DEF Exact
    <3> QED
      BY <3>3, <1>d
  <2> QED
    BY <2>3, <2>4, <2>5
<1>15. ASSUME NEW i \in Insts, SetRunning(i) PROVE Exact(g, n)'
  <2>1. folder[i] \in SFolders
    BY <1>15, <1>t DEF SetRunning, ObjInv
  <2>2. /\ UNCHANGED <<active, ppc>>
        /\ \A j \in Insts : j # i => spc'[j] = spc[j] /\ found'[j] = found[j] /\ todo'[j] = todo[j]
        /\ UNCHANGED <<results, found, todo, current>>
        /\ spc[i] = "status" /\ spc'[i] = "complete"
    BY <1>15, <1>t, <2>1 DEF SetRunning
  <2>3. CASE folder[i] # g
    BY <2>1, <2>2, <2>3, <1>t, <1>o, <1>k
  <2>4. CASE folder[i] = g /\ active[g] # i
    <3>1. active[g] = None
      BY <2>4, <1>s
    <3> QED
      BY <2>2, <2>4, <3>1, <1>n, <1>w
  <2>5. CASE active[g] = i
    <3>1. UNCHANGED ppc /\ active'[g] = i /\ folder[i] = g /\ i # None
      BY <2>2, <2>5, <1>t, <1>o
    <3>2. Coming(g, n) => Coming(g, n)'
      BY <2>5, <3>1, <1>c
    <3>3. ASSUME ~Coming(g, n)' PROVE Exact(g, n)'
      <4>1. /\ ~Coming(g, n) /\ UNCHANGED <<place[n], match[n]>>
            /\ (InTarget(n)' <=> InTarget(n)) /\ (Matches(n)' <=> Matches(n))
        BY <3>2, <3>3, <1>m, <1>e
      <4>2. /\ Found(g)' = Found(g) /\ Todo(g)' = Todo(g)
            /\ Phase(g)' = spc'[i] /\ (Progress(g)' => Progress(g))
        BY <2>2, <2>5, <3>1 DEF Found, Todo, Progress, Phase
      <4> QED
        BY <2>2, <4>1, <4>2 DEF Exact
    <3> QED
      BY <3>3, <1>d
  <2> QED
    BY <2>3, <2>4, <2>5
<1>16. ASSUME NEW i \in Insts, ThreadFree(i) PROVE Exact(g, n)'
  <2>1. folder[i] \in SFolders
    BY <1>16, <1>t DEF ThreadFree, ObjInv
  <2>2. /\ UNCHANGED <<active, ppc>>
        /\ \A j \in Insts : j # i => spc'[j] = spc[j] /\ found'[j] = found[j] /\ todo'[j] = todo[j]
        /\ UNCHANGED <<results, found, todo, current>>
        /\ spc[i] = "complete" /\ spc'[i] = "finished"
    BY <1>16, <1>t, <2>1 DEF ThreadFree
  <2>3. CASE folder[i] # g
    BY <2>1, <2>2, <2>3, <1>t, <1>o, <1>k
  <2>4. CASE folder[i] = g /\ active[g] # i
    <3>1. active[g] = None
      BY <2>4, <1>s
    <3> QED
      BY <2>2, <2>4, <3>1, <1>n, <1>w
  <2>5. CASE active[g] = i
    <3>1. UNCHANGED ppc /\ active'[g] = i /\ folder[i] = g /\ i # None
      BY <2>2, <2>5, <1>t, <1>o
    <3>2. Coming(g, n) => Coming(g, n)'
      BY <2>5, <3>1, <1>c
    <3>3. ASSUME ~Coming(g, n)' PROVE Exact(g, n)'
      <4>1. /\ ~Coming(g, n) /\ UNCHANGED <<place[n], match[n]>>
            /\ (InTarget(n)' <=> InTarget(n)) /\ (Matches(n)' <=> Matches(n))
        BY <3>2, <3>3, <1>m, <1>e
      <4>2. /\ Found(g)' = Found(g) /\ Todo(g)' = Todo(g)
            /\ Phase(g)' = spc'[i] /\ (Progress(g)' => Progress(g))
        BY <2>2, <2>5, <3>1 DEF Found, Todo, Progress, Phase
      <4> QED
        BY <2>2, <4>1, <4>2 DEF Exact
    <3> QED
      BY <3>3, <1>d
  <2> QED
    BY <2>3, <2>4, <2>5
<1>17. CASE ProcessTop
  BY <1>17, <1>k DEF ProcessTop
<1>18. CASE FlushEvents
  BY <1>18, <1>k DEF FlushEvents
<1>19. CASE NextGroup
  BY <1>19, <1>k DEF NextGroup, TakeGroup
<1>20. CASE Update
  <2>1. /\ ppc = "update" /\ UNCHANGED <<active, spc, found, todo, current, group, place, match>>
        /\ results' = [results EXCEPT ![cur] =
              IF group.type = "ADD" /\ GroupInTarget THEN @ \cup hits ELSE (@ \ group.msgs) \cup hits]
        /\ spoiled' = spoiled \cup {"stray"} \X
              {m \in group.msgs : ~InTarget(m) /\ \E i \in Objects(cur) : m \in todo[i]}
    BY <1>20 DEF Update
  <2>2. CASE cur # g
    <3>1. results'[g] = results[g]
      BY <2>1, <2>2, <1>t
    <3> QED
      BY <2>1, <2>2, <3>1, <1>k
  <2>3. CASE cur = g
    <3>1. active[g] # None /\ rowLock[g] = "process"
      BY <2>1, <2>3 DEF QueueInv, RowInv
    <3>2. found[active[g]] = {}
      <4>1. spc[active[g]] # "commit"
        BY <3>1, <1>o, SearchFoldersAssumption DEF RowInv
      <4> QED
        BY <4>1, <3>1, <1>o DEF RowInv
    <3>3. /\ Found(g) = {} /\ Found(g)' = {} /\ Todo(g) = todo[active[g]] /\ Todo(g)' = todo[active[g]]
          /\ (Progress(g)' <=> Progress(g)) /\ Phase(g)' = Phase(g)
      BY <2>1, <3>1, <3>2 DEF Found, Todo, Progress, Phase
    <3>4. (InTarget(n)' <=> InTarget(n)) /\ (Matches(n)' <=> Matches(n))
      BY <2>1 DEF Matches, InTarget
    <3>5. CASE Later(n)
      <4>1. Later(n)'
        BY <1>20, <3>5 DEF Update, Later, Pend, Tells, Has
      <4> QED
        BY <4>1, <1>d DEF Coming
    <3>6. CASE ~Later(n) /\ n \notin group.msgs
      <4>1. n \in results'[g] <=> n \in results[g]
        BY <2>1, <2>3, <3>6, <1>t DEF QueueInv
      <4> QED
        BY <3>3, <3>4, <3>6, <4>1 DEF Exact, Coming
    <3>7. CASE ~Later(n) /\ n \in group.msgs
      <4>1. Says(n, group) /\ (n \in hits <=> GroupInTarget /\ match[n])
        BY <2>1, <3>7 DEF Reported, HitRight
      <4>2. InTarget(n) <=> GroupInTarget
        BY <4>1, SearchFoldersAssumption DEF Says, InTarget, GroupInTarget
      <4>3. n \in hits <=> Matches(n)
        BY <4>1, <4>2 DEF Matches
      <4>4. group.type = "ADD" /\ n \in results[g] => Matches(n)
        BY <4>1 DEF Says, Untouched, RowsRight
      <4>5. n \in results'[g] <=> Matches(n)
        BY <2>1, <2>3, <3>7, <4>3, <4>4, <1>t
      <4>6. n \in todo[active[g]] => InTarget(n)
        <5>1. active[g] \in Objects(g)
          BY <3>1, <1>o DEF Objects
        <5>2. <<"stray", n>> \notin spoiled'
          BY DEF Clean, Reasons
        <5> QED
          BY <2>1, <2>3, <3>7, <5>1, <5>2
      <4> QED
        BY <3>3, <3>4, <4>5, <4>6 DEF Exact
    <3> QED
      BY <3>5, <3>6, <3>7
  <2> QED
    BY <2>2, <2>3
<1>21. CASE GroupDone
  BY <1>21, <1>k DEF GroupDone
<1>22. ASSUME NEW f \in SFolders, LockFolder(f) PROVE Exact(g, n)'
  BY <1>22, <1>k DEF LockFolder
<1>23. ASSUME NEW f \in SFolders, GiveUp(f) PROVE Exact(g, n)'
  BY <1>23, <1>k DEF GiveUp
<1>24. CASE Restart
  BY <1>24
<1>25. CASE UNCHANGED vars
  BY <1>25, <1>k DEF vars
<1> QED
  BY <1>1, <1>2, <1>3, <1>4, <1>5, <1>6, <1>7, <1>8, <1>9, <1>10, <1>11, <1>12,
     <1>13, <1>14, <1>15, <1>16, <1>17, <1>18, <1>19, <1>20, <1>21, <1>22, <1>23,
     <1>24, <1>25
     DEF Next, Threads, ProcStep, Process, Search

-----------------------------------------------------------------------------
(* The invariant and the theorems. *)

Inv ==
  /\ TypeOK /\ ProcInv /\ ObjInv /\ RowInv /\ QueueInv /\ SoleInv /\ CurrentInv
  /\ UnbornInv /\ ReportedInv /\ HitsInv /\ ExactInv

(* The invariant holds at the start. *)
LEMMA InvInit == Init => Inv
<1> SUFFICES ASSUME Init PROVE Inv
  OBVIOUS
<1>a. None \notin SFolders /\ None \notin Insts
  BY SearchFoldersAssumption
<1>1. TypeOK
  <2>1. /\ MaxSets \in Nat /\ MaxChanges \in Nat /\ MaxMishaps \in Nat
    BY SearchFoldersAssumption
  <2>2. HistoryTypes /\ BoundTypes
    BY <2>1 DEF Init, HistoryTypes, BoundTypes
  <2>3. MsgTypes /\ RowTypes /\ ObjTypes /\ SearchTypes
    BY DEF Init, MsgTypes, RowTypes, ObjTypes, SearchTypes, Status, SearchPc
  <2>4. EventTypes
    BY DEF Init, EventTypes, ProcessPc
  <2>5. ProcTypes
    BY DEF Init, ProcTypes, ProcPc
  <2> QED
    BY <2>2, <2>3, <2>4, <2>5, TypesAre
<1>2. ProcInv
  BY DEF Init, ProcInv
<1>3. ObjInv /\ Sole
  BY <1>a DEF Init, ObjInv, Sole
<1>4. RowInv /\ QueueInv
  BY DEF Init, RowInv, QueueInv, NoGroup
<1>5. \A f \in SFolders : Phase(f) = "none" /\ Found(f) = {} /\ Todo(f) = {}
  BY DEF Init, Phase, Found, Todo
<1>6. Complete
  BY <1>5 DEF Init, Complete
<1>7. UnbornInv
  BY DEF Init, UnbornInv, Untouched, RowsRight, OnlyAdded, NoGroup
<1>8. ReportedInv
  BY DEF Init, ReportedInv, Reported, OneNews, NewsSays, Tells, Has, NoGroup
<1>9. HitsInv
  BY DEF Init, HitsInv, HitRight
<1>10. ExactInv
  BY <1>5 DEF Init, ExactInv, Exact, Progress
<1> QED
  BY <1>1, <1>2, <1>3, <1>4, <1>6, <1>7, <1>8, <1>9, <1>10 DEF Inv, SoleInv, CurrentInv

(* The invariant is kept. *)
LEMMA InvNext == Inv /\ [Next]_vars => Inv'
<1> SUFFICES ASSUME Inv, [Next]_vars PROVE Inv'
  OBVIOUS
<1>0. TypeOK /\ ProcInv /\ ObjInv /\ RowInv /\ QueueInv /\ UnbornInv
  BY DEF Inv
<1>1. TypeOK'
  BY <1>0, TypeNext
<1>2. ProcInv'
  BY <1>0, ProcNext
<1>3. ObjInv'
  BY <1>0, ObjNext
<1>4. RowInv'
  BY <1>0, RowNext
<1>5. QueueInv'
  BY <1>0, QueueNext
<1>6. Orderly' => Sole /\ Complete
  BY <1>0, OrderlyWasOrderly DEF Inv, SoleInv, CurrentInv
<1>7. SoleInv'
  BY <1>0, <1>6, SoleNext DEF SoleInv
<1>8. CurrentInv'
  BY <1>0, <1>6, CompleteNext DEF CurrentInv
<1>9. UnbornInv'
  BY <1>0, UnbornNext
<1>10. \A m \in Msgs : Clean(m)' => Clean(m) /\ Orderly'
  BY <1>0, SpoiledGrows DEF Clean, Orderly
<1>11. ReportedInv'
  <2> SUFFICES ASSUME NEW n \in Msgs, Clean(n)' PROVE Reported(n)'
    BY DEF ReportedInv
  <2>1. Reported(n)
    BY <1>10 DEF Inv, ReportedInv
  <2> QED
    BY <1>0, <2>1, ReportedNext
<1>12. HitsInv'
  <2> SUFFICES ASSUME NEW n \in Msgs PROVE HitRight(n)'
    BY DEF HitsInv
  <2>1. HitRight(n)
    BY DEF Inv, HitsInv
  <2> QED
    BY <1>0, <2>1, HitNext
<1>13. ExactInv'
  <2> SUFFICES ASSUME NEW n \in Msgs, NEW g \in SFolders, Clean(n)' PROVE Exact(g, n)'
    BY DEF ExactInv
  <2>1. Reported(n) /\ HitRight(n) /\ Exact(g, n) /\ Sole /\ Complete
    BY <1>6, <1>10 DEF Inv, ReportedInv, HitsInv, ExactInv
  <2>2. CASE Restart
    BY <1>0, <2>1, <2>2, ExactRestart
  <2>3. CASE ~Restart
    BY <1>0, <2>1, <2>3, ExactRuns
  <2> QED
    BY <2>2, <2>3
<1> QED
  BY <1>1, <1>2, <1>3, <1>4, <1>5, <1>7, <1>8, <1>9, <1>11, <1>12, <1>13 DEF Inv

(* When all is quiet, the invariant says that results are exact. *)
LEMMA QuietIsExact == Inv => QuietResultsAreExact
<1> SUFFICES ASSUME Inv, NEW f \in SFolders, Quiet(f), NEW m \in Msgs, Clean(m)
             PROVE  m \in results[f] <=> InTarget(m) /\ match[m]
  BY DEF QuietResultsAreExact, ExactExcept, Clean
<1>1. Complete /\ Exact(f, m) /\ TypeOK /\ ObjInv /\ RowInv /\ QueueInv
  BY DEF Inv, CurrentInv, Orderly, ExactInv
<1>2. active[f] \in Insts /\ folder[active[f]] = f
  BY <1>1 DEF Quiet, TypeOK, ObjInv
<1>3. f \in current
  BY <1>1 DEF Complete, Quiet, Stopping
<1>4. Found(f) = {} /\ Todo(f) = {}
  <2>1. spc[active[f]] \in {"none", "finished"}
    BY <1>2 DEF Quiet, Objects, Searching
  <2> QED
    BY <1>1, <1>2, <2>1 DEF RowInv, Found, Todo
<1>5. ~Coming(f, m)
  <2>1. ~Pend(m)
    BY DEF Quiet, Pend, Tells
  <2>2. batch = <<>> /\ events = <<>> /\ group = NoGroup
    BY <1>1 DEF Quiet, QueueInv
  <2> QED
    BY <2>1, <2>2 DEF Coming, Later, Has, NoGroup
<1> QED
  BY <1>1, <1>3, <1>4, <1>5 DEF Exact, Progress, Matches

(* The invariant holds always. *)
LEMMA Invariant == Spec => []Inv
<1> QED
  BY InvInit, InvNext, PTL DEF Spec

(* Every variable of ECSearchFolders has its type: in particular the objects *)
(* that requests and search threads hold are objects, and the search folders *)
(* whose rows they write exist.                                              *)
THEOREM TypeCorrect == Spec => []TypeOK
<1>1. Inv => TypeOK
  BY DEF Inv
<1> QED
  BY <1>1, Invariant, PTL

(* DestroySearchFolder deletes no SEARCHFOLDER that a search thread uses,    *)
(* whatever requests do at the same time.                                    *)
THEOREM SearchThreadsHaveFolders == Spec => []ThreadHasItsFolder
<1>1. Inv => ThreadHasItsFolder
  BY DEF Inv, ObjInv, ThreadHasItsFolder, Searching
<1> QED
  BY <1>1, Invariant, PTL

(* When nothing is going on, the results of a search folder whose status is  *)
(* running are the messages that match, but for those that the history names *)
(* with the reason: searches, the process thread, changes, requests and      *)
(* restarts never leave a wrong result for any other.                        *)
THEOREM QuietResultsExact == Spec => []QuietResultsAreExact
<1> QED
  BY QuietIsExact, Invariant, PTL

-----------------------------------------------------------------------------
(* Nobody waits for ever. *)

(* The row of a search folder is locked by a thread that is about to write   *)
(* its results, and the process thread waits when there is no event.         *)
HolderInv ==
  /\ \A f \in SFolders : rowLock[f] \in Insts => 
       spc[rowLock[f]] = "commit" /\ folder[rowLock[f]] = f
  /\ \A f \in SFolders : rowLock[f] = "process" => ppc = "update" /\ cur = f
  /\ ppc = "waiting" => events = <<>>

(* Nobody else holds a lock. *)
LEMMA HolderNext ==
  TypeOK /\ ProcInv /\ ObjInv /\ RowInv /\ HolderInv /\ [Next]_vars => HolderInv'
<1> SUFFICES ASSUME TypeOK, ProcInv, ObjInv, RowInv, HolderInv, [Next]_vars
             PROVE  HolderInv'
  OBVIOUS
<1> USE SearchFoldersAssumption DEF TypeOK, RowInv, HolderInv, Goto, Continue, SearchGoto, NoFault, Mishap,
       msgVars, rowVars, objVars, searchVars, eventVars, procVars, boundVars
<1>1. ASSUME NEW p \in Procs, NEW f \in SFolders, NEW o \in {"set", "stop", "remove"},
             CancelSearchFolder(p, f, o)
      PROVE  HolderInv'
  BY <1>1 DEF CancelSearchFolder, AfterCancel
<1>2. ASSUME NEW p \in Procs, NEW m \in Msgs, NEW to \in Places \cup {-1}, NEW b \in BOOLEAN,
             ChangeMessage(p, m, to, b)
      PROVE  HolderInv'
  BY <1>2 DEF ChangeMessage
<1>3. ASSUME NEW p \in Procs, DestroySearchFolder(p) PROVE HolderInv'
  <2>1. inst[p] \in Insts /\ spc[inst[p]] = "finished"
    BY <1>3 DEF DestroySearchFolder, ProcInv
  <2> QED
    BY <1>3, <2>1 DEF DestroySearchFolder, Delete
<1>4. ASSUME NEW p \in Procs, SetStopped(p) PROVE HolderInv'
  BY <1>4 DEF SetStopped, AfterCancel
<1>5. ASSUME NEW p \in Procs, SetRebuild(p) PROVE HolderInv'
  BY <1>5 DEF SetRebuild
<1>6. ASSUME NEW p \in Procs, ResetResults(p) PROVE HolderInv'
  BY <1>6 DEF ResetResults, Clear, Concurrent
<1>7. ASSUME NEW p \in Procs, InsertSearchFolder(p) PROVE HolderInv'
  <2>1. PICK j \in Insts : Inserts(p, j)
    BY <1>7, InsertEffect
  <2>2. arg[p] \in SFolders /\ None \notin SFolders /\ spc[j] = "none"
    BY <2>1, SearchFoldersAssumption DEF Inserts, ProcInv, ObjInv
  <2> QED
    BY <2>1, <2>2 DEF Inserts, NewSearchFolder
<1>8. ASSUME NEW p \in Procs, SaveSearchCriteria(p) PROVE HolderInv'
  BY <1>8 DEF SaveSearchCriteria
<1>9. ASSUME NEW p \in Procs, UpdateSearchFolders(p) PROVE HolderInv'
  BY <1>9 DEF UpdateSearchFolders, Queue
<1>10. ASSUME NEW i \in Insts, SearchReset(i) PROVE HolderInv'
  <2>1. spc[i] = "reset" /\ spc' \in [Insts -> SearchPc] /\ spc'[i] \in {"select", "complete"}
        /\ (\A j \in Insts : j # i => spc'[j] = spc[j])
        /\ UNCHANGED <<rowLock, folder, ppc, cur, events>>
    <3>1. \E l \in {"select", "complete"} : spc' = [spc EXCEPT ![i] = l]
      BY <1>10 DEF SearchReset
    <3> QED
      BY <1>10, <3>1 DEF SearchReset, SearchPc
  <2> HIDE DEF TypeOK
  <2> QED
    BY <2>1
<1>11. ASSUME NEW i \in Insts, SearchSelect(i) PROVE HolderInv'
  BY <1>11 DEF SearchSelect
<1>12. ASSUME NEW i \in Insts, ReadRows(i) PROVE HolderInv'
  <2>1. folder[i] \in SFolders /\ spc[i] = "batch"
    BY <1>12 DEF ReadRows, ObjInv
  <2>2. CASE spc' = [spc EXCEPT ![i] = "complete"]
    BY <1>12, <2>1, <2>2 DEF ReadRows, ReadBatch, Matching
  <2>3. ASSUME rowLock[folder[i]] = None, rowLock' = [rowLock EXCEPT ![folder[i]] = i],
               NEW b \in SUBSET todo[i], ReadBatch(i, b)
        PROVE  HolderInv'
    <3>1. /\ spc'[i] = "commit" /\ rowLock'[folder[i]] = i
          /\ \A j \in Insts : j # i => spc'[j] = spc[j] /\ found'[j] = found[j] /\ todo'[j] = todo[j]
          /\ \A f \in SFolders : f # folder[i] => rowLock'[f] = rowLock[f]
          /\ UNCHANGED <<folder, ppc, cur, events>>
      BY <1>12, <2>1, <2>3 DEF ReadRows, ReadBatch
    <3> HIDE DEF TypeOK
    <3> QED
      BY <2>1, <3>1
  <2> QED
    BY <1>12, <2>2, <2>3 DEF ReadRows
<1>13. ASSUME NEW i \in Insts, AddResults(i) PROVE HolderInv'
  BY <1>13 DEF AddResults
<1>14. ASSUME NEW i \in Insts, SearchDone(i) PROVE HolderInv'
  BY <1>14 DEF SearchDone
<1>15. ASSUME NEW i \in Insts, SetRunning(i) PROVE HolderInv'
  BY <1>15 DEF SetRunning
<1>16. ASSUME NEW i \in Insts, ThreadFree(i) PROVE HolderInv'
  BY <1>16 DEF ThreadFree
<1>17. CASE ProcessTop
  BY <1>17 DEF ProcessTop
<1>18. CASE FlushEvents
  BY <1>18 DEF FlushEvents
<1>19. CASE NextGroup
  BY <1>19 DEF NextGroup, TakeGroup
<1>20. CASE Update
  BY <1>20 DEF Update
<1>21. CASE GroupDone
  BY <1>21 DEF GroupDone
<1>22. ASSUME NEW f \in SFolders, LockFolder(f) PROVE HolderInv'
  BY <1>22 DEF LockFolder
<1>23. ASSUME NEW f \in SFolders, GiveUp(f) PROVE HolderInv'
  BY <1>23 DEF GiveUp
<1>24. CASE Restart
  <2>1. rowLock' = [f \in SFolders |-> None] /\ ppc' = "top"
    BY <1>24 DEF Restart
  <2> QED
    BY <2>1
<1>25. CASE UNCHANGED vars
  BY <1>25 DEF vars
<1> QED
  BY <1>1, <1>2, <1>3, <1>4, <1>5, <1>6, <1>7, <1>8, <1>9, <1>10, <1>11, <1>12,
     <1>13, <1>14, <1>15, <1>16, <1>17, <1>18, <1>19, <1>20, <1>21, <1>22, <1>23,
     <1>24, <1>25
     DEF Next, Threads, ProcStep, Process, Search

(* A batch begins with a run of equal events: a first event that differs     *)
(* from the one before it ends it, or the end of the batch.                  *)
LEMMA RunExists ==
  ASSUME batch \in Seq(Event), batch # <<>>
  PROVE  \E k \in 1..Len(batch) : IsRun(k)
<1> SUFFICES ASSUME \A k \in 1..Len(batch) : ~IsRun(k) PROVE FALSE
  OBVIOUS
<1> DEFINE A == {k \in 1..Len(batch) : \A i \in 1..k : Alike(i)}
           next == [k \in A |-> k + 1]
<1>1. Len(batch) \in Nat \ {0}
  OBVIOUS
<1>2. 1 \in A
  BY <1>1 DEF Alike
<1>3. ASSUME NEW k \in A PROVE k + 1 \in A
  <2>1. k < Len(batch) /\ Alike(k + 1)
    BY <1>1 DEF IsRun
  <2>2. \A i \in 1..(k + 1) : Alike(i)
    BY <1>1, <2>1
  <2> QED
    BY <1>1, <2>1, <2>2
<1>4. IsFiniteSet(A)
  <2>1. IsFiniteSet(1..Len(batch))
    BY <1>1, FS_Interval
  <2>2. A \in SUBSET (1..Len(batch))
    OBVIOUS
  <2> HIDE DEF A
  <2> QED
    BY <2>1, <2>2, FS_Subset
<1>5. next \in Injection(A, A)
  BY <1>1, <1>3 DEF Injection, IsInjective
<1>6. next \in Surjection(A, A)
  BY <1>4, <1>5, FS_Injection
<1>7. PICK k \in A : next[k] = 1
  BY <1>2, <1>6 DEF Surjection
<1> QED
  BY <1>1, <1>7

(* In the invariant, a state in which nobody can go on is one in which       *)
(* nobody has anything to do.                                                *)
LEMMA SomeoneGoesOn ==
  Inv /\ HolderInv /\ Objects(None) # {} => NothingHangs
<1> SUFFICES ASSUME Inv, HolderInv, Objects(None) # {}, ~SomeoneIsReady
             PROVE  /\ \A p \in Procs : pc[p] = "idle"
                    /\ \A i \in Insts : ~Searching(i)
                    /\ events = <<>> /\ ppc = "waiting"
  BY DEF NothingHangs
<1> USE SearchFoldersAssumption DEF SomeoneIsReady
<1>1. TypeOK /\ ProcInv /\ ObjInv /\ QueueInv
  BY DEF Inv
<1>2. \A f \in SFolders : rowLock[f] = None
  <2> SUFFICES ASSUME NEW f \in SFolders, rowLock[f] # None PROVE FALSE
    OBVIOUS
  <2>1. rowLock[f] \in Insts \/ rowLock[f] = "process"
    BY <1>1 DEF TypeOK
  <2>2. CASE rowLock[f] \in Insts
    BY <2>2 DEF HolderInv, SearchReady, Searching
  <2>3. CASE rowLock[f] = "process"
    BY <2>3 DEF HolderInv, ProcessReady
  <2> QED
    BY <2>1, <2>2, <2>3
<1>3. ppc = "waiting"
  <2>1. ppc = "groups" /\ batch # <<>> => \E k \in 1..Len(batch) : IsRun(k)
    BY <1>1, RunExists DEF TypeOK
  <2>2. left \subseteq SFolders
    BY <1>1 DEF TypeOK
  <2> QED
    BY <1>2, <2>1, <2>2 DEF ProcessReady
<1>4. events = <<>> /\ ~MapLocked
  BY <1>3 DEF HolderInv, MapLocked
<1>5. \A i \in Insts : ~Searching(i)
  <2> SUFFICES ASSUME NEW i \in Insts, Searching(i) PROVE FALSE
    OBVIOUS
  <2>1. folder[i] \in SFolders
    BY <1>1 DEF TypeOK, ObjInv, Searching
  <2> QED
    BY <1>2, <2>1 DEF SearchReady
<1>6. ASSUME NEW p \in Procs PROVE pc[p] = "idle"
  <2>1. CASE pc[p] = "destroy"
    <3>1. inst[p] \in Insts /\ folder[inst[p]] \in SFolders
      BY <1>1, <2>1 DEF ProcInv
    <3>2. spc[inst[p]] = "finished"
      BY <1>1, <1>5, <3>1 DEF ObjInv, Searching
    <3> QED
      BY <2>1, <3>2 DEF ProcReady
  <2>2. CASE pc[p] = "reset"
    <3>1. arg[p] \in SFolders
      BY <1>1, <2>2 DEF ProcInv
    <3> QED
      BY <1>2, <2>2, <3>1 DEF ProcReady
  <2>3. CASE pc[p] = "insert"
    BY <1>4, <2>3 DEF ProcReady
  <2>4. CASE pc[p] \notin {"destroy", "reset", "insert"}
    BY <2>4 DEF ProcReady
  <2> QED
    BY <2>1, <2>2, <2>3, <2>4
<1> QED
  BY <1>3, <1>4, <1>5, <1>6

(* While there is an object for a new search, as there is in the code, which *)
(* makes them on the heap, nobody waits for ever: requests, searches and the *)
(* process thread wait for each other, for the rows and for the map, and one *)
(* of them can always go on, or all have done what they had to do.           *)
THEOREM NobodyHangs == Spec => [](Objects(None) # {} => NothingHangs)
<1>1. Init => HolderInv
  BY SearchFoldersAssumption DEF Init, HolderInv
<1>2. Inv /\ HolderInv /\ [Next]_vars => HolderInv'
  BY HolderNext DEF Inv
<1>3. Spec => []HolderInv
  BY <1>1, <1>2, Invariant, PTL DEF Spec
<1> QED
  BY <1>3, Invariant, SomeoneGoesOn, PTL
=============================================================================
