------------------------- MODULE TableUpdatesProofs -------------------------
(***************************************************************************)
(* Proofs about TableUpdates, for any number of sessions, threads, tables, *)
(* views, messages and changes: tables are freed when nobody uses them,    *)
(* the session manager's subscriptions are those of the open tables, and a *)
(* filled table shows what is in its view once the changes are announced.  *)
(* Last, that nobody waits for ever.                                       *)
(***************************************************************************)
EXTENDS TableUpdates, FiniteSetTheorems, SequenceTheorems, TLAPS

-----------------------------------------------------------------------------
(* Changes of messages. *)

(* A request that changes message m so that it is in view v afterwards, and  *)
(* what it has to announce: every view that m leaves, enters or stays in     *)
(* changed, and nothing that is not so.                                      *)
Change(p, m, v, us) ==
  /\ Commit(p, m, v, us)
  /\ us \in Seq(Updates) /\ us # <<>>
  /\ \A i \in 1..Len(us) :
       /\ us[i].msg = m
       /\ us[i].type \in {"add", "modify"} => us[i].view = v
       /\ us[i].type = "delete" => us[i].view # v
  /\ \A x \in Views : (place[m] = x <=> v = x) \/ \E i \in 1..Len(us) : us[i].view = x

(* One announcement. *)
LEMMA OneUpdate ==
  ASSUME NEW p, NEW m \in Msgs, NEW v \in Views \cup {"gone"},
         NEW ty \in UpdateType, NEW x \in Views,
         Commit(p, m, v, <<Up(ty, x, m)>>),
         ty \in {"add", "modify"} => x = v, ty = "delete" => x # v,
         \A y \in Views : (place[m] = y <=> v = y) \/ y = x
  PROVE  Change(p, m, v, <<Up(ty, x, m)>>)
<1> DEFINE us == <<Up(ty, x, m)>>
<1>1. Up(ty, x, m) \in Updates /\ us \in Seq(Updates) /\ us # <<>> /\ Len(us) = 1
      /\ us[1] = Up(ty, x, m)
  BY DEF Updates, Up
<1>2. us[1].msg = m /\ us[1].type = ty /\ us[1].view = x
  BY <1>1 DEF Up
<1> HIDE DEF us
<1>3. \A i \in 1..Len(us) : i = 1
  BY <1>1
<1> QED
  BY <1>1, <1>2, <1>3 DEF Change, us

(* Two announcements of a message that moves. *)
LEMMA TwoUpdates ==
  ASSUME NEW p, NEW m \in Msgs, NEW v \in Views, NEW x \in Views, x # v, place[m] = x,
         NEW ty \in UpdateType, NEW tz \in UpdateType,
         Commit(p, m, v, <<Up(ty, x, m), Up(tz, v, m)>>),
         ty \in {"delete", "change"}, tz \in {"add", "change"}
  PROVE  Change(p, m, v, <<Up(ty, x, m), Up(tz, v, m)>>)
<1> DEFINE us == <<Up(ty, x, m), Up(tz, v, m)>>
<1>1. Up(ty, x, m) \in Updates /\ Up(tz, v, m) \in Updates
  BY DEF Updates, Up
<1>2. us \in Seq(Updates) /\ us # <<>> /\ Len(us) = 2
      /\ us[1] = Up(ty, x, m) /\ us[2] = Up(tz, v, m)
  BY <1>1
<1>3. /\ us[1].msg = m /\ us[1].type = ty /\ us[1].view = x
      /\ us[2].msg = m /\ us[2].type = tz /\ us[2].view = v
  BY <1>2 DEF Up
<1> HIDE DEF us
<1>4. \A i \in 1..Len(us) : i = 1 \/ i = 2
  BY <1>2
<1>5. 1 \in 1..Len(us) /\ 2 \in 1..Len(us)
  BY <1>2
<1> QED
  BY <1>2, <1>3, <1>4, <1>5 DEF Change, us

(* Every request that changes a message announces the change like that.      *)
LEMMA ChangesAnnounceThemselves ==
  ASSUME TypeOK, NEW p \in Threads, NEW m \in Msgs, NEW v \in Views,
         Delete(p, m) \/ Save(p, m, v) \/ Move(p, m, v)
  PROVE  \E w \in Views \cup {"gone"} : \E us : Change(p, m, w, us)
<1> USE TableAssumption DEF UpdateType
<1>1. CASE Delete(p, m)
  <2>1. PICK ty \in {"delete", "change"} : Commit(p, m, "gone", <<Up(ty, place[m], m)>>)
    BY <1>1 DEF Delete
  <2>2. place[m] \in Views /\ place[m] # "gone" /\ \A y \in Views : y # "gone"
    BY <1>1 DEF Delete
  <2>3. Change(p, m, "gone", <<Up(ty, place[m], m)>>)
    BY <2>1, <2>2, OneUpdate
  <2> QED
    BY <2>3
<1>2. CASE place[m] = "unborn" /\ Commit(p, m, v, <<Up("add", v, m)>>)
  <2>1. \A y \in Views : y # "unborn"
    OBVIOUS
  <2>2. Change(p, m, v, <<Up("add", v, m)>>)
    BY <1>2, <2>1, OneUpdate
  <2> QED
    BY <2>2
<1>3. CASE place[m] = v /\ Commit(p, m, v, <<Up("modify", v, m)>>)
  <2>1. Change(p, m, v, <<Up("modify", v, m)>>)
    BY <1>3, OneUpdate
  <2> QED
    BY <2>1
<1>4. CASE Move(p, m, v)
  <2>1. place[m] \in Views /\ place[m] # v
    BY <1>4 DEF Move
  <2>2. CASE Commit(p, m, v, <<Up("delete", place[m], m), Up("add", v, m)>>)
    <3>1. Change(p, m, v, <<Up("delete", place[m], m), Up("add", v, m)>>)
      BY <2>1, <2>2, TwoUpdates
    <3> QED
      BY <3>1
  <2>3. CASE Commit(p, m, v, <<Up("change", place[m], m), Up("change", v, m)>>)
    <3>1. Change(p, m, v, <<Up("change", place[m], m), Up("change", v, m)>>)
      BY <2>1, <2>3, TwoUpdates
    <3> QED
      BY <3>1
  <2> QED
    BY <1>4, <2>2, <2>3 DEF Move
<1> QED
  BY <1>1, <1>2, <1>3, <1>4 DEF Save

(* The steps, with the changes of messages taken together. *)
LEMMA StepCases ==
  ASSUME TypeOK, [Next]_vars
  PROVE  \/ \E s \in Sids : RemoveSession(s) \/ DestroySession(s)
         \/ \E p \in Threads, s \in Sids : Begin(p, s) \/ LockTarget(p, s)
         \/ \E p \in Threads, t \in Tables :
              GetTable(p, t) \/ CloseTable(p, t) \/ UpdateRows(p, t) \/ Reload(p, t)
         \/ \E p \in Threads, t \in Tables, v \in Views : OpenTable(p, t, v)
         \/ \E p \in Threads, m \in Msgs, v \in Views \cup {"gone"} :
              \E us : Change(p, m, v, us)
         \/ \E p \in Threads :
              \/ Populate(p) \/ PopulateRows(p) \/ ReleaseTable(p) \/ EndRequest(p)
              \/ FindSubscribers(p) \/ LockList(p) \/ ReloadRows(p)
              \/ UnlockTarget(p) \/ NextUpdate(p)
         \/ UNCHANGED vars
<1>1. CASE \E s \in Sids : RemoveSession(s) \/ DestroySession(s)
  BY <1>1
<1>2. CASE \E p \in Threads, s \in Sids : Begin(p, s)
  BY <1>2
<1>3. ASSUME NEW p \in Threads, Request(p)
      PROVE  \/ \E t \in Tables : GetTable(p, t) \/ CloseTable(p, t)
             \/ \E t \in Tables, v \in Views : OpenTable(p, t, v)
             \/ \E m \in Msgs, v \in Views \cup {"gone"} : \E us : Change(p, m, v, us)
  <2>1. ASSUME NEW m \in Msgs, Delete(p, m)
        PROVE  \E v \in Views \cup {"gone"} : \E us : Change(p, m, v, us)
    <3>1. place[m] \in Views
      BY <2>1 DEF Delete
    <3> QED
      BY <2>1, <3>1, ChangesAnnounceThemselves
  <2> QED
    BY <1>3, <2>1, ChangesAnnounceThemselves DEF Request
<1>4. CASE \E p \in Threads : UseTable(p)
  BY <1>4 DEF UseTable
<1>5. CASE \E p \in Threads : Announce(p)
  BY <1>5 DEF Announce
<1> QED
  BY <1>1, <1>2, <1>3, <1>4, <1>5 DEF Next

-----------------------------------------------------------------------------
(* Threads and locks. *)

(* What a thread has at each program counter. *)
ThreadInv ==
  \A p \in Threads :
    /\ pc[p] = "idle" <=> sid[p] = None
    /\ pc[p] \in {"got", "fill", "read", "closed", "refill"} <=> tbl[p] # None
    /\ pc[p] \in {"lock", "update", "refill"} <=> upd[p] # None
    /\ pc[p] \notin {"update", "refill"} => left[p] = {}
    /\ pc[p] \in {"announce", "target", "lock", "update", "refill"} <=> todo[p] # <<>>

(* Who holds the locks. *)
LockInv ==
  /\ \A p \in Threads, t \in Tables :
       rowMutex[t] = p <=> pc[p] \in {"fill", "refill"} /\ tbl[p] = t
  /\ \A p \in Threads, s \in Sids :
       listMutex[s] = p <=> pc[p] \in {"update", "refill"} /\ upd[p] = s

(* A session that is locked has not been freed. *)
HeldInv ==
  \A p \in Threads : /\ sid[p] # None => state[sid[p]] # "freed"
                     /\ upd[p] # None => state[upd[p]] # "freed"

(* Initially every thread is idle. *)
LEMMA ThreadsInit == Init => ThreadInv /\ LockInv /\ HeldInv
  BY TableAssumption DEF Init, ThreadInv, LockInv, HeldInv

(* A thread that goes to its next update has one. *)
LEMMA TailEmpty ==
  ASSUME NEW S, NEW q \in Seq(S), q # <<>>
  PROVE  Tail(q) = <<>> <=> Len(q) = 1
<1>1. Tail(q) \in Seq(S) /\ Len(Tail(q)) = Len(q) - 1 /\ Len(q) \in Nat
  BY HeadTailProperties, LenProperties
<1>2. Tail(q) = <<>> <=> Len(Tail(q)) = 0
  BY <1>1, EmptySeq
<1> QED
  BY <1>1, <1>2

(* Every step of a thread leaves it with what its next step needs.           *)
LEMMA ThreadsNext == TypeOK /\ ThreadInv /\ [Next]_vars => ThreadInv'
<1> SUFFICES ASSUME TypeOK, ThreadInv, [Next]_vars PROVE ThreadInv'
  OBVIOUS
<1> USE TableAssumption DEF TypeOK, ThreadInv, Goto, dbVars, tableVars, updateVars
<1>1. ASSUME NEW s \in Sids, RemoveSession(s) PROVE ThreadInv'
  BY <1>1 DEF RemoveSession
<1>2. ASSUME NEW s \in Sids, DestroySession(s) PROVE ThreadInv'
  BY <1>2 DEF DestroySession
<1>3. ASSUME NEW p \in Threads, NEW s \in Sids, Begin(p, s) PROVE ThreadInv'
  BY <1>3 DEF Begin
<1>4. ASSUME NEW p \in Threads, NEW t \in Tables,
             GetTable(p, t)
      PROVE  ThreadInv'
  BY <1>4 DEF GetTable
<1>5. ASSUME NEW p \in Threads, NEW t \in Tables,
             CloseTable(p, t)
      PROVE  ThreadInv'
  BY <1>5 DEF CloseTable
<1>6. ASSUME NEW p \in Threads, NEW t \in Tables, NEW v \in Views,
             OpenTable(p, t, v)
      PROVE  ThreadInv'
  BY <1>6 DEF OpenTable
<1>7. ASSUME NEW p \in Threads, NEW m \in Msgs, NEW v \in Views \cup {"gone"}, NEW us,
             Change(p, m, v, us)
      PROVE  ThreadInv'
  BY <1>7 DEF Change, Commit
<1>8. ASSUME NEW p \in Threads, Populate(p) PROVE ThreadInv'
  BY <1>8 DEF Populate, Select
<1>9. ASSUME NEW p \in Threads, PopulateRows(p) PROVE ThreadInv'
  BY <1>9 DEF PopulateRows, LoadRows
<1>10. ASSUME NEW p \in Threads, ReleaseTable(p) PROVE ThreadInv'
  BY <1>10 DEF ReleaseTable
<1>11. ASSUME NEW p \in Threads, EndRequest(p) PROVE ThreadInv'
  BY <1>11 DEF EndRequest
<1>12. ASSUME NEW p \in Threads, FindSubscribers(p) PROVE ThreadInv'
  BY <1>12 DEF FindSubscribers
<1>13. ASSUME NEW p \in Threads, LockList(p) PROVE ThreadInv'
  BY <1>13 DEF LockList
<1>14. ASSUME NEW p \in Threads, ReloadRows(p) PROVE ThreadInv'
  BY <1>14 DEF ReloadRows
<1>15. ASSUME NEW p \in Threads, UnlockTarget(p) PROVE ThreadInv'
  BY <1>15 DEF UnlockTarget
<1>16. ASSUME NEW p \in Threads, NextUpdate(p) PROVE ThreadInv'
  <2>1. Tail(todo[p]) = <<>> <=> Len(todo[p]) = 1
    BY <1>16, TailEmpty DEF NextUpdate
  <2> QED
    BY <1>16, <2>1 DEF NextUpdate
<1>17. ASSUME NEW p \in Threads, NEW s \in Sids,
             LockTarget(p, s)
      PROVE  ThreadInv'
  BY <1>17 DEF LockTarget
<1>18. ASSUME NEW p \in Threads, NEW t \in Tables,
             UpdateRows(p, t)
      PROVE  ThreadInv'
  BY <1>18 DEF UpdateRows
<1>19. ASSUME NEW p \in Threads, NEW t \in Tables,
             Reload(p, t)
      PROVE  ThreadInv'
  BY <1>19 DEF Reload, Select
<1>20. CASE UNCHANGED vars
  BY <1>20 DEF vars
<1> QED
  BY <1>1, <1>2, <1>3, <1>4, <1>5, <1>6, <1>7, <1>8, <1>9, <1>10, <1>11,
     <1>12, <1>13, <1>14, <1>15, <1>16, <1>17, <1>18, <1>19, <1>20, StepCases

(* No lock is taken that another thread has, or kept. *)
LEMMA LocksNext == TypeOK /\ ThreadInv /\ LockInv /\ [Next]_vars => LockInv'
<1> SUFFICES ASSUME TypeOK, ThreadInv, LockInv, [Next]_vars PROVE LockInv'
  OBVIOUS
<1> USE TableAssumption DEF TypeOK, ThreadInv, LockInv, Goto, dbVars, tableVars, updateVars
<1>1. ASSUME NEW s \in Sids, RemoveSession(s) PROVE LockInv'
  BY <1>1 DEF RemoveSession
<1>2. ASSUME NEW s \in Sids, DestroySession(s) PROVE LockInv'
  BY <1>2 DEF DestroySession
<1>3. ASSUME NEW p \in Threads, NEW s \in Sids, Begin(p, s) PROVE LockInv'
  BY <1>3 DEF Begin
<1>4. ASSUME NEW p \in Threads, NEW t \in Tables,
             GetTable(p, t)
      PROVE  LockInv'
  BY <1>4 DEF GetTable
<1>5. ASSUME NEW p \in Threads, NEW t \in Tables,
             CloseTable(p, t)
      PROVE  LockInv'
  BY <1>5 DEF CloseTable
<1>6. ASSUME NEW p \in Threads, NEW t \in Tables, NEW v \in Views,
             OpenTable(p, t, v)
      PROVE  LockInv'
  BY <1>6 DEF OpenTable
<1>7. ASSUME NEW p \in Threads, NEW m \in Msgs, NEW v \in Views \cup {"gone"}, NEW us,
             Change(p, m, v, us)
      PROVE  LockInv'
  BY <1>7 DEF Change, Commit
<1>8. ASSUME NEW p \in Threads, Populate(p) PROVE LockInv'
  BY <1>8 DEF Populate, Select
<1>9. ASSUME NEW p \in Threads, PopulateRows(p) PROVE LockInv'
  BY <1>9 DEF PopulateRows, LoadRows
<1>10. ASSUME NEW p \in Threads, ReleaseTable(p) PROVE LockInv'
  BY <1>10 DEF ReleaseTable
<1>11. ASSUME NEW p \in Threads, EndRequest(p) PROVE LockInv'
  BY <1>11 DEF EndRequest
<1>12. ASSUME NEW p \in Threads, FindSubscribers(p) PROVE LockInv'
  BY <1>12 DEF FindSubscribers
<1>13. ASSUME NEW p \in Threads, LockList(p) PROVE LockInv'
  BY <1>13 DEF LockList
<1>14. ASSUME NEW p \in Threads, ReloadRows(p) PROVE LockInv'
  BY <1>14 DEF ReloadRows
<1>15. ASSUME NEW p \in Threads, UnlockTarget(p) PROVE LockInv'
  BY <1>15 DEF UnlockTarget
<1>16. ASSUME NEW p \in Threads, NextUpdate(p) PROVE LockInv'
  BY <1>16 DEF NextUpdate
<1>17. ASSUME NEW p \in Threads, NEW s \in Sids,
             LockTarget(p, s)
      PROVE  LockInv'
  BY <1>17 DEF LockTarget
<1>18. ASSUME NEW p \in Threads, NEW t \in Tables,
             UpdateRows(p, t)
      PROVE  LockInv'
  BY <1>18 DEF UpdateRows
<1>19. ASSUME NEW p \in Threads, NEW t \in Tables,
             Reload(p, t)
      PROVE  LockInv'
  BY <1>19 DEF Reload, Select
<1>20. CASE UNCHANGED vars
  BY <1>20 DEF vars
<1> QED
  BY <1>1, <1>2, <1>3, <1>4, <1>5, <1>6, <1>7, <1>8, <1>9, <1>10, <1>11,
     <1>12, <1>13, <1>14, <1>15, <1>16, <1>17, <1>18, <1>19, <1>20, StepCases

(* A session is freed when no thread has it locked, and not found after.     *)
LEMMA HeldNext == TypeOK /\ HeldInv /\ [Next]_vars => HeldInv'
<1> SUFFICES ASSUME TypeOK, HeldInv, [Next]_vars PROVE HeldInv'
  OBVIOUS
<1> USE TableAssumption DEF TypeOK, HeldInv, Goto, dbVars, tableVars, updateVars
<1>1. ASSUME NEW s \in Sids, RemoveSession(s) PROVE HeldInv'
  BY <1>1 DEF RemoveSession
<1>2. ASSUME NEW s \in Sids, DestroySession(s) PROVE HeldInv'
  BY <1>2 DEF DestroySession, Holders
<1>3. ASSUME NEW p \in Threads, NEW s \in Sids, Begin(p, s) PROVE HeldInv'
  BY <1>3 DEF Begin
<1>4. ASSUME NEW p \in Threads, NEW t \in Tables,
             GetTable(p, t)
      PROVE  HeldInv'
  BY <1>4 DEF GetTable
<1>5. ASSUME NEW p \in Threads, NEW t \in Tables,
             CloseTable(p, t)
      PROVE  HeldInv'
  BY <1>5 DEF CloseTable
<1>6. ASSUME NEW p \in Threads, NEW t \in Tables, NEW v \in Views,
             OpenTable(p, t, v)
      PROVE  HeldInv'
  BY <1>6 DEF OpenTable
<1>7. ASSUME NEW p \in Threads, NEW m \in Msgs, NEW v \in Views \cup {"gone"}, NEW us,
             Change(p, m, v, us)
      PROVE  HeldInv'
  BY <1>7 DEF Change, Commit
<1>8. ASSUME NEW p \in Threads, Populate(p) PROVE HeldInv'
  BY <1>8 DEF Populate, Select
<1>9. ASSUME NEW p \in Threads, PopulateRows(p) PROVE HeldInv'
  BY <1>9 DEF PopulateRows, LoadRows
<1>10. ASSUME NEW p \in Threads, ReleaseTable(p) PROVE HeldInv'
  BY <1>10 DEF ReleaseTable
<1>11. ASSUME NEW p \in Threads, EndRequest(p) PROVE HeldInv'
  BY <1>11 DEF EndRequest
<1>12. ASSUME NEW p \in Threads, FindSubscribers(p) PROVE HeldInv'
  BY <1>12 DEF FindSubscribers
<1>13. ASSUME NEW p \in Threads, LockList(p) PROVE HeldInv'
  BY <1>13 DEF LockList
<1>14. ASSUME NEW p \in Threads, ReloadRows(p) PROVE HeldInv'
  BY <1>14 DEF ReloadRows
<1>15. ASSUME NEW p \in Threads, UnlockTarget(p) PROVE HeldInv'
  BY <1>15 DEF UnlockTarget
<1>16. ASSUME NEW p \in Threads, NextUpdate(p) PROVE HeldInv'
  BY <1>16 DEF NextUpdate
<1>17. ASSUME NEW p \in Threads, NEW s \in Sids,
             LockTarget(p, s)
      PROVE  HeldInv'
  <2>1. UNCHANGED <<state, sid>>
    BY <1>17 DEF LockTarget
  <2>2. \A q \in Threads : upd'[q] = upd[q] \/ state[upd'[q]] = "live"
    BY <1>17 DEF LockTarget
  <2> QED
    BY <2>1, <2>2
<1>18. ASSUME NEW p \in Threads, NEW t \in Tables,
             UpdateRows(p, t)
      PROVE  HeldInv'
  BY <1>18 DEF UpdateRows
<1>19. ASSUME NEW p \in Threads, NEW t \in Tables,
             Reload(p, t)
      PROVE  HeldInv'
  BY <1>19 DEF Reload, Select
<1>20. CASE UNCHANGED vars
  BY <1>20 DEF vars
<1> QED
  BY <1>1, <1>2, <1>3, <1>4, <1>5, <1>6, <1>7, <1>8, <1>9, <1>10, <1>11,
     <1>12, <1>13, <1>14, <1>15, <1>16, <1>17, <1>18, <1>19, <1>20, StepCases

-----------------------------------------------------------------------------
(* Tables. *)

(* A table id is unused, or its table is freed with its last reference; one  *)
(* in the list is of a session that has not been freed, and a thread uses    *)
(* tables of the session its request is for.                                 *)
TableInv ==
  /\ \A t \in Tables :
       \/ /\ tab[t].sid = None /\ tab[t].refs = 0 /\ ~tab[t].listed /\ ~tab[t].freed
       \/ /\ tab[t].sid \in Sids /\ tab[t].view \in Views
          /\ tab[t].freed <=> tab[t].refs = 0
          /\ tab[t].listed => state[tab[t].sid] # "freed"
  /\ \A p \in Threads :
       pc[p] \in {"got", "fill", "read", "closed"} => tab[tbl[p]].sid = sid[p]

(* The references that are counted are the list's and the users'.            *)
RefInv ==
  \A t \in Tables :
    tab[t].refs = Cardinality(Users(t)) + (IF tab[t].listed THEN 1 ELSE 0)

(* The tables UpdateTables has still to update, or reloads, are in the list. *)
LeftInv ==
  \A p \in Threads :
    /\ \A t \in left[p] : /\ tab[t].listed /\ tab[t].sid = upd[p]
                          /\ tab[t].view = Head(todo[p]).view
    /\ pc[p] = "refill" => /\ tab[tbl[p]].listed /\ tab[tbl[p]].sid = upd[p]
                           /\ tab[tbl[p]].view = Head(todo[p]).view

(* What TypeOK says about one table, the bound on references aside.          *)
Table == [sid : Sids \cup {None}, view : Views \cup {None}, listed : BOOLEAN,
          refs : Int, populated : BOOLEAN, rows : SUBSET Msgs, freed : BOOLEAN]

(* A step does not change who owns table t, what it shows and its place in   *)
(* the list.                                                                 *)
SameEntry(t) ==
  /\ tab'[t].sid = tab[t].sid /\ tab'[t].view = tab[t].view
  /\ tab'[t].listed <=> tab[t].listed

(* Nor its references. *)
SameCount(t) == tab'[t].refs = tab[t].refs /\ (tab'[t].freed <=> tab[t].freed)

(* Nor its rows. *)
SameRows(t) == tab'[t].rows = tab[t].rows /\ (tab'[t].populated <=> tab[t].populated)

(* The fields of an unused table. *)
LEMMA ClosedFields ==
  /\ Closed.sid = None /\ Closed.view = None /\ Closed.refs = 0 /\ Closed.rows = {}
  /\ ~Closed.listed /\ ~Closed.populated /\ ~Closed.freed
  BY DEF Closed

(* Types of tables. *)
LEMMA TableType == TypeOK => tab \in [Tables -> Table]
  BY FS_CardinalityType, TableAssumption DEF TypeOK, Table

(* Threads, and so the users of a table, are finitely many. *)
LEMMA UsersFinite ==
  ASSUME NEW t
  PROVE  IsFiniteSet(Users(t)) /\ Cardinality(Users(t)) \in 0..Cardinality(Threads)
<1>1. Users(t) \in SUBSET Threads
  BY DEF Users
<1>2. IsFiniteSet(Users(t)) /\ Cardinality(Users(t)) <= Cardinality(Threads)
  BY <1>1, FS_Subset, TableAssumption
<1> QED
  BY <1>2, FS_CardinalityType, TableAssumption

(* Giving back a reference changes the count, and frees with the last.       *)
LEMMA ReleaseEffect ==
  ASSUME NEW r \in Table
  PROVE  /\ Release(r) \in Table
         /\ Release(r).sid = r.sid /\ Release(r).view = r.view
         /\ Release(r).listed = r.listed /\ Release(r).populated = r.populated
         /\ Release(r).refs = r.refs - 1
         /\ Release(r).freed <=> r.refs = 1 \/ r.freed
         /\ r.refs # 1 => Release(r).rows = r.rows
<1>1. CASE r.refs = 1
  <2>1. Release(r) = [r EXCEPT !.refs = 0, !.freed = TRUE, !.rows = {}]
    BY <1>1 DEF Release
  <2>2. [[r EXCEPT !.refs = 0] EXCEPT !.freed = TRUE] \in Table
    <3>1. [r EXCEPT !.refs = 0] \in Table
      BY DEF Table
    <3> QED
      BY <3>1 DEF Table
  <2>3. Release(r) = [[[r EXCEPT !.refs = 0] EXCEPT !.freed = TRUE] EXCEPT !.rows = {}]
    BY <2>1 DEF Table
  <2>4. Release(r) \in Table
    BY <2>2, <2>3 DEF Table
  <2>5. /\ Release(r).sid = r.sid /\ Release(r).view = r.view
        /\ Release(r).listed = r.listed /\ Release(r).populated = r.populated
        /\ Release(r).refs = 0 /\ Release(r).freed = TRUE
    BY <2>1 DEF Table
  <2> QED
    BY <1>1, <2>4, <2>5
<1>2. CASE r.refs # 1
  <2>1. Release(r) = [r EXCEPT !.refs = r.refs - 1]
    BY <1>2 DEF Release
  <2> QED
    BY <1>2, <2>1 DEF Table
<1> QED
  BY <1>1, <1>2

(* What a session leaves when it is deleted: its tables are out of the list. *)
LEMMA DestroyEffect ==
  ASSUME TypeOK, NEW s \in Sids, DestroySession(s)
  PROVE  /\ tab' \in [Tables -> Table]
         /\ \A t \in Tables :
              /\ tab'[t].sid = tab[t].sid /\ tab'[t].view = tab[t].view
              /\ tab'[t].listed <=> tab[t].listed /\ tab[t].sid # s
              /\ tab[t].sid # s \/ ~tab[t].listed => SameCount(t) /\ SameRows(t)
              /\ tab[t].sid = s /\ tab[t].listed =>
                   /\ tab'[t].refs = tab[t].refs - 1
                   /\ tab'[t].freed <=> tab[t].refs = 1 \/ tab[t].freed
<1>1. \A t \in Tables : tab[t] \in Table
  BY TableType
<1>2. tab' = [t \in Tables |-> IF tab[t].sid = s /\ tab[t].listed
                  THEN [Release(tab[t]) EXCEPT !.listed = FALSE] ELSE tab[t]]
  BY DEF DestroySession
<1>3. ASSUME NEW t \in Tables, tab[t].sid = s, tab[t].listed
      PROVE  /\ tab'[t] \in Table
             /\ tab'[t].sid = tab[t].sid /\ tab'[t].view = tab[t].view /\ ~tab'[t].listed
             /\ tab'[t].refs = tab[t].refs - 1
             /\ tab'[t].freed <=> tab[t].refs = 1 \/ tab[t].freed
  <2>1. tab'[t] = [Release(tab[t]) EXCEPT !.listed = FALSE]
    BY <1>2, <1>3
  <2>2. Release(tab[t]) \in Table
    BY <1>1, ReleaseEffect
  <2>3. tab'[t] \in Table /\ ~tab'[t].listed
        /\ tab'[t].sid = Release(tab[t]).sid /\ tab'[t].view = Release(tab[t]).view
        /\ tab'[t].refs = Release(tab[t]).refs /\ tab'[t].freed = Release(tab[t]).freed
    BY <2>1, <2>2 DEF Table
  <2> QED
    BY <1>1, <2>3, ReleaseEffect
<1>4. ASSUME NEW t \in Tables, ~(tab[t].sid = s /\ tab[t].listed)
      PROVE  tab'[t] = tab[t]
  BY <1>2, <1>4
<1>5. tab' \in [Tables -> Table]
  BY <1>1, <1>2, <1>3, <1>4
<1>6. \A t \in Tables : tab[t].listed \in BOOLEAN /\ tab'[t].listed \in BOOLEAN
  BY <1>1, <1>5 DEF Table
<1> QED
  BY <1>3, <1>4, <1>5, <1>6 DEF SameCount, SameRows

(* A table that is opened had no entry, and gets one. *)
LEMMA OpenEffect ==
  ASSUME TypeOK, ThreadInv, NEW p \in Threads, NEW t \in Tables, NEW v \in Views,
         OpenTable(p, t, v)
  PROVE  /\ tab' \in [Tables -> Table] /\ sid[p] \in Sids
         /\ \A u \in Tables : u # t => SameEntry(u) /\ SameCount(u) /\ SameRows(u)
         /\ tab'[t].sid = sid[p] /\ tab'[t].view = v /\ tab'[t].listed
         /\ tab'[t].refs = 1 /\ ~tab'[t].freed /\ ~tab'[t].populated
         /\ ~tab[t].listed /\ tab[t].refs = 0 /\ tab[t].sid = None
<1> DEFINE new == [Closed EXCEPT !.sid = sid[p], !.view = v, !.listed = TRUE, !.refs = 1]
<1>1. sid[p] \in Sids
  BY DEF OpenTable, ThreadInv, TypeOK
<1>2. new \in Table /\ new.sid = sid[p] /\ new.view = v /\ new.listed /\ new.refs = 1
      /\ ~new.freed /\ ~new.populated
  <2>1. Closed \in Table
    BY DEF Closed, Table
  <2> DEFINE r1 == [Closed EXCEPT !.sid = sid[p]]  r2 == [r1 EXCEPT !.view = v]
             r3 == [r2 EXCEPT !.listed = TRUE]
  <2>2. r1 \in Table
    BY <1>1, <2>1 DEF Table
  <2>3. r2 \in Table
    <3> HIDE DEF r1
    <3> QED
      BY <2>2 DEF Table
  <2>4. r3 \in Table
    <3> HIDE DEF r2
    <3> QED
      BY <2>3 DEF Table
  <2>5. [r3 EXCEPT !.refs = 1] \in Table
    <3> HIDE DEF r3
    <3> QED
      BY <2>4 DEF Table
  <2>6. new = [r3 EXCEPT !.refs = 1]
    BY <2>1 DEF Table
  <2>7. new \in Table
    BY <2>5, <2>6
  <2> QED
    BY <2>1, <2>7, ClosedFields DEF Table
<1> HIDE DEF new
<1>3. tab' = [tab EXCEPT ![t] = new] /\ tab[t] = Closed
  BY DEF OpenTable, new
<1>4. tab \in [Tables -> Table]
  BY TableType
<1>5. tab'[t] = new /\ \A u \in Tables : u # t => tab'[u] = tab[u]
  BY <1>3, <1>4
<1>6. tab' \in [Tables -> Table]
  BY <1>2, <1>3, <1>4
<1>7. ~tab[t].listed /\ tab[t].refs = 0 /\ tab[t].sid = None
  BY <1>3 DEF Closed
<1> QED
  BY <1>1, <1>2, <1>5, <1>6, <1>7 DEF SameEntry, SameCount, SameRows

(* A table that is used has one reference more. *)
LEMMA GetEffect ==
  ASSUME TypeOK, NEW p \in Threads, NEW t \in Tables, GetTable(p, t)
  PROVE  /\ tab' \in [Tables -> Table]
         /\ \A u \in Tables : SameEntry(u) /\ SameRows(u) /\ tab'[u].freed = tab[u].freed
         /\ \A u \in Tables : tab'[u].refs = IF u = t THEN tab[u].refs + 1 ELSE tab[u].refs
<1>1. tab \in [Tables -> Table]
  BY TableType
<1>2. tab' = [tab EXCEPT ![t] = [tab[t] EXCEPT !.refs = tab[t].refs + 1]]
  BY DEF GetTable
<1>3. tab[t] \in Table
  BY <1>1
<1> DEFINE new == [tab[t] EXCEPT !.refs = tab[t].refs + 1]
<1>4. new \in Table /\ new.refs = tab[t].refs + 1 /\ new.sid = tab[t].sid
      /\ new.view = tab[t].view /\ new.listed = tab[t].listed /\ new.freed = tab[t].freed
      /\ new.rows = tab[t].rows /\ new.populated = tab[t].populated
  BY <1>3 DEF Table
<1> HIDE DEF new
<1>5. tab'[t] = new /\ \A u \in Tables : u # t => tab'[u] = tab[u]
  BY <1>1, <1>2 DEF new
<1>6. tab' \in [Tables -> Table]
  BY <1>1, <1>2, <1>4 DEF new
<1> QED
  BY <1>4, <1>5, <1>6 DEF SameEntry, SameRows

(* A table that is closed is out of the list. *)
LEMMA CloseEffect ==
  ASSUME TypeOK, NEW p \in Threads, NEW t \in Tables, CloseTable(p, t)
  PROVE  /\ tab' \in [Tables -> Table]
         /\ \A u \in Tables : /\ tab'[u].sid = tab[u].sid /\ tab'[u].view = tab[u].view
                              /\ SameRows(u) /\ SameCount(u)
                              /\ u # t => SameEntry(u)
         /\ tab'[t].listed = FALSE
<1>1. tab \in [Tables -> Table]
  BY TableType
<1>2. tab' = [tab EXCEPT ![t] = [tab[t] EXCEPT !.listed = FALSE]]
  BY DEF CloseTable
<1>3. tab[t] \in Table
  BY <1>1
<1> DEFINE new == [tab[t] EXCEPT !.listed = FALSE]
<1>4. new \in Table /\ new.refs = tab[t].refs /\ new.sid = tab[t].sid
      /\ new.view = tab[t].view /\ new.listed = FALSE /\ new.freed = tab[t].freed
      /\ new.rows = tab[t].rows /\ new.populated = tab[t].populated
  BY <1>3 DEF Table
<1> HIDE DEF new
<1>5. tab'[t] = new /\ \A u \in Tables : u # t => tab'[u] = tab[u]
  BY <1>1, <1>2 DEF new
<1>6. tab' \in [Tables -> Table]
  BY <1>1, <1>2, <1>4 DEF new
<1> QED
  BY <1>4, <1>5, <1>6 DEF SameEntry, SameRows, SameCount

(* New rows of table t. *)
LEMMA RowsEffect ==
  ASSUME TypeOK, NEW t \in Tables, NEW R \in SUBSET Msgs, NEW b \in BOOLEAN,
         \/ tab' = [tab EXCEPT ![t].rows = R, ![t].populated = b]
         \/ tab' = [tab EXCEPT ![t].rows = R] /\ b = tab[t].populated
  PROVE  /\ tab' \in [Tables -> Table]
         /\ \A u \in Tables : SameEntry(u) /\ SameCount(u) /\ (u # t => SameRows(u))
         /\ tab'[t].rows = R /\ tab'[t].populated = b
<1>1. tab \in [Tables -> Table] /\ tab[t] \in Table
  BY TableType
<1> DEFINE new == [tab[t] EXCEPT !.rows = R, !.populated = b]
<1>2. new \in Table /\ new.refs = tab[t].refs /\ new.sid = tab[t].sid
      /\ new.view = tab[t].view /\ new.listed = tab[t].listed /\ new.freed = tab[t].freed
      /\ new.rows = R /\ new.populated = b
  BY <1>1 DEF Table
<1>3. CASE tab' = [tab EXCEPT ![t].rows = R, ![t].populated = b]
  <2>1. tab' = [tab EXCEPT ![t] = new]
    BY <1>3, <1>1
  <2> QED
    BY <1>1, <1>2, <2>1 DEF SameEntry, SameCount, SameRows
<1>4. CASE tab' = [tab EXCEPT ![t].rows = R] /\ b = tab[t].populated
  <2>1. [tab[t] EXCEPT !.rows = R] = new
    BY <1>1, <1>4 DEF Table
  <2>2. tab' = [tab EXCEPT ![t] = new]
    BY <1>4, <1>1, <2>1
  <2> QED
    BY <1>1, <1>2, <2>2 DEF SameEntry, SameCount, SameRows
<1> QED
  BY <1>3, <1>4

(* A reference is given back by a user of the table. *)
LEMMA GiveBackEffect ==
  ASSUME TypeOK, ThreadInv, NEW p \in Threads, ReleaseTable(p)
  PROVE  /\ tab' \in [Tables -> Table]
         /\ tbl[p] \in Tables /\ p \in Users(tbl[p])
         /\ \A u \in Tables : SameEntry(u) /\ tab'[u].populated = tab[u].populated
         /\ \A u \in Tables : u # tbl[p] => SameCount(u) /\ SameRows(u)
         /\ tab'[tbl[p]].refs = tab[tbl[p]].refs - 1
         /\ tab'[tbl[p]].freed <=> tab[tbl[p]].refs = 1 \/ tab[tbl[p]].freed
         /\ tab[tbl[p]].refs # 1 => SameRows(tbl[p])
<1>1. tbl[p] \in Tables /\ p \in Users(tbl[p])
  BY TableAssumption DEF ReleaseTable, ThreadInv, TypeOK, Users
<1>2. tab' = [tab EXCEPT ![tbl[p]] = Release(tab[tbl[p]])]
  BY DEF ReleaseTable
<1>3. tab \in [Tables -> Table]
  BY TableType
<1>4. tab[tbl[p]] \in Table
  BY <1>1, <1>3
<1>5. tab'[tbl[p]] = Release(tab[tbl[p]]) /\ \A t \in Tables : t # tbl[p] => tab'[t] = tab[t]
  BY <1>1, <1>2, <1>3
<1>6. Release(tab[tbl[p]]) \in Table
  BY <1>4, ReleaseEffect
<1>7. tab' \in [Tables -> Table]
  BY <1>1, <1>2, <1>3, <1>6
<1> QED
  BY <1>1, <1>4, <1>5, <1>7, ReleaseEffect DEF SameEntry, SameCount, SameRows

(* What the steps do that change rows: tables are loaded or updated.         *)
LEMMA FillEffect ==
  ASSUME TypeOK, ThreadInv, NEW p \in Threads
  PROVE  /\ PopulateRows(p) =>
              /\ tab' \in [Tables -> Table] /\ tbl[p] \in Tables
              /\ \A u \in Tables : /\ SameEntry(u) /\ SameCount(u)
                                   /\ u # tbl[p] => SameRows(u)
              /\ tab'[tbl[p]].rows = seen[p] /\ tab'[tbl[p]].populated = TRUE
         /\ ReloadRows(p) =>
              /\ tab' \in [Tables -> Table] /\ tbl[p] \in Tables
              /\ \A u \in Tables : /\ SameEntry(u) /\ SameCount(u)
                                   /\ u # tbl[p] => SameRows(u)
              /\ tab'[tbl[p]].rows = seen[p]
              /\ tab'[tbl[p]].populated = tab[tbl[p]].populated
         /\ \A t \in Tables : UpdateRows(p, t) =>
              /\ tab' \in [Tables -> Table]
              /\ \A u \in Tables : SameEntry(u) /\ SameCount(u) /\ (u # t => SameRows(u))
              /\ tab'[t].populated = tab[t].populated
              /\ tab'[t].rows = IF Head(todo[p]).type = "delete"
                                  THEN tab[t].rows \ {Head(todo[p]).msg}
                                  ELSE tab[t].rows \cup {Head(todo[p]).msg}
<1>1. tbl[p] # None => tbl[p] \in Tables
  BY DEF TypeOK
<1>2. seen[p] \in SUBSET Msgs
  BY DEF TypeOK
<1>3. ASSUME PopulateRows(p)
      PROVE  /\ tab' \in [Tables -> Table] /\ tbl[p] \in Tables
             /\ \A u \in Tables : /\ SameEntry(u) /\ SameCount(u)
                                  /\ u # tbl[p] => SameRows(u)
             /\ tab'[tbl[p]].rows = seen[p] /\ tab'[tbl[p]].populated = TRUE
  <2>1. tbl[p] \in Tables /\ tab' = [tab EXCEPT ![tbl[p]].rows = seen[p],
                                                ![tbl[p]].populated = TRUE]
    BY <1>1, <1>3 DEF PopulateRows, LoadRows, ThreadInv
  <2> QED
    BY <1>2, <2>1, RowsEffect
<1>4. ASSUME ReloadRows(p)
      PROVE  /\ tab' \in [Tables -> Table] /\ tbl[p] \in Tables
             /\ \A u \in Tables : /\ SameEntry(u) /\ SameCount(u)
                                  /\ u # tbl[p] => SameRows(u)
             /\ tab'[tbl[p]].rows = seen[p]
             /\ tab'[tbl[p]].populated = tab[tbl[p]].populated
  <2>1. tbl[p] \in Tables /\ tab' = [tab EXCEPT ![tbl[p]].rows = seen[p]]
    BY <1>1, <1>4 DEF ReloadRows, ThreadInv
  <2>2. tab[tbl[p]].populated \in BOOLEAN
    BY <2>1, TableType DEF Table
  <2> QED
    BY <1>2, <2>1, <2>2, RowsEffect
<1>5. ASSUME NEW t \in Tables, UpdateRows(p, t)
      PROVE  /\ tab' \in [Tables -> Table]
             /\ \A u \in Tables : SameEntry(u) /\ SameCount(u) /\ (u # t => SameRows(u))
             /\ tab'[t].populated = tab[t].populated
             /\ tab'[t].rows = IF Head(todo[p]).type = "delete"
                                 THEN tab[t].rows \ {Head(todo[p]).msg}
                                 ELSE tab[t].rows \cup {Head(todo[p]).msg}
  <2> DEFINE R == IF Head(todo[p]).type = "delete" THEN tab[t].rows \ {Head(todo[p]).msg}
                                                  ELSE tab[t].rows \cup {Head(todo[p]).msg}
  <2>1. todo[p] \in Seq(Updates) /\ todo[p] # <<>>
    BY <1>5 DEF UpdateRows, ThreadInv, TypeOK
  <2>2. Head(todo[p]) \in Updates
    BY <2>1, HeadTailProperties
  <2>3. tab[t].populated \in BOOLEAN /\ tab[t].rows \in SUBSET Msgs
    BY TableType DEF Table
  <2>4. R \in SUBSET Msgs
    BY <2>2, <2>3 DEF Updates
  <2>5. tab' = [tab EXCEPT ![t].rows = R]
    BY <1>5 DEF UpdateRows
  <2> HIDE DEF R
  <2>6. /\ tab' \in [Tables -> Table]
        /\ \A u \in Tables : SameEntry(u) /\ SameCount(u) /\ (u # t => SameRows(u))
        /\ tab'[t].populated = tab[t].populated /\ tab'[t].rows = R
    BY <2>3, <2>4, <2>5, RowsEffect
  <2> QED
    BY <2>6 DEF R
<1> QED
  BY <1>3, <1>4, <1>5

(* The table's invariant is inductive, with those of threads and references. *)
LEMMA TablesNext ==
  TypeOK /\ ThreadInv /\ HeldInv /\ TableInv /\ RefInv /\ [Next]_vars => TableInv'
<1> SUFFICES ASSUME TypeOK, ThreadInv, HeldInv, TableInv, RefInv, [Next]_vars
             PROVE  TableInv'
  OBVIOUS
<1> USE TableAssumption DEF TableInv, Goto, dbVars, tableVars, updateVars,
       SameEntry, SameCount
<1> tab \in [Tables -> Table]
    /\ tbl \in [Threads -> Tables \cup {None}] /\ sid \in [Threads -> Sids \cup {None}]
    /\ state \in [Sids -> {"live", "removed", "freed"}]
  BY TableType DEF TypeOK
<1> pc \in [Threads -> {"idle", "request", "opened", "got", "fill", "read", "closed",
                       "announce", "target", "lock", "update", "refill"}]
  BY DEF TypeOK
<1> \A q \in Threads :
      pc[q] \in {"got", "fill", "read", "closed"} => tbl[q] \in Tables /\ sid[q] \in Sids
  BY DEF ThreadInv
<1>1. ASSUME NEW s \in Sids, RemoveSession(s) PROVE TableInv'
  BY <1>1 DEF RemoveSession, ThreadInv
<1>2. ASSUME NEW s \in Sids, DestroySession(s) PROVE TableInv'
  <2>1. \A u \in Tables : /\ tab'[u].sid = tab[u].sid /\ tab'[u].view = tab[u].view
                          /\ tab'[u].listed <=> tab[u].listed /\ tab[u].sid # s
    BY <1>2, DestroyEffect
  <2>2. UNCHANGED <<sid, tbl, pc>> /\ \A x \in Sids : x # s => state'[x] = state[x]
    BY <1>2 DEF DestroySession
  <2>3. ASSUME NEW u \in Tables, tab[u].sid # s \/ ~tab[u].listed
        PROVE  SameCount(u)
    BY <1>2, <2>3, DestroyEffect
  <2>4. ASSUME NEW u \in Tables, tab[u].sid = s, tab[u].listed
        PROVE  tab'[u].freed <=> tab'[u].refs = 0
    <3>1. tab[u].refs \in Int /\ tab[u].refs # 0 /\ ~tab[u].freed
      BY <2>4, UsersFinite, TableType DEF RefInv, Table
    <3>2. tab'[u].refs = tab[u].refs - 1 /\ (tab'[u].freed <=> tab[u].refs = 1 \/ tab[u].freed)
      BY <1>2, <2>4, DestroyEffect
    <3> QED
      BY <3>1, <3>2
  <2>5. ASSUME NEW u \in Tables
        PROVE  \/ /\ tab'[u].sid = None /\ tab'[u].refs = 0
                  /\ ~tab'[u].listed /\ ~tab'[u].freed
               \/ /\ tab'[u].sid \in Sids /\ tab'[u].view \in Views
                  /\ tab'[u].freed <=> tab'[u].refs = 0
                  /\ tab'[u].listed => state'[tab'[u].sid] # "freed"
    <3>1. CASE tab[u].sid = s /\ tab[u].listed
      <4>1. tab[u].view \in Views
        BY <3>1
      <4>2. tab'[u].sid \in Sids /\ tab'[u].view \in Views /\ ~tab'[u].listed
        BY <2>1, <3>1, <4>1
      <4>3. tab'[u].freed <=> tab'[u].refs = 0
        BY <2>4, <3>1
      <4> QED
        BY <4>2, <4>3
    <3>2. CASE tab[u].sid # s \/ ~tab[u].listed
      BY <2>1, <2>2, <2>3, <3>2
    <3> QED
      BY <3>1, <3>2
  <2> QED
    BY <2>1, <2>2, <2>5
<1>3. ASSUME NEW p \in Threads, NEW s \in Sids, Begin(p, s) PROVE TableInv'
  BY <1>3 DEF Begin, ThreadInv
<1>4. ASSUME NEW p \in Threads, NEW t \in Tables,
             GetTable(p, t)
      PROVE  TableInv'
  <2>1. UNCHANGED <<state, sid>> /\ tab[t].sid = sid[p] /\ tab[t].listed /\ pc[p] = "request"
    BY <1>4 DEF GetTable
  <2>2. \A q \in Threads : q # p => pc'[q] = pc[q] /\ tbl'[q] = tbl[q]
    BY <1>4 DEF GetTable
  <2>3. pc'[p] = "got" /\ tbl'[p] = t
    BY <1>4 DEF GetTable
  <2>4. \A u \in Tables : SameEntry(u) /\ tab'[u].freed = tab[u].freed
          /\ tab'[u].refs = IF u = t THEN tab[u].refs + 1 ELSE tab[u].refs
    BY <1>4, GetEffect
  <2>5. tab[t].refs >= 1
    BY <2>1, UsersFinite DEF RefInv
  <2>6. tab[t].refs + 1 # 0 /\ tab[t].refs # 0 /\ tab[t].sid \in Sids
    BY <2>1, <2>5, TableType DEF Table
  <2> QED
    BY <2>1, <2>2, <2>3, <2>4, <2>6
<1>5. ASSUME NEW p \in Threads, NEW t \in Tables,
             CloseTable(p, t)
      PROVE  TableInv'
  BY <1>5, CloseEffect DEF CloseTable
<1>6. ASSUME NEW p \in Threads, NEW t \in Tables, NEW v \in Views,
             OpenTable(p, t, v)
      PROVE  TableInv'
  <2>1. UNCHANGED <<state, sid, tbl>> /\ state[sid[p]] # "freed" /\ pc[p] = "request"
    BY <1>6, OpenEffect DEF OpenTable, HeldInv
  <2>2. \A q \in Threads : q # p => pc'[q] = pc[q]
    BY <1>6 DEF OpenTable
  <2>3. pc'[p] = "opened"
    BY <1>6 DEF OpenTable
  <2>4. \A q \in Threads : pc[q] \in {"got", "fill", "read", "closed"} => tbl[q] # t
    BY <1>6, OpenEffect
  <2>5. \A u \in Tables : u # t => SameEntry(u) /\ SameCount(u)
    BY <1>6, OpenEffect
  <2>6. /\ tab'[t].sid \in Sids /\ tab'[t].sid = sid[p] /\ tab'[t].view = v
        /\ tab'[t].refs = 1 /\ ~tab'[t].freed
    BY <1>6, OpenEffect
  <2> QED
    BY <2>1, <2>2, <2>3, <2>4, <2>5, <2>6
<1>7. ASSUME NEW p \in Threads, NEW m \in Msgs, NEW v \in Views \cup {"gone"}, NEW us,
             Change(p, m, v, us)
      PROVE  TableInv'
  BY <1>7 DEF Change, Commit, ThreadInv
<1>8. ASSUME NEW p \in Threads, Populate(p) PROVE TableInv'
  BY <1>8 DEF Populate, Select, ThreadInv
<1>9. ASSUME NEW p \in Threads, PopulateRows(p) PROVE TableInv'
  <2>1. \A u \in Tables : SameEntry(u) /\ SameCount(u)
    BY <1>9, FillEffect
  <2>2. UNCHANGED <<state, sid, tbl>>
    BY <1>9 DEF PopulateRows
  <2>3. \A q \in Threads : pc'[q] \in {"got", "fill", "read", "closed"} =>
          pc[q] \in {"got", "fill", "read", "closed"}
    BY <1>9 DEF PopulateRows
  <2> QED
    BY <2>1, <2>2, <2>3
<1>10. ASSUME NEW p \in Threads, ReleaseTable(p) PROVE TableInv'
  <2> DEFINE t == tbl[p]
  <2>1. t \in Tables /\ \A u \in Tables : SameEntry(u) /\ (u # t => SameCount(u))
    BY <1>10, GiveBackEffect
  <2>2. UNCHANGED <<state, sid>> /\ pc[p] \in {"read", "closed"} /\ pc'[p] = "opened"
        /\ \A q \in Threads : q # p => pc'[q] = pc[q] /\ tbl'[q] = tbl[q]
    BY <1>10 DEF ReleaseTable
  <2>3. tab[t].sid \in Sids
    BY <2>1, <2>2
  <2>4. tab[t].refs \in Int /\ tab[t].refs # 0
    <3>1. Cardinality(Users(t)) # 0
      BY <1>10, GiveBackEffect, UsersFinite, FS_EmptySet
    <3> QED
      BY <2>1, <3>1, UsersFinite DEF RefInv
  <2>5. tab'[t].freed <=> tab'[t].refs = 0
    BY <1>10, <2>1, <2>3, <2>4, GiveBackEffect
  <2> QED
    BY <2>1, <2>2, <2>3, <2>5
<1>11. ASSUME NEW p \in Threads, EndRequest(p) PROVE TableInv'
  BY <1>11 DEF EndRequest, ThreadInv
<1>12. ASSUME NEW p \in Threads, FindSubscribers(p) PROVE TableInv'
  BY <1>12 DEF FindSubscribers, ThreadInv
<1>13. ASSUME NEW p \in Threads, LockList(p) PROVE TableInv'
  BY <1>13 DEF LockList, ThreadInv
<1>14. ASSUME NEW p \in Threads, ReloadRows(p) PROVE TableInv'
  BY <1>14, FillEffect DEF ReloadRows
<1>15. ASSUME NEW p \in Threads, UnlockTarget(p) PROVE TableInv'
  BY <1>15 DEF UnlockTarget, ThreadInv
<1>16. ASSUME NEW p \in Threads, NextUpdate(p) PROVE TableInv'
  BY <1>16 DEF NextUpdate, ThreadInv
<1>17. ASSUME NEW p \in Threads, NEW s \in Sids,
             LockTarget(p, s)
      PROVE  TableInv'
  BY <1>17 DEF LockTarget, ThreadInv
<1>18. ASSUME NEW p \in Threads, NEW t \in Tables,
             UpdateRows(p, t)
      PROVE  TableInv'
  BY <1>18, FillEffect DEF UpdateRows
<1>19. ASSUME NEW p \in Threads, NEW t \in Tables,
             Reload(p, t)
      PROVE  TableInv'
  BY <1>19 DEF Reload, Select, ThreadInv
<1>20. CASE UNCHANGED vars
  BY <1>20 DEF vars, ThreadInv
<1> QED
  BY <1>1, <1>2, <1>3, <1>4, <1>5, <1>6, <1>7, <1>8, <1>9, <1>10, <1>11,
     <1>12, <1>13, <1>14, <1>15, <1>16, <1>17, <1>18, <1>19, <1>20, StepCases

-----------------------------------------------------------------------------
(* References. *)

(* The count is right where neither users nor references change. *)
LEMMA SameRefsKeep ==
  ASSUME RefInv,
         \A u \in Tables : /\ Users(u)' = Users(u)
                           /\ tab'[u].refs = tab[u].refs
                           /\ tab'[u].listed <=> tab[u].listed
  PROVE  RefInv'
  BY DEF RefInv

(* A thread starts to use a table, or is done with it. *)
LEMMA UsersCount ==
  ASSUME NEW t \in Tables, NEW p \in Threads
  PROVE  /\ p \notin Users(t) /\ Users(t)' = Users(t) \cup {p} =>
              Cardinality(Users(t)') = Cardinality(Users(t)) + 1
         /\ p \in Users(t) /\ Users(t)' = Users(t) \ {p} =>
              Cardinality(Users(t)') = Cardinality(Users(t)) - 1
<1>1. IsFiniteSet(Users(t))
  BY UsersFinite
<1>2. ASSUME p \notin Users(t), Users(t)' = Users(t) \cup {p}
      PROVE  Cardinality(Users(t)') = Cardinality(Users(t)) + 1
  BY <1>1, <1>2, FS_AddElement
<1>3. ASSUME p \in Users(t), Users(t)' = Users(t) \ {p}
      PROVE  Cardinality(Users(t)') = Cardinality(Users(t)) - 1
  BY <1>1, <1>3, FS_RemoveElement
<1> QED
  BY <1>2, <1>3

(* Every step counts the references it takes and gives back.                 *)
LEMMA RefsNext ==
  TypeOK /\ ThreadInv /\ RefInv /\ [Next]_vars => RefInv'
<1> SUFFICES ASSUME TypeOK, ThreadInv, RefInv, [Next]_vars
             PROVE  RefInv'
  OBVIOUS
<1> USE TableAssumption DEF Goto, dbVars, tableVars, updateVars, SameEntry, SameCount
<1>0. /\ tab \in [Tables -> Table]
         /\ tbl \in [Threads -> Tables \cup {None}]
         /\ pc \in [Threads -> {"idle", "request", "opened", "got", "fill", "read", "closed",
                                "announce", "target", "lock", "update", "refill"}]
  BY TableType DEF TypeOK
<1>1. ASSUME NEW s \in Sids, RemoveSession(s) PROVE RefInv'
  <2>1. \A u \in Tables : Users(u)' = Users(u)
    BY <1>0, <1>1 DEF RemoveSession, Users
  <2>2. UNCHANGED tab
    BY <1>1 DEF RemoveSession
  <2> QED
    BY <2>1, <2>2, SameRefsKeep
<1>2. ASSUME NEW s \in Sids, DestroySession(s) PROVE RefInv'
  <2>1. \A u \in Tables : Users(u)' = Users(u)
    BY <1>2 DEF DestroySession, Users
  <2>2. \A u \in Tables : /\ tab'[u].listed <=> tab[u].listed /\ tab[u].sid # s
                          /\ tab[u].sid # s \/ ~tab[u].listed => tab'[u].refs = tab[u].refs
                          /\ tab[u].sid = s /\ tab[u].listed => tab'[u].refs = tab[u].refs - 1
    BY <1>2, DestroyEffect
  <2>3. \A u \in Tables : Cardinality(Users(u)) \in Int
    BY UsersFinite
  <2> QED
    BY <2>1, <2>2, <2>3 DEF RefInv
<1>3. ASSUME NEW p \in Threads, NEW s \in Sids, Begin(p, s) PROVE RefInv'
  <2>1. \A u \in Tables : Users(u)' = Users(u)
    BY <1>0, <1>3 DEF Begin, Users
  <2>2. UNCHANGED tab
    BY <1>3 DEF Begin
  <2> QED
    BY <2>1, <2>2, SameRefsKeep
<1>4. ASSUME NEW p \in Threads, NEW t \in Tables,
             GetTable(p, t)
      PROVE  RefInv'
  <2>1. pc[p] = "request" /\ pc' = [pc EXCEPT ![p] = "got"] /\ tbl' = [tbl EXCEPT ![p] = t]
    BY <1>4 DEF GetTable
  <2>2. p \notin Users(t) /\ Users(t)' = Users(t) \cup {p}
        /\ \A u \in Tables : u # t => Users(u)' = Users(u)
    BY <1>0, <2>1 DEF Users
  <2>3. Cardinality(Users(t)') = Cardinality(Users(t)) + 1
    BY <2>2, UsersCount
  <2>4. \A u \in Tables : /\ tab'[u].listed <=> tab[u].listed
                          /\ tab'[u].refs = IF u = t THEN tab[u].refs + 1 ELSE tab[u].refs
    BY <1>4, GetEffect
  <2>5. \A u \in Tables : Cardinality(Users(u)) \in Int
    BY UsersFinite
  <2>6. ASSUME NEW u \in Tables
        PROVE  tab'[u].refs = Cardinality(Users(u)') + (IF tab'[u].listed THEN 1 ELSE 0)
    <3>1. tab[u].refs = Cardinality(Users(u)) + (IF tab[u].listed THEN 1 ELSE 0)
      BY DEF RefInv
    <3>2. CASE u = t
      BY <2>3, <2>4, <2>5, <3>1, <3>2
    <3>3. CASE u # t
      BY <2>2, <2>4, <2>5, <3>1, <3>3
    <3> QED
      BY <3>2, <3>3
  <2> QED
    BY <2>6 DEF RefInv
<1>5. ASSUME NEW p \in Threads, NEW t \in Tables,
             CloseTable(p, t)
      PROVE  RefInv'
  <2>1. /\ pc[p] = "request" /\ pc' = [pc EXCEPT ![p] = "closed"] /\ tbl' = [tbl EXCEPT ![p] = t]
        /\ tab[t].listed
    BY <1>5 DEF CloseTable
  <2>2. p \notin Users(t) /\ Users(t)' = Users(t) \cup {p}
        /\ \A u \in Tables : u # t => Users(u)' = Users(u)
    BY <1>0, <2>1 DEF Users
  <2>3. Cardinality(Users(t)') = Cardinality(Users(t)) + 1
    BY <2>2, UsersCount
  <2>4. /\ ~tab'[t].listed
        /\ \A u \in Tables : /\ u # t => (tab'[u].listed <=> tab[u].listed)
                             /\ tab'[u].refs = tab[u].refs
    BY <1>5, CloseEffect
  <2>5. \A u \in Tables : Cardinality(Users(u)) \in Int
    BY UsersFinite
  <2> QED
    BY <2>1, <2>2, <2>3, <2>4, <2>5 DEF RefInv
<1>6. ASSUME NEW p \in Threads, NEW t \in Tables, NEW v \in Views,
             OpenTable(p, t, v)
      PROVE  RefInv'
  <2>1. \A u \in Tables : Users(u)' = Users(u)
    BY <1>0, <1>6 DEF OpenTable, Users
  <2>2. /\ tab'[t].listed /\ ~tab[t].listed /\ tab'[t].refs = 1 /\ tab[t].refs = 0
        /\ \A u \in Tables : u # t => /\ tab'[u].listed <=> tab[u].listed
                                      /\ tab'[u].refs = tab[u].refs
    BY <1>6, OpenEffect
  <2>3. \A u \in Tables : Cardinality(Users(u)) \in Int
    BY UsersFinite
  <2> QED
    BY <2>1, <2>2, <2>3 DEF RefInv
<1>7. ASSUME NEW p \in Threads, NEW m \in Msgs, NEW v \in Views \cup {"gone"}, NEW us,
             Change(p, m, v, us)
      PROVE  RefInv'
  <2>1. \A u \in Tables : Users(u)' = Users(u)
    BY <1>0, <1>7 DEF Change, Commit, Users
  <2>2. UNCHANGED tab
    BY <1>7 DEF Change, Commit
  <2> QED
    BY <2>1, <2>2, SameRefsKeep
<1>8. ASSUME NEW p \in Threads, Populate(p) PROVE RefInv'
  <2>1. \A u \in Tables : Users(u)' = Users(u)
    BY <1>0, <1>8 DEF Populate, Select, Users
  <2>2. UNCHANGED tab
    BY <1>8 DEF Populate, Select
  <2> QED
    BY <2>1, <2>2, SameRefsKeep
<1>9. ASSUME NEW p \in Threads, PopulateRows(p) PROVE RefInv'
  <2>1. \A u \in Tables : Users(u)' = Users(u)
    BY <1>0, <1>9 DEF PopulateRows, LoadRows, Users
  <2>2. \A u \in Tables : tab'[u].refs = tab[u].refs /\ (tab'[u].listed <=> tab[u].listed)
    BY <1>9, FillEffect
  <2> QED
    BY <2>1, <2>2, SameRefsKeep
<1>10. ASSUME NEW p \in Threads, ReleaseTable(p) PROVE RefInv'
  <2>0. PICK t \in Tables : t = tbl[p]
    BY <1>10, GiveBackEffect
  <2>1. /\ pc[p] \in {"read", "closed"} /\ pc' = [pc EXCEPT ![p] = "opened"]
        /\ tbl' = [tbl EXCEPT ![p] = None] /\ p \in Users(t)
    BY <1>10, <2>0, GiveBackEffect DEF ReleaseTable
  <2>2. Users(t)' = Users(t) \ {p} /\ \A u \in Tables : u # t => Users(u)' = Users(u)
    BY <1>0, <2>0, <2>1 DEF Users
  <2>3. Cardinality(Users(t)') = Cardinality(Users(t)) - 1
    BY <2>1, <2>2, UsersCount
  <2>4. /\ tab'[t].refs = tab[t].refs - 1
        /\ \A u \in Tables : /\ tab'[u].listed <=> tab[u].listed
                             /\ u # t => tab'[u].refs = tab[u].refs
    BY <1>10, <2>0, GiveBackEffect
  <2>5. \A u \in Tables : Cardinality(Users(u)) \in Int
    BY UsersFinite
  <2>6. ASSUME NEW u \in Tables
        PROVE  tab'[u].refs = Cardinality(Users(u)') + (IF tab'[u].listed THEN 1 ELSE 0)
    <3>1. tab[u].refs = Cardinality(Users(u)) + (IF tab[u].listed THEN 1 ELSE 0)
      BY DEF RefInv
    <3>2. CASE u = t
      BY <2>3, <2>4, <2>5, <3>1, <3>2
    <3>3. CASE u # t
      BY <2>2, <2>4, <2>5, <3>1, <3>3
    <3> QED
      BY <3>2, <3>3
  <2> QED
    BY <2>6 DEF RefInv
<1>11. ASSUME NEW p \in Threads, EndRequest(p) PROVE RefInv'
  <2>1. \A u \in Tables : Users(u)' = Users(u)
    BY <1>0, <1>11 DEF EndRequest, Users
  <2>2. UNCHANGED tab
    BY <1>11 DEF EndRequest
  <2> QED
    BY <2>1, <2>2, SameRefsKeep
<1>12. ASSUME NEW p \in Threads, FindSubscribers(p) PROVE RefInv'
  <2>1. \A u \in Tables : Users(u)' = Users(u)
    BY <1>0, <1>12 DEF FindSubscribers, Users
  <2>2. UNCHANGED tab
    BY <1>12 DEF FindSubscribers
  <2> QED
    BY <2>1, <2>2, SameRefsKeep
<1>13. ASSUME NEW p \in Threads, LockList(p) PROVE RefInv'
  <2>1. \A u \in Tables : Users(u)' = Users(u)
    BY <1>0, <1>13 DEF LockList, Users
  <2>2. UNCHANGED tab
    BY <1>13 DEF LockList
  <2> QED
    BY <2>1, <2>2, SameRefsKeep
<1>14. ASSUME NEW p \in Threads, ReloadRows(p) PROVE RefInv'
  <2>1. \A u \in Tables : Users(u)' = Users(u)
    BY <1>0, <1>14 DEF ReloadRows, Users
  <2>2. \A u \in Tables : tab'[u].refs = tab[u].refs /\ (tab'[u].listed <=> tab[u].listed)
    BY <1>14, FillEffect
  <2> QED
    BY <2>1, <2>2, SameRefsKeep
<1>15. ASSUME NEW p \in Threads, UnlockTarget(p) PROVE RefInv'
  <2>1. \A u \in Tables : Users(u)' = Users(u)
    BY <1>0, <1>15 DEF UnlockTarget, Users
  <2>2. UNCHANGED tab
    BY <1>15 DEF UnlockTarget
  <2> QED
    BY <2>1, <2>2, SameRefsKeep
<1>16. ASSUME NEW p \in Threads, NextUpdate(p) PROVE RefInv'
  <2>1. \A u \in Tables : Users(u)' = Users(u)
    BY <1>0, <1>16 DEF NextUpdate, Users
  <2>2. UNCHANGED tab
    BY <1>16 DEF NextUpdate
  <2> QED
    BY <2>1, <2>2, SameRefsKeep
<1>17. ASSUME NEW p \in Threads, NEW s \in Sids,
             LockTarget(p, s)
      PROVE  RefInv'
  <2>1. \A u \in Tables : Users(u)' = Users(u)
    BY <1>0, <1>17 DEF LockTarget, Users
  <2>2. UNCHANGED tab
    BY <1>17 DEF LockTarget
  <2> QED
    BY <2>1, <2>2, SameRefsKeep
<1>18. ASSUME NEW p \in Threads, NEW t \in Tables,
             UpdateRows(p, t)
      PROVE  RefInv'
  <2>1. \A u \in Tables : Users(u)' = Users(u)
    BY <1>0, <1>18 DEF UpdateRows, Users
  <2>2. \A u \in Tables : tab'[u].refs = tab[u].refs /\ (tab'[u].listed <=> tab[u].listed)
    BY <1>18, FillEffect
  <2> QED
    BY <2>1, <2>2, SameRefsKeep
<1>19. ASSUME NEW p \in Threads, NEW t \in Tables, Reload(p, t) PROVE RefInv'
  <2>1. \A u \in Tables : Users(u)' = Users(u)
    BY <1>0, <1>19 DEF Reload, Select, Users
  <2>2. UNCHANGED tab
    BY <1>19 DEF Reload, Select
  <2> QED
    BY <2>1, <2>2, SameRefsKeep
<1>20. CASE UNCHANGED vars
  <2>1. \A u \in Tables : Users(u)' = Users(u)
    BY <1>20 DEF vars, Users
  <2> QED
    BY <1>20, <2>1, SameRefsKeep DEF vars
<1> QED
  BY <1>1, <1>2, <1>3, <1>4, <1>5, <1>6, <1>7, <1>8, <1>9, <1>10, <1>11,
     <1>12, <1>13, <1>14, <1>15, <1>16, <1>17, <1>18, <1>19, <1>20, StepCases

(* The list stays locked while UpdateTables works on it: no table it has     *)
(* still to update is closed meanwhile.                                      *)
LEMMA LeftNext ==
  TypeOK /\ ThreadInv /\ LockInv /\ LeftInv /\ [Next]_vars => LeftInv'
<1> SUFFICES ASSUME TypeOK, ThreadInv, LockInv, LeftInv, [Next]_vars
             PROVE  LeftInv'
  OBVIOUS
<1> USE TableAssumption DEF ThreadInv, LeftInv, Goto, dbVars, tableVars, updateVars,
       SameEntry
<1>0. /\ tab \in [Tables -> Table]
      /\ tbl \in [Threads -> Tables \cup {None}] /\ upd \in [Threads -> Sids \cup {None}]
      /\ left \in [Threads -> SUBSET Tables] /\ todo \in [Threads -> Seq(Updates)]
      /\ pc \in [Threads -> {"idle", "request", "opened", "got", "fill", "read", "closed",
                             "announce", "target", "lock", "update", "refill"}]
  BY TableType DEF TypeOK
<1>99. \A q \in Threads : /\ left[q] \subseteq Tables
                          /\ pc[q] = "refill" => tbl[q] \in Tables
  BY <1>0
<1>1. ASSUME NEW s \in Sids, RemoveSession(s) PROVE LeftInv'
  BY <1>0, <1>99, <1>1 DEF RemoveSession
<1>2. ASSUME NEW s \in Sids, DestroySession(s) PROVE LeftInv'
  <2>1. \A u \in Tables : tab[u].sid # s => SameEntry(u)
    BY <1>2, DestroyEffect
  <2>2. \A q \in Threads : pc[q] \in {"update", "refill"} => upd[q] # s
    BY <1>2 DEF DestroySession, LockInv
  <2>3. UNCHANGED <<pc, tbl, upd, left, todo>>
    BY <1>2 DEF DestroySession
  <2> QED
    BY <1>99, <2>1, <2>2, <2>3
<1>3. ASSUME NEW p \in Threads, NEW s \in Sids, Begin(p, s) PROVE LeftInv'
  BY <1>0, <1>99, <1>3 DEF Begin
<1>4. ASSUME NEW p \in Threads, NEW t \in Tables,
             GetTable(p, t)
      PROVE  LeftInv'
  <2>1. \A u \in Tables : SameEntry(u)
    BY <1>4, GetEffect
  <2> QED
    BY <1>0, <1>99, <1>4, <2>1 DEF GetTable
<1>5. ASSUME NEW p \in Threads, NEW t \in Tables,
             CloseTable(p, t)
      PROVE  LeftInv'
  <2>1. \A u \in Tables : u # t => SameEntry(u)
    BY <1>5, CloseEffect
  <2>2. listMutex[sid[p]] = None /\ tab[t].sid = sid[p] /\ sid[p] \in Sids
    BY <1>5 DEF CloseTable, TypeOK
  <2>3. \A q \in Threads : pc[q] \in {"update", "refill"} => upd[q] # tab[t].sid
    BY <2>2 DEF LockInv
  <2>4. UNCHANGED <<upd, left, todo>> /\ pc' = [pc EXCEPT ![p] = "closed"]
        /\ \A q \in Threads : pc[q] = "refill" => tbl'[q] = tbl[q]
    BY <1>0, <1>5 DEF CloseTable
  <2>5. \A q \in Threads : /\ t \notin left[q]
                           /\ pc[q] = "refill" => tbl[q] # t
    BY <2>3
  <2>6. \A q \in Threads : /\ pc'[q] = "refill" => pc[q] = "refill" /\ tbl'[q] = tbl[q]
                           /\ left'[q] = left[q] /\ todo'[q] = todo[q] /\ upd'[q] = upd[q]
    BY <1>0, <2>4
  <2> QED
    BY <1>99, <2>1, <2>5, <2>6
<1>6. ASSUME NEW p \in Threads, NEW t \in Tables, NEW v \in Views,
             OpenTable(p, t, v)
      PROVE  LeftInv'
  <2>1. \A u \in Tables : u # t => SameEntry(u)
    BY <1>6, OpenEffect
  <2>2. ~tab[t].listed
    BY <1>6, OpenEffect
  <2>3. \A q \in Threads : /\ t \notin left[q]
                           /\ pc[q] = "refill" => tbl[q] # t
    BY <2>2
  <2>4. UNCHANGED <<tbl, upd, left, todo>> /\ pc' = [pc EXCEPT ![p] = "opened"]
    BY <1>6 DEF OpenTable
  <2>5. \A q \in Threads : /\ pc'[q] = "refill" => pc[q] = "refill" /\ tbl'[q] = tbl[q]
                           /\ left'[q] = left[q] /\ todo'[q] = todo[q] /\ upd'[q] = upd[q]
    BY <1>0, <2>4
  <2> QED
    BY <1>99, <2>1, <2>3, <2>5
<1>7. ASSUME NEW p \in Threads, NEW m \in Msgs, NEW v \in Views \cup {"gone"}, NEW us,
             Change(p, m, v, us)
      PROVE  LeftInv'
  BY <1>0, <1>99, <1>7 DEF Change, Commit
<1>8. ASSUME NEW p \in Threads, Populate(p) PROVE LeftInv'
  BY <1>0, <1>99, <1>8 DEF Populate, Select
<1>9. ASSUME NEW p \in Threads, PopulateRows(p) PROVE LeftInv'
  <2>1. \A u \in Tables : SameEntry(u)
    BY <1>9, FillEffect
  <2> QED
    BY <1>0, <1>99, <1>9, <2>1 DEF PopulateRows, LoadRows
<1>10. ASSUME NEW p \in Threads, ReleaseTable(p) PROVE LeftInv'
  <2>1. \A u \in Tables : SameEntry(u)
    BY <1>10, GiveBackEffect
  <2> QED
    BY <1>0, <1>99, <1>10, <2>1 DEF ReleaseTable
<1>11. ASSUME NEW p \in Threads, EndRequest(p) PROVE LeftInv'
  BY <1>0, <1>99, <1>11 DEF EndRequest
<1>12. ASSUME NEW p \in Threads, FindSubscribers(p) PROVE LeftInv'
  BY <1>0, <1>99, <1>12 DEF FindSubscribers
<1>13. ASSUME NEW p \in Threads, LockList(p) PROVE LeftInv'
  BY <1>0, <1>99, <1>13 DEF LockList
<1>14. ASSUME NEW p \in Threads, ReloadRows(p) PROVE LeftInv'
  <2>1. \A u \in Tables : SameEntry(u)
    BY <1>14, FillEffect
  <2> QED
    BY <1>0, <1>99, <1>14, <2>1 DEF ReloadRows
<1>15. ASSUME NEW p \in Threads, UnlockTarget(p) PROVE LeftInv'
  BY <1>0, <1>99, <1>15 DEF UnlockTarget
<1>16. ASSUME NEW p \in Threads, NextUpdate(p) PROVE LeftInv'
  <2>1. UNCHANGED <<tab, tbl, upd, left>> /\ pc[p] = "target" /\ pc'[p] # "refill"
        /\ \A q \in Threads : q # p => todo'[q] = todo[q] /\ pc'[q] = pc[q]
    BY <1>0, <1>16 DEF NextUpdate
  <2>2. left[p] = {}
    BY <2>1
  <2> QED
    BY <1>99, <2>1, <2>2
<1>17. ASSUME NEW p \in Threads, NEW s \in Sids,
             LockTarget(p, s)
      PROVE  LeftInv'
  <2>1. UNCHANGED <<tab, tbl, left, todo>> /\ pc[p] = "target" /\ pc'[p] # "refill"
        /\ \A q \in Threads : q # p => upd'[q] = upd[q] /\ pc'[q] = pc[q]
    BY <1>0, <1>17 DEF LockTarget
  <2>2. left[p] = {}
    BY <2>1
  <2> QED
    BY <1>99, <2>1, <2>2
<1>18. ASSUME NEW p \in Threads, NEW t \in Tables,
             UpdateRows(p, t)
      PROVE  LeftInv'
  <2>1. \A u \in Tables : SameEntry(u)
    BY <1>18, FillEffect
  <2> QED
    BY <1>0, <1>99, <1>18, <2>1 DEF UpdateRows
<1>19. ASSUME NEW p \in Threads, NEW t \in Tables,
             Reload(p, t)
      PROVE  LeftInv'
  BY <1>0, <1>99, <1>19 DEF Reload, Select
<1>20. CASE UNCHANGED vars
  BY <1>0, <1>99, <1>20 DEF vars
<1> QED
  BY <1>1, <1>2, <1>3, <1>4, <1>5, <1>6, <1>7, <1>8, <1>9, <1>10, <1>11,
     <1>12, <1>13, <1>14, <1>15, <1>16, <1>17, <1>18, <1>19, <1>20, StepCases

-----------------------------------------------------------------------------
(* Subscriptions. *)

(* The tables of session s in the list that show view v. *)
Open(v, s) == {t \in Tables : tab[t].sid = s /\ tab[t].listed /\ tab[t].view = v}

(* The session manager counts the open tables of each session. *)
SubsInv == \A v \in Views, s \in Sids : subs[<<v, s>>] = Cardinality(Open(v, s))

(* There are finitely many. *)
LEMMA OpenFinite ==
  ASSUME NEW v, NEW s
  PROVE  /\ IsFiniteSet(Open(v, s)) /\ IsFiniteSet(Open(v, s)')
         /\ Cardinality(Open(v, s)) \in 0..Cardinality(Tables)
         /\ Cardinality(Open(v, s)') \in 0..Cardinality(Tables)
<1>1. Open(v, s) \in SUBSET Tables /\ Open(v, s)' \in SUBSET Tables
  BY DEF Open
<1>2. /\ IsFiniteSet(Open(v, s)) /\ Cardinality(Open(v, s)) <= Cardinality(Tables)
      /\ IsFiniteSet(Open(v, s)') /\ Cardinality(Open(v, s)') <= Cardinality(Tables)
  BY <1>1, FS_Subset, TableAssumption
<1> QED
  BY <1>2, FS_CardinalityType, TableAssumption

(* Unlisting some tables of a session subtracts them. *)
LEMMA UnlistEffect ==
  ASSUME NEW s, NEW ts, Unlist(s, ts), NEW v \in Views, NEW u \in Sids
  PROVE  subs'[<<v, u>>] = IF u = s
           THEN subs[<<v, u>>] - Cardinality({t \in ts : tab[t].view = v})
           ELSE subs[<<v, u>>]
<1>1. <<v, u>> \in Views \X Sids /\ <<v, u>>[1] = v /\ <<v, u>>[2] = u
  OBVIOUS
<1> QED
  BY <1>1 DEF Unlist

(* The subscriptions are right where neither they nor the list change.       *)
LEMMA SameSubsKeep ==
  ASSUME SubsInv, UNCHANGED subs, \A u \in Tables : SameEntry(u)
  PROVE  SubsInv'
<1>1. \A v \in Views, s \in Sids : Open(v, s)' = Open(v, s)
  BY DEF Open, SameEntry
<1> QED
  BY <1>1 DEF SubsInv

(* Every step that opens or closes tables subscribes or unsubscribes them.   *)
LEMMA SubsNext ==
  TypeOK /\ ThreadInv /\ SubsInv /\ [Next]_vars => SubsInv'
<1> SUFFICES ASSUME TypeOK, ThreadInv, SubsInv, [Next]_vars
             PROVE  SubsInv'
  OBVIOUS
<1> USE TableAssumption DEF dbVars, tableVars, updateVars
<1>1. ASSUME NEW s \in Sids, RemoveSession(s) PROVE SubsInv'
  BY <1>1, SameSubsKeep DEF RemoveSession, SameEntry
<1>2. ASSUME NEW s \in Sids, DestroySession(s) PROVE SubsInv'
  <2> DEFINE ts == {u \in Tables : tab[u].sid = s /\ tab[u].listed}
  <2>1. Unlist(s, ts)
    BY <1>2 DEF DestroySession
  <2>2. \A u \in Tables : /\ tab'[u].sid = tab[u].sid /\ tab'[u].view = tab[u].view
                          /\ tab'[u].listed <=> tab[u].listed /\ tab[u].sid # s
    BY <1>2, DestroyEffect
  <2>3. ASSUME NEW w \in Views, NEW x \in Sids
        PROVE  subs'[<<w, x>>] = Cardinality(Open(w, x)')
    <3>1. subs'[<<w, x>>] = IF x = s
            THEN subs[<<w, x>>] - Cardinality({u \in ts : tab[u].view = w})
            ELSE subs[<<w, x>>]
      <4> HIDE DEF ts
      <4> QED
        BY <2>1, UnlistEffect
    <3>2. CASE x = s
      <4>1. {u \in ts : tab[u].view = w} = Open(w, x)
        BY <3>2 DEF Open
      <4>2. Open(w, x)' = {}
        BY <2>2, <3>2 DEF Open
      <4>3. Cardinality(Open(w, x)') = 0
        BY <4>2, FS_EmptySet
      <4>4. Cardinality({u \in ts : tab[u].view = w}) = Cardinality(Open(w, x))
        BY <4>1
      <4>5. subs[<<w, x>>] = Cardinality(Open(w, x)) /\ Cardinality(Open(w, x)) \in Int
        BY OpenFinite DEF SubsInv
      <4> HIDE DEF ts
      <4> QED
        BY <3>1, <3>2, <4>3, <4>4, <4>5
    <3>3. CASE x # s
      <4>1. Open(w, x)' = Open(w, x)
        BY <2>2, <3>3 DEF Open
      <4> QED
        BY <3>1, <3>3, <4>1 DEF SubsInv
    <3> QED
      BY <3>2, <3>3
  <2> QED
    BY <2>3 DEF SubsInv
<1>3. ASSUME NEW p \in Threads, NEW s \in Sids, Begin(p, s) PROVE SubsInv'
  BY <1>3, SameSubsKeep DEF Begin, SameEntry
<1>4. ASSUME NEW p \in Threads, NEW t \in Tables,
             GetTable(p, t)
      PROVE  SubsInv'
  BY <1>4, GetEffect, SameSubsKeep DEF GetTable
<1>5. ASSUME NEW p \in Threads, NEW t \in Tables,
             CloseTable(p, t)
      PROVE  SubsInv'
  <2>1. /\ ~tab'[t].listed /\ tab[t].listed /\ tab[t].sid = sid[p]
        /\ \A u \in Tables : u # t => SameEntry(u)
    BY <1>5, CloseEffect DEF CloseTable
  <2>2. Unlist(sid[p], {t})
    BY <1>5 DEF CloseTable
  <2>3. ASSUME NEW w \in Views, NEW s \in Sids
        PROVE  subs'[<<w, s>>] = Cardinality(Open(w, s)')
    <3>1. subs'[<<w, s>>] = IF s = sid[p]
            THEN subs[<<w, s>>] - Cardinality({u \in {t} : tab[u].view = w})
            ELSE subs[<<w, s>>]
      BY <2>2, UnlistEffect
    <3>2. CASE s = sid[p] /\ tab[t].view = w
      <4>1. t \in Open(w, s) /\ Open(w, s)' = Open(w, s) \ {t}
        BY <2>1, <3>2 DEF Open, SameEntry
      <4>2. Cardinality(Open(w, s)') = Cardinality(Open(w, s)) - 1
        BY <4>1, OpenFinite, FS_RemoveElement
      <4>3. {u \in {t} : tab[u].view = w} = {t} /\ Cardinality({t}) = 1
        BY <3>2, FS_Singleton
      <4> QED
        BY <3>1, <3>2, <4>2, <4>3 DEF SubsInv
    <3>3. CASE s = sid[p] /\ tab[t].view # w
      <4>1. Open(w, s)' = Open(w, s)
        BY <2>1, <3>3 DEF Open, SameEntry
      <4>2. {u \in {t} : tab[u].view = w} = {} /\ Cardinality({}) = 0
        BY <3>3, FS_EmptySet
      <4>3. Cardinality({u \in {t} : tab[u].view = w}) = 0
        BY <4>2
      <4>4. subs[<<w, s>>] = Cardinality(Open(w, s)) /\ Cardinality(Open(w, s)) \in Int
        BY OpenFinite DEF SubsInv
      <4> QED
        BY <3>1, <3>3, <4>1, <4>3, <4>4
    <3>4. CASE s # sid[p]
      <4>1. Open(w, s)' = Open(w, s)
        BY <2>1, <3>4 DEF Open, SameEntry
      <4> QED
        BY <3>1, <3>4, <4>1 DEF SubsInv
    <3> QED
      BY <3>2, <3>3, <3>4
  <2> QED
    BY <2>3 DEF SubsInv
<1>6. ASSUME NEW p \in Threads, NEW t \in Tables, NEW v \in Views,
             OpenTable(p, t, v)
      PROVE  SubsInv'
  <2>1. /\ tab'[t].sid = sid[p] /\ tab'[t].view = v /\ tab'[t].listed /\ ~tab[t].listed
        /\ \A u \in Tables : u # t => SameEntry(u)
    BY <1>6, OpenEffect
  <2>2. sid[p] \in Sids /\ subs \in [Views \X Sids -> 0..Cardinality(Tables)]
    BY <1>6, OpenEffect DEF TypeOK
  <2>3. \A w \in Views, s \in Sids :
          subs'[<<w, s>>] = IF w = v /\ s = sid[p] THEN subs[<<w, s>>] + 1 ELSE subs[<<w, s>>]
    BY <1>6, <2>2 DEF OpenTable
  <2>4. ASSUME NEW w \in Views, NEW s \in Sids
        PROVE  subs'[<<w, s>>] = Cardinality(Open(w, s)')
    <3>1. CASE w = v /\ s = sid[p]
      <4>1. t \notin Open(w, s) /\ Open(w, s)' = Open(w, s) \cup {t}
        BY <2>1, <3>1 DEF Open, SameEntry
      <4>2. Cardinality(Open(w, s)') = Cardinality(Open(w, s)) + 1
        BY <4>1, OpenFinite, FS_AddElement
      <4> QED
        BY <2>3, <3>1, <4>2 DEF SubsInv
    <3>2. CASE ~(w = v /\ s = sid[p])
      <4>1. Open(w, s)' = Open(w, s)
        BY <2>1, <3>2 DEF Open, SameEntry
      <4> QED
        BY <2>3, <3>2, <4>1 DEF SubsInv
    <3> QED
      BY <3>1, <3>2
  <2> QED
    BY <2>4 DEF SubsInv
<1>7. ASSUME NEW p \in Threads, NEW m \in Msgs, NEW v \in Views \cup {"gone"}, NEW us,
             Change(p, m, v, us)
      PROVE  SubsInv'
  BY <1>7, SameSubsKeep DEF Change, Commit, SameEntry
<1>8. ASSUME NEW p \in Threads, Populate(p) PROVE SubsInv'
  BY <1>8, SameSubsKeep DEF Populate, Select, SameEntry
<1>9. ASSUME NEW p \in Threads, PopulateRows(p) PROVE SubsInv'
  BY <1>9, FillEffect, SameSubsKeep DEF PopulateRows, LoadRows
<1>10. ASSUME NEW p \in Threads, ReleaseTable(p) PROVE SubsInv'
  BY <1>10, GiveBackEffect, SameSubsKeep DEF ReleaseTable
<1>11. ASSUME NEW p \in Threads, EndRequest(p) PROVE SubsInv'
  BY <1>11, SameSubsKeep DEF EndRequest, SameEntry
<1>12. ASSUME NEW p \in Threads, FindSubscribers(p) PROVE SubsInv'
  BY <1>12, SameSubsKeep DEF FindSubscribers, SameEntry
<1>13. ASSUME NEW p \in Threads, LockList(p) PROVE SubsInv'
  BY <1>13, SameSubsKeep DEF LockList, SameEntry
<1>14. ASSUME NEW p \in Threads, ReloadRows(p) PROVE SubsInv'
  BY <1>14, FillEffect, SameSubsKeep DEF ReloadRows
<1>15. ASSUME NEW p \in Threads, UnlockTarget(p) PROVE SubsInv'
  BY <1>15, SameSubsKeep DEF UnlockTarget, SameEntry
<1>16. ASSUME NEW p \in Threads, NextUpdate(p) PROVE SubsInv'
  BY <1>16, SameSubsKeep DEF NextUpdate, SameEntry
<1>17. ASSUME NEW p \in Threads, NEW s \in Sids,
             LockTarget(p, s)
      PROVE  SubsInv'
  BY <1>17, SameSubsKeep DEF LockTarget, SameEntry
<1>18. ASSUME NEW p \in Threads, NEW t \in Tables,
             UpdateRows(p, t)
      PROVE  SubsInv'
  BY <1>18, FillEffect, SameSubsKeep DEF UpdateRows
<1>19. ASSUME NEW p \in Threads, NEW t \in Tables,
             Reload(p, t)
      PROVE  SubsInv'
  BY <1>19, SameSubsKeep DEF Reload, Select, SameEntry
<1>20. CASE UNCHANGED vars
  BY <1>20, SameSubsKeep DEF vars, SameEntry
<1> QED
  BY <1>1, <1>2, <1>3, <1>4, <1>5, <1>6, <1>7, <1>8, <1>9, <1>10, <1>11,
     <1>12, <1>13, <1>14, <1>15, <1>16, <1>17, <1>18, <1>19, <1>20, StepCases

-----------------------------------------------------------------------------
(* Types. *)

(* Initially every variable has its type. *)
LEMMA TypeInit == Init => TypeOK
<1> SUFFICES ASSUME Init PROVE TypeOK
  OBVIOUS
<1>1. Cardinality(Threads) \in Nat /\ Cardinality(Tables) \in Nat
  BY TableAssumption, FS_CardinalityType
<1>2. tab \in [Tables -> [sid : Sids \cup {None}, view : Views \cup {None},
                          listed : BOOLEAN, refs : 0..(1 + Cardinality(Threads)),
                          populated : BOOLEAN, rows : SUBSET Msgs, freed : BOOLEAN]]
  BY <1>1 DEF Init, Closed
<1>3. subs \in [Views \X Sids -> 0..Cardinality(Tables)]
  BY <1>1 DEF Init
<1>4. <<>> \in Seq(Updates)
  OBVIOUS
<1>5. todo \in [Threads -> Seq(Updates)]
  BY <1>4 DEF Init
<1>6. changes \in 0..MaxChanges
  BY TableAssumption DEF Init
<1>7. place \in [Msgs -> Views \cup {"unborn", "gone"}]
  BY DEF Init
<1>8. /\ state \in [Sids -> {"live", "removed", "freed"}]
      /\ listMutex \in [Sids -> Threads \cup {None}]
      /\ rowMutex \in [Tables -> Threads \cup {None}]
      /\ pc \in [Threads -> {"idle", "request", "opened", "got", "fill", "read", "closed",
                             "announce", "target", "lock", "update", "refill"}]
      /\ sid \in [Threads -> Sids \cup {None}] /\ upd \in [Threads -> Sids \cup {None}]
      /\ tbl \in [Threads -> Tables \cup {None}] /\ seen \in [Threads -> SUBSET Msgs]
      /\ targets \in [Threads -> SUBSET Sids] /\ left \in [Threads -> SUBSET Tables]
  BY DEF Init
<1>9. contended \subseteq Msgs
  BY DEF Init
<1> QED
  BY <1>2, <1>3, <1>5, <1>6, <1>7, <1>8, <1>9 DEF TypeOK

(* The types of the variables, tables and subscriptions aside. *)
RestOK ==
  /\ place \in [Msgs -> Views \cup {"unborn", "gone"}]
  /\ changes \in 0..MaxChanges /\ contended \subseteq Msgs
  /\ state \in [Sids -> {"live", "removed", "freed"}]
  /\ listMutex \in [Sids -> Threads \cup {None}]
  /\ rowMutex \in [Tables -> Threads \cup {None}]
  /\ pc \in [Threads -> {"idle", "request", "opened", "got", "fill", "read", "closed",
                         "announce", "target", "lock", "update", "refill"}]
  /\ sid \in [Threads -> Sids \cup {None}] /\ upd \in [Threads -> Sids \cup {None}]
  /\ tbl \in [Threads -> Tables \cup {None}]
  /\ seen \in [Threads -> SUBSET Msgs] /\ todo \in [Threads -> Seq(Updates)]
  /\ targets \in [Threads -> SUBSET Sids] /\ left \in [Threads -> SUBSET Tables]

(* Every step keeps them. *)
LEMMA RestNext == TypeOK /\ ThreadInv /\ [Next]_vars => RestOK'
<1> SUFFICES ASSUME TypeOK, ThreadInv, [Next]_vars PROVE RestOK'
  OBVIOUS
<1> RestOK
  BY DEF TypeOK, RestOK
<1> USE TableAssumption DEF RestOK, Goto, InView, dbVars, tableVars, updateVars
<1>1. ASSUME NEW s \in Sids, RemoveSession(s) PROVE RestOK'
  BY <1>1 DEF RemoveSession
<1>2. ASSUME NEW s \in Sids, DestroySession(s) PROVE RestOK'
  BY <1>2 DEF DestroySession
<1>3. ASSUME NEW p \in Threads, NEW s \in Sids, Begin(p, s) PROVE RestOK'
  BY <1>3 DEF Begin
<1>4. ASSUME NEW p \in Threads, NEW t \in Tables,
             GetTable(p, t)
      PROVE  RestOK'
  BY <1>4 DEF GetTable
<1>5. ASSUME NEW p \in Threads, NEW t \in Tables,
             CloseTable(p, t)
      PROVE  RestOK'
  BY <1>5 DEF CloseTable
<1>6. ASSUME NEW p \in Threads, NEW t \in Tables, NEW v \in Views,
             OpenTable(p, t, v)
      PROVE  RestOK'
  BY <1>6 DEF OpenTable
<1>7. ASSUME NEW p \in Threads, NEW m \in Msgs, NEW v \in Views \cup {"gone"}, NEW us,
             Change(p, m, v, us)
      PROVE  RestOK'
  BY <1>7 DEF Change, Commit
<1>8. ASSUME NEW p \in Threads, Populate(p) PROVE RestOK'
  <2>1. \A v : InView(v) \in SUBSET Msgs
    OBVIOUS
  <2>2. CASE Select(p, tbl[p]) /\ Goto(p, "fill")
    <3>1. tbl[p] \in Tables
      BY <1>8 DEF Populate, ThreadInv
    <3>2. seen' = [seen EXCEPT ![p] = InView(tab[tbl[p]].view)]
      BY <2>2 DEF Select
    <3>3. seen' \in [Threads -> SUBSET Msgs]
      BY <2>1, <3>2
    <3>4. rowMutex' \in [Tables -> Threads \cup {None}]
      BY <2>2, <3>1 DEF Select
    <3> QED
      BY <1>8, <2>2, <3>3, <3>4 DEF Populate
  <2>3. CASE Goto(p, "read") /\ UNCHANGED <<rowMutex, seen>>
    BY <1>8, <2>3 DEF Populate
  <2> QED
    BY <1>8, <2>2, <2>3 DEF Populate
<1>9. ASSUME NEW p \in Threads, PopulateRows(p) PROVE RestOK'
  BY <1>9 DEF PopulateRows, LoadRows
<1>10. ASSUME NEW p \in Threads, ReleaseTable(p) PROVE RestOK'
  BY <1>10 DEF ReleaseTable
<1>11. ASSUME NEW p \in Threads, EndRequest(p) PROVE RestOK'
  BY <1>11 DEF EndRequest
<1>12. ASSUME NEW p \in Threads, FindSubscribers(p) PROVE RestOK'
  BY <1>12 DEF FindSubscribers
<1>13. ASSUME NEW p \in Threads, LockList(p) PROVE RestOK'
  BY <1>13 DEF LockList
<1>14. ASSUME NEW p \in Threads, ReloadRows(p) PROVE RestOK'
  BY <1>14 DEF ReloadRows
<1>15. ASSUME NEW p \in Threads, UnlockTarget(p) PROVE RestOK'
  BY <1>15 DEF UnlockTarget
<1>16. ASSUME NEW p \in Threads, NextUpdate(p) PROVE RestOK'
  <2>1. todo[p] # <<>>
    BY <1>16 DEF NextUpdate, ThreadInv
  <2>2. Tail(todo[p]) \in Seq(Updates)
    BY <2>1, HeadTailProperties
  <2> QED
    BY <1>16, <2>2 DEF NextUpdate
<1>17. ASSUME NEW p \in Threads, NEW s \in Sids,
             LockTarget(p, s)
      PROVE  RestOK'
  <2>1. targets' \in [Threads -> SUBSET Sids]
    BY <1>17 DEF LockTarget
  <2>2. CASE upd' = [upd EXCEPT ![p] = s] /\ Goto(p, "lock")
    BY <1>17, <2>1, <2>2 DEF LockTarget
  <2>3. CASE UNCHANGED <<upd, pc>>
    BY <1>17, <2>1, <2>3 DEF LockTarget
  <2> QED
    BY <1>17, <2>2, <2>3 DEF LockTarget
<1>18. ASSUME NEW p \in Threads, NEW t \in Tables,
             UpdateRows(p, t)
      PROVE  RestOK'
  BY <1>18 DEF UpdateRows
<1>19. ASSUME NEW p \in Threads, NEW t \in Tables, Reload(p, t) PROVE RestOK'
  BY <1>19 DEF Reload, Select
<1>20. CASE UNCHANGED vars
  BY <1>20 DEF vars
<1> QED
  BY <1>1, <1>2, <1>3, <1>4, <1>5, <1>6, <1>7, <1>8, <1>9, <1>10, <1>11,
     <1>12, <1>13, <1>14, <1>15, <1>16, <1>17, <1>18, <1>19, <1>20, StepCases

(* The tables are records as declared, and each subscription has a count.    *)
LEMMA TablesNextType ==
  TypeOK /\ ThreadInv /\ [Next]_vars
    => tab' \in [Tables -> Table] /\ subs' = [k \in Views \X Sids |-> subs'[k]]
<1> SUFFICES ASSUME TypeOK, ThreadInv, [Next]_vars
             PROVE  tab' \in [Tables -> Table] /\ subs' = [k \in Views \X Sids |-> subs'[k]]
  OBVIOUS
<1>0. tab \in [Tables -> Table] /\ subs = [k \in Views \X Sids |-> subs[k]]
  BY TableType DEF TypeOK
<1> USE DEF dbVars, tableVars, updateVars
<1>1. ASSUME NEW s \in Sids,
             RemoveSession(s)
      PROVE  tab' \in [Tables -> Table] /\ subs' = [k \in Views \X Sids |-> subs'[k]]
  BY <1>0, <1>1 DEF RemoveSession
<1>2. ASSUME NEW s \in Sids,
             DestroySession(s)
      PROVE  tab' \in [Tables -> Table] /\ subs' = [k \in Views \X Sids |-> subs'[k]]
  BY <1>0, <1>2, DestroyEffect DEF DestroySession, Unlist
<1>3. ASSUME NEW p \in Threads, NEW s \in Sids,
             Begin(p, s)
      PROVE  tab' \in [Tables -> Table] /\ subs' = [k \in Views \X Sids |-> subs'[k]]
  BY <1>0, <1>3 DEF Begin
<1>4. ASSUME NEW p \in Threads, NEW t \in Tables,
             GetTable(p, t)
      PROVE  tab' \in [Tables -> Table] /\ subs' = [k \in Views \X Sids |-> subs'[k]]
  BY <1>0, <1>4, GetEffect DEF GetTable
<1>5. ASSUME NEW p \in Threads, NEW t \in Tables,
             CloseTable(p, t)
      PROVE  tab' \in [Tables -> Table] /\ subs' = [k \in Views \X Sids |-> subs'[k]]
  BY <1>0, <1>5, CloseEffect DEF CloseTable, Unlist
<1>6. ASSUME NEW p \in Threads, NEW t \in Tables, NEW v \in Views,
             OpenTable(p, t, v)
      PROVE  tab' \in [Tables -> Table] /\ subs' = [k \in Views \X Sids |-> subs'[k]]
  BY <1>0, <1>6, OpenEffect DEF OpenTable
<1>7. ASSUME NEW p \in Threads, NEW m \in Msgs, NEW v \in Views \cup {"gone"}, NEW us,
             Change(p, m, v, us)
      PROVE  tab' \in [Tables -> Table] /\ subs' = [k \in Views \X Sids |-> subs'[k]]
  BY <1>0, <1>7 DEF Change, Commit
<1>8. ASSUME NEW p \in Threads,
             Populate(p)
      PROVE  tab' \in [Tables -> Table] /\ subs' = [k \in Views \X Sids |-> subs'[k]]
  BY <1>0, <1>8 DEF Populate, Select
<1>9. ASSUME NEW p \in Threads,
             PopulateRows(p)
      PROVE  tab' \in [Tables -> Table] /\ subs' = [k \in Views \X Sids |-> subs'[k]]
  BY <1>0, <1>9, FillEffect DEF PopulateRows, LoadRows
<1>10. ASSUME NEW p \in Threads,
             ReleaseTable(p)
      PROVE  tab' \in [Tables -> Table] /\ subs' = [k \in Views \X Sids |-> subs'[k]]
  BY <1>0, <1>10, GiveBackEffect DEF ReleaseTable
<1>11. ASSUME NEW p \in Threads,
             EndRequest(p)
      PROVE  tab' \in [Tables -> Table] /\ subs' = [k \in Views \X Sids |-> subs'[k]]
  BY <1>0, <1>11 DEF EndRequest
<1>12. ASSUME NEW p \in Threads,
             FindSubscribers(p)
      PROVE  tab' \in [Tables -> Table] /\ subs' = [k \in Views \X Sids |-> subs'[k]]
  BY <1>0, <1>12 DEF FindSubscribers
<1>13. ASSUME NEW p \in Threads,
             LockList(p)
      PROVE  tab' \in [Tables -> Table] /\ subs' = [k \in Views \X Sids |-> subs'[k]]
  BY <1>0, <1>13 DEF LockList
<1>14. ASSUME NEW p \in Threads,
             ReloadRows(p)
      PROVE  tab' \in [Tables -> Table] /\ subs' = [k \in Views \X Sids |-> subs'[k]]
  BY <1>0, <1>14, FillEffect DEF ReloadRows
<1>15. ASSUME NEW p \in Threads,
             UnlockTarget(p)
      PROVE  tab' \in [Tables -> Table] /\ subs' = [k \in Views \X Sids |-> subs'[k]]
  BY <1>0, <1>15 DEF UnlockTarget
<1>16. ASSUME NEW p \in Threads,
             NextUpdate(p)
      PROVE  tab' \in [Tables -> Table] /\ subs' = [k \in Views \X Sids |-> subs'[k]]
  BY <1>0, <1>16 DEF NextUpdate
<1>17. ASSUME NEW p \in Threads, NEW s \in Sids,
             LockTarget(p, s)
      PROVE  tab' \in [Tables -> Table] /\ subs' = [k \in Views \X Sids |-> subs'[k]]
  BY <1>0, <1>17 DEF LockTarget
<1>18. ASSUME NEW p \in Threads, NEW t \in Tables,
             UpdateRows(p, t)
      PROVE  tab' \in [Tables -> Table] /\ subs' = [k \in Views \X Sids |-> subs'[k]]
  BY <1>0, <1>18, FillEffect DEF UpdateRows
<1>19. ASSUME NEW p \in Threads, NEW t \in Tables,
             Reload(p, t)
      PROVE  tab' \in [Tables -> Table] /\ subs' = [k \in Views \X Sids |-> subs'[k]]
  BY <1>0, <1>19 DEF Reload, Select
<1>20. CASE UNCHANGED vars
  BY <1>0, <1>20 DEF vars
<1> QED
  BY <1>1, <1>2, <1>3, <1>4, <1>5, <1>6, <1>7, <1>8, <1>9, <1>10, <1>11,
     <1>12, <1>13, <1>14, <1>15, <1>16, <1>17, <1>18, <1>19, <1>20, StepCases

(* Types are kept; the bounds on counts are those of the sets counted.       *)
LEMMA TypeNext ==
  TypeOK /\ ThreadInv /\ RefInv' /\ SubsInv' /\ [Next]_vars => TypeOK'
<1> SUFFICES ASSUME TypeOK, ThreadInv, RefInv', SubsInv', [Next]_vars PROVE TypeOK'
  OBVIOUS
<1>1. RestOK' /\ tab' \in [Tables -> Table] /\ subs' = [k \in Views \X Sids |-> subs'[k]]
  BY RestNext, TablesNextType
<1>2. ASSUME NEW t \in Tables PROVE tab'[t].refs \in 0..(1 + Cardinality(Threads))
  <2>1. Users(t)' \in SUBSET Threads
    BY DEF Users
  <2>2. IsFiniteSet(Users(t)') /\ Cardinality(Users(t)') <= Cardinality(Threads)
    BY <2>1, FS_Subset, TableAssumption
  <2>3. Cardinality(Users(t)') \in Nat /\ Cardinality(Threads) \in Nat
    BY <2>2, FS_CardinalityType, TableAssumption
  <2>4. tab'[t].refs = Cardinality(Users(t)') + (IF tab'[t].listed THEN 1 ELSE 0)
    BY DEF RefInv
  <2> QED
    BY <2>2, <2>3, <2>4
<1>3. tab' \in [Tables -> [sid : Sids \cup {None}, view : Views \cup {None},
                           listed : BOOLEAN, refs : 0..(1 + Cardinality(Threads)),
                           populated : BOOLEAN, rows : SUBSET Msgs, freed : BOOLEAN]]
  BY <1>1, <1>2 DEF Table
<1>4. subs' \in [Views \X Sids -> 0..Cardinality(Tables)]
  <2>1. ASSUME NEW v \in Views, NEW s \in Sids
        PROVE  subs'[<<v, s>>] \in 0..Cardinality(Tables)
    BY OpenFinite DEF SubsInv
  <2>2. \A k \in Views \X Sids : subs'[k] \in 0..Cardinality(Tables)
    BY <2>1
  <2> QED
    BY <1>1, <2>2
<1> QED
  BY <1>1, <1>3, <1>4 DEF RestOK, TypeOK


-----------------------------------------------------------------------------
(* The contents of tables. *)

(* An update that is still to be announced says where the message is, unless *)
(* two requests changed the message at a time.                               *)
TruthInv ==
  \A p \in Threads : \A i \in 1..Len(todo[p]) :
    todo[p][i].msg \notin contended =>
      /\ todo[p][i].type \in {"add", "modify"} => place[todo[p][i].msg] = todo[p][i].view
      /\ todo[p][i].type = "delete" => place[todo[p][i].msg] # todo[p][i].view

(* Thread q has still to tell table t of message m: it has a later update of *)
(* m for the table's view, or has the table before it with the first one.    *)
Will(q, t, m) ==
  \E i \in 1..Len(todo[q]) :
    /\ todo[q][i].msg = m /\ todo[q][i].view = tab[t].view
    /\ \/ i > 1 \/ pc[q] = "announce" \/ tab[t].sid \in targets[q]
       \/ pc[q] = "lock" /\ upd[q] = tab[t].sid
       \/ t \in left[q]

(* The set R is right about m in table t, or will be corrected. *)
Shown(t, m, R) ==
  \/ m \in R <=> place[m] = tab[t].view
  \/ \E q \in Threads : Will(q, t, m)

(* The table is being reloaded because of m. *)
Reloading(t, m) ==
  \E q \in Threads : pc[q] = "refill" /\ tbl[q] = t /\ Head(todo[q]).msg = m

(* The rows of a filled table of a live session are right. *)
RowsOK(t, m) ==
  /\ m \notin contended /\ tab[t].listed /\ tab[t].populated
  /\ state[tab[t].sid] = "live"
  => Shown(t, m, tab[t].rows) \/ Reloading(t, m)

(* What a thread has selected to fill a table with is right. *)
SeenOK(p, m) ==
  /\ m \notin contended /\ pc[p] \in {"fill", "refill"} /\ tab[tbl[p]].listed
  /\ state[tab[tbl[p]].sid] = "live"
  => Shown(tbl[p], m, seen[p])

ExactInv ==
  /\ \A t \in Tables, m \in Msgs : RowsOK(t, m)
  /\ \A p \in Threads, m \in Msgs : SeenOK(p, m)

(* No thread forgets in a step to tell table t of m. *)
WillKept(t, m) == \A q \in Threads : Will(q, t, m) => Will(q, t, m)'

(* Initially nothing is open. *)
LEMMA RestInit == Init => TableInv /\ RefInv /\ LeftInv /\ SubsInv /\ TruthInv /\ ExactInv
<1> SUFFICES ASSUME Init
             PROVE  TableInv /\ RefInv /\ LeftInv /\ SubsInv /\ TruthInv /\ ExactInv
  OBVIOUS
<1>1. \A t \in Tables : /\ tab[t].sid = None /\ tab[t].refs = 0
                        /\ ~tab[t].listed /\ ~tab[t].freed
  BY ClosedFields DEF Init
<1>2. \A p \in Threads : pc[p] = "idle" /\ left[p] = {} /\ todo[p] = <<>>
  BY DEF Init
<1>3. TableInv /\ LeftInv
  BY <1>1, <1>2 DEF TableInv, LeftInv
<1>4. RefInv
  <2>1. \A t \in Tables : Users(t) = {}
    BY <1>2 DEF Users
  <2> QED
    BY <1>1, <2>1, FS_EmptySet DEF RefInv
<1>5. SubsInv
  <2>1. \A v \in Views, s \in Sids : Open(v, s) = {} /\ subs[<<v, s>>] = 0
    BY <1>1 DEF Open, Init
  <2> QED
    BY <2>1, FS_EmptySet DEF SubsInv
<1>6. TruthInv
  BY <1>2 DEF TruthInv
<1>7. ExactInv
  BY <1>1, <1>2 DEF ExactInv, RowsOK, SeenOK
<1> QED
  BY <1>3, <1>4, <1>5, <1>6, <1>7

(* What a change does to the messages and to what is to be announced.        *)
LEMMA ChangeEffect ==
  ASSUME TypeOK, ThreadInv, NEW p \in Threads, NEW m \in Msgs, NEW v, NEW us,
         Change(p, m, v, us)
  PROVE  /\ pc[p] = "request" /\ pc'[p] = "announce" /\ todo[p] = <<>> /\ todo'[p] = us
         /\ \A q \in Threads : q # p => pc'[q] = pc[q] /\ todo'[q] = todo[q]
         /\ place'[m] = v /\ \A n \in Msgs : n # m => place'[n] = place[n]
         /\ \A n \in Msgs : n \notin contended' => n \notin contended
         /\ \A q \in Threads : \A i \in 1..Len(todo[q]) :
              q # p /\ todo[q][i].msg = m => m \in contended'
         /\ UNCHANGED <<state, tab, subs, sid, tbl, seen, targets, upd, left>>
<1>1. pc[p] = "request" /\ todo[p] = <<>>
  BY DEF Change, Commit, ThreadInv
<1>2. \A q \in Threads : \A i \in 1..Len(todo[q]) : q # p /\ todo[q][i].msg = m => Pending(p, m)
  BY DEF Pending
<1>3. contended' = IF Pending(p, m) THEN contended \cup {m} ELSE contended
  BY DEF Change, Commit
<1>4. /\ pc' = [pc EXCEPT ![p] = "announce"] /\ todo' = [todo EXCEPT ![p] = us]
      /\ place' = [place EXCEPT ![m] = v]
      /\ UNCHANGED <<state, tab, subs, sid, tbl, seen, targets, upd, left>>
  BY DEF Change, Commit, Goto, tableVars
<1>5. /\ todo \in [Threads -> Seq(Updates)] /\ place \in [Msgs -> Views \cup {"unborn", "gone"}]
      /\ pc \in [Threads -> {"idle", "request", "opened", "got", "fill", "read", "closed",
                             "announce", "target", "lock", "update", "refill"}]
  BY DEF TypeOK
<1> QED
  BY <1>1, <1>2, <1>3, <1>4, <1>5

(* What is left to announce after the first update. *)
LEMMA TailUpdates ==
  ASSUME TypeOK, NEW p \in Threads, todo[p] # <<>>
  PROVE  /\ Head(todo[p]) = todo[p][1] /\ Head(todo[p]) \in Updates
         /\ Len(todo[p]) \in Nat \ {0} /\ Len(Tail(todo[p])) = Len(todo[p]) - 1
         /\ \A i \in 1..Len(Tail(todo[p])) : Tail(todo[p])[i] = todo[p][i + 1]
<1>1. todo[p] \in Seq(Updates)
  BY DEF TypeOK
<1>2. Len(todo[p]) \in Nat \ {0}
  BY <1>1, EmptySeq
<1> QED
  BY <1>1, <1>2, HeadTailProperties

(* The announced truth stays true: a second change of the message is noticed. *)
LEMMA TruthNext == TypeOK /\ ThreadInv /\ TruthInv /\ [Next]_vars => TruthInv'
<1> SUFFICES ASSUME TypeOK, ThreadInv, TruthInv, [Next]_vars PROVE TruthInv'
  OBVIOUS
<1>1. ASSUME UNCHANGED <<todo, place, contended>> PROVE TruthInv'
  BY <1>1 DEF TruthInv
<1>2. ASSUME NEW p \in Threads, NextUpdate(p) PROVE TruthInv'
  <2>1. /\ UNCHANGED <<place, contended>> /\ todo' = [todo EXCEPT ![p] = Tail(todo[p])]
        /\ todo[p] # <<>> /\ todo \in [Threads -> Seq(Updates)]
    BY <1>2 DEF NextUpdate, dbVars, ThreadInv, TypeOK
  <2>2. todo'[p] = Tail(todo[p]) /\ \A q \in Threads : q # p => todo'[q] = todo[q]
    BY <2>1
  <2>3. \A i \in 1..Len(todo'[p]) : i + 1 \in 1..Len(todo[p]) /\ todo'[p][i] = todo[p][i + 1]
    BY <2>1, <2>2, TailUpdates
  <2> QED
    BY <2>1, <2>2, <2>3 DEF TruthInv
<1>3. ASSUME NEW p \in Threads, NEW m \in Msgs, NEW v, NEW us, Change(p, m, v, us)
      PROVE  TruthInv'
  <2> SUFFICES ASSUME NEW q \in Threads, NEW i \in 1..Len(todo'[q]),
                      todo'[q][i].msg \notin contended'
               PROVE  /\ todo'[q][i].type \in {"add", "modify"} =>
                           place'[todo'[q][i].msg] = todo'[q][i].view
                      /\ todo'[q][i].type = "delete" =>
                           place'[todo'[q][i].msg] # todo'[q][i].view
    BY DEF TruthInv
  <2>1. CASE q = p
    <3>1. todo'[q] = us /\ place'[m] = v
      BY <1>3, <2>1, ChangeEffect
    <3> QED
      BY <1>3, <3>1 DEF Change
  <2>2. CASE q # p
    <3>1. todo'[q] = todo[q] /\ todo[q] \in Seq(Updates)
      BY <1>3, <2>2, ChangeEffect DEF TypeOK
    <3>2. todo[q][i].msg # m
      BY <1>3, <2>2, <3>1, ChangeEffect
    <3>3. todo[q][i] \in Updates
      BY <3>1, ElementOfSeq
    <3>4. todo[q][i].msg \in Msgs
      BY <3>3 DEF Updates
    <3>5. place'[todo[q][i].msg] = place[todo[q][i].msg] /\ todo[q][i].msg \notin contended
      BY <1>3, <3>1, <3>2, <3>4, ChangeEffect
    <3> QED
      BY <3>1, <3>5 DEF TruthInv
  <2> QED
    BY <2>1, <2>2
<1> USE DEF dbVars, tableVars, updateVars
<1>4. ASSUME NEW s \in Sids, RemoveSession(s) \/ DestroySession(s) PROVE TruthInv'
  BY <1>1, <1>4 DEF RemoveSession, DestroySession
<1>5. ASSUME NEW p \in Threads, NEW s \in Sids, Begin(p, s) \/ LockTarget(p, s) PROVE TruthInv'
  BY <1>1, <1>5 DEF Begin, LockTarget
<1>6. ASSUME NEW p \in Threads, NEW t \in Tables,
             GetTable(p, t) \/ CloseTable(p, t) \/ UpdateRows(p, t) \/ Reload(p, t)
      PROVE  TruthInv'
  BY <1>1, <1>6 DEF GetTable, CloseTable, UpdateRows, Reload
<1>7. ASSUME NEW p \in Threads, NEW t \in Tables, NEW v \in Views, OpenTable(p, t, v)
      PROVE  TruthInv'
  BY <1>1, <1>7 DEF OpenTable
<1>8. ASSUME NEW p \in Threads,
             \/ Populate(p) \/ PopulateRows(p) \/ ReleaseTable(p) \/ EndRequest(p)
             \/ FindSubscribers(p) \/ LockList(p) \/ ReloadRows(p) \/ UnlockTarget(p)
      PROVE  TruthInv'
  BY <1>1, <1>8 DEF Populate, PopulateRows, ReleaseTable, EndRequest, FindSubscribers,
     LockList, ReloadRows, UnlockTarget
<1>9. CASE UNCHANGED vars
  BY <1>1, <1>9 DEF vars
<1> QED
  BY <1>2, <1>3, <1>4, <1>5, <1>6, <1>7, <1>8, <1>9, StepCases

(* The rows of a table that a step does not load or update. *)
LEMMA KeepRows ==
  ASSUME NEW t \in Tables, NEW m \in Msgs, TableInv, RowsOK(t, m),
         place'[m] = place[m], m \notin contended' => m \notin contended,
         tab'[t].listed /\ tab'[t].populated =>
           /\ tab[t].listed /\ tab[t].populated /\ tab'[t].rows = tab[t].rows
           /\ SameEntry(t),
         \A s \in Sids : state'[s] = "live" => state[s] = "live",
         \A q \in Threads : pc[q] = "refill" /\ tbl[q] = t =>
           pc'[q] = "refill" /\ tbl'[q] = t /\ Head(todo'[q]) = Head(todo[q]),
         tab[t].listed /\ tab'[t].listed /\ state'[tab'[t].sid] = "live" => WillKept(t, m)
  PROVE  RowsOK(t, m)'
<1> SUFFICES ASSUME m \notin contended', tab'[t].listed, tab'[t].populated,
                    state'[tab'[t].sid] = "live"
             PROVE  Shown(t, m, tab[t].rows)' \/ Reloading(t, m)'
  BY DEF RowsOK
<1>1. /\ tab[t].listed /\ tab[t].populated /\ tab'[t].rows = tab[t].rows
      /\ tab'[t].sid = tab[t].sid /\ tab'[t].view = tab[t].view
  BY DEF SameEntry
<1>2. tab[t].sid \in Sids
  BY <1>1 DEF TableInv
<1>3. Shown(t, m, tab[t].rows) \/ Reloading(t, m)
  BY <1>1, <1>2 DEF RowsOK
<1>4. CASE m \in tab[t].rows <=> place[m] = tab[t].view
  BY <1>1, <1>4 DEF Shown
<1>5. CASE \E q \in Threads : Will(q, t, m)
  <2>1. \E q \in Threads : Will(q, t, m)'
    BY <1>1, <1>5 DEF WillKept
  <2> QED
    BY <2>1 DEF Shown
<1>6. CASE Reloading(t, m)
  BY <1>6 DEF Reloading
<1> QED
  BY <1>3, <1>4, <1>5, <1>6 DEF Shown

(* What a thread has selected, in a step that does not select. *)
LEMMA KeepSeen ==
  ASSUME NEW p \in Threads, NEW m \in Msgs, TableInv, SeenOK(p, m),
         place'[m] = place[m], m \notin contended' => m \notin contended,
         pc'[p] \in {"fill", "refill"} =>
           /\ pc'[p] = pc[p] /\ tbl'[p] = tbl[p] /\ tbl[p] \in Tables /\ seen'[p] = seen[p]
           /\ tab'[tbl[p]].listed => tab[tbl[p]].listed /\ SameEntry(tbl[p]),
         \A s \in Sids : state'[s] = "live" => state[s] = "live",
         \A t \in Tables :
           /\ pc[p] \in {"fill", "refill"} /\ t = tbl[p]
           /\ tab[t].listed /\ tab'[t].listed /\ state'[tab'[t].sid] = "live"
           => WillKept(t, m)
  PROVE  SeenOK(p, m)'
<1> SUFFICES ASSUME m \notin contended', pc'[p] \in {"fill", "refill"},
                    tab'[tbl'[p]].listed, state'[tab'[tbl'[p]].sid] = "live"
             PROVE  Shown(tbl[p], m, seen[p])'
  BY DEF SeenOK
<1>0. PICK t \in Tables : t = tbl[p]
  OBVIOUS
<1>1. /\ pc[p] \in {"fill", "refill"} /\ tbl'[p] = t /\ seen'[p] = seen[p] /\ tab[t].listed
      /\ tab'[t].sid = tab[t].sid /\ tab'[t].view = tab[t].view
  BY <1>0 DEF SameEntry
<1>2. tab[t].sid \in Sids
  BY <1>1 DEF TableInv
<1>3. Shown(t, m, seen[p])
  BY <1>0, <1>1, <1>2 DEF SeenOK
<1>4. CASE m \in seen[p] <=> place[m] = tab[t].view
  BY <1>1, <1>4 DEF Shown
<1>5. CASE \E q \in Threads : Will(q, t, m)
  <2>1. \E q \in Threads : Will(q, t, m)'
    BY <1>0, <1>1, <1>5 DEF WillKept
  <2> QED
    BY <1>1, <2>1 DEF Shown, Will
<1> QED
  BY <1>3, <1>4, <1>5 DEF Shown

(* What a thread has just selected is what is there. *)
LEMMA FreshSeen ==
  ASSUME NEW p \in Threads, NEW m \in Msgs, NEW t \in Tables, tbl'[p] = t, UNCHANGED place,
         seen'[p] = InView(tab[t].view), tab'[t].view = tab[t].view
  PROVE  SeenOK(p, m)'
<1>1. m \in seen'[p] <=> place'[m] = tab'[t].view
  BY DEF InView
<1> QED
  BY <1>1 DEF SeenOK, Shown

(* Steps that do not change what is to be announced. *)
LEMMA SameWill ==
  ASSUME NEW t \in Tables, NEW m \in Msgs, UNCHANGED <<todo, targets, upd, left>>,
         SameEntry(t), \A q \in Threads : pc[q] \in {"announce", "lock"} => pc'[q] = pc[q]
  PROVE  WillKept(t, m)
  BY DEF WillKept, Will, SameEntry

(* Steps that only announce, or do other things, keep tables as they are.    *)
LEMMA QuietKeeps ==
  ASSUME TypeOK, TableInv, ExactInv, UNCHANGED <<place, contended>>,
         \A s \in Sids : state'[s] = "live" => state[s] = "live",
         \A t \in Tables : tab'[t].listed /\ tab'[t].populated =>
           /\ tab[t].listed /\ tab[t].populated /\ tab'[t].rows = tab[t].rows
           /\ SameEntry(t),
         \A q \in Threads : pc'[q] \in {"fill", "refill"} =>
           /\ pc'[q] = pc[q] /\ tbl'[q] = tbl[q] /\ tbl[q] \in Tables /\ seen'[q] = seen[q]
           /\ tab'[tbl[q]].listed => tab[tbl[q]].listed /\ SameEntry(tbl[q]),
         \A q \in Threads : pc[q] = "refill" =>
           pc'[q] = "refill" /\ tbl'[q] = tbl[q] /\ Head(todo'[q]) = Head(todo[q]),
         \A t \in Tables, m \in Msgs :
           tab[t].listed /\ tab'[t].listed /\ state'[tab'[t].sid] = "live" => WillKept(t, m)
  PROVE  ExactInv'
<1>1. ASSUME NEW t \in Tables, NEW m \in Msgs PROVE RowsOK(t, m)'
  <2>1. RowsOK(t, m)
    BY DEF ExactInv
  <2> QED
    BY <2>1, KeepRows
<1>2. ASSUME NEW p \in Threads, NEW m \in Msgs PROVE SeenOK(p, m)'
  <2>1. SeenOK(p, m)
    BY DEF ExactInv
  <2> QED
    BY <2>1, KeepSeen
<1> QED
  BY <1>1, <1>2 DEF ExactInv


(* Every step keeps the tables exact, or there is a thread that will correct *)
(* what the step made wrong.                                                 *)
LEMMA ExactNext ==
  TypeOK /\ ThreadInv /\ LockInv /\ HeldInv /\ TableInv /\ RefInv /\ LeftInv
  /\ SubsInv /\ TruthInv /\ ExactInv /\ [Next]_vars => ExactInv'
<1> SUFFICES ASSUME TypeOK, ThreadInv, LockInv, HeldInv, TableInv, RefInv, LeftInv,
                    SubsInv, TruthInv, ExactInv, [Next]_vars
             PROVE  ExactInv'
  OBVIOUS
<1> USE TableAssumption DEF Goto, dbVars, tableVars, updateVars
<1>0. /\ tab \in [Tables -> Table] /\ state \in [Sids -> {"live", "removed", "freed"}]
      /\ tbl \in [Threads -> Tables \cup {None}] /\ upd \in [Threads -> Sids \cup {None}]
      /\ left \in [Threads -> SUBSET Tables] /\ todo \in [Threads -> Seq(Updates)]
      /\ seen \in [Threads -> SUBSET Msgs] /\ targets \in [Threads -> SUBSET Sids]
      /\ pc \in [Threads -> {"idle", "request", "opened", "got", "fill", "read", "closed",
                             "announce", "target", "lock", "update", "refill"}]
  BY TableType DEF TypeOK
<1>99. \A q \in Threads : pc[q] \in {"fill", "refill"} => tbl[q] \in Tables
  BY <1>0 DEF ThreadInv
<1>1. ASSUME NEW s \in Sids, RemoveSession(s) PROVE ExactInv'
  <2>1. /\ UNCHANGED <<place, contended, tab, pc, tbl, seen, todo, targets, upd, left>>
        /\ \A x \in Sids : state'[x] = "live" => state[x] = "live"
    BY <1>0, <1>1 DEF RemoveSession
  <2>2. \A u \in Tables, m \in Msgs : WillKept(u, m)
    BY <2>1, SameWill DEF SameEntry
  <2> QED
    BY <1>99, <2>1, <2>2, QuietKeeps DEF SameEntry
<1>2. ASSUME NEW s \in Sids, DestroySession(s) PROVE ExactInv'
  <2>1. /\ UNCHANGED <<place, contended, pc, tbl, seen, todo, targets, upd, left>>
        /\ \A x \in Sids : state'[x] = "live" => state[x] = "live"
    BY <1>0, <1>2 DEF DestroySession
  <2>2. \A u \in Tables : tab'[u].listed => tab[u].listed /\ SameEntry(u) /\ SameRows(u)
    BY <1>2, DestroyEffect DEF SameEntry
  <2>3. \A u \in Tables, m \in Msgs : tab'[u].listed => WillKept(u, m)
    BY <2>1, <2>2, SameWill
  <2> QED
    BY <1>99, <2>1, <2>2, <2>3, QuietKeeps DEF SameRows
<1>3. ASSUME NEW p \in Threads, NEW s \in Sids, Begin(p, s) PROVE ExactInv'
  <2>1. /\ UNCHANGED <<place, contended, state, tab, tbl, seen, todo, targets, upd, left>>
        /\ \A q \in Threads : pc[q] \in {"fill", "refill", "announce", "lock"}
                              \/ pc'[q] \in {"fill", "refill"} => pc'[q] = pc[q]
    BY <1>0, <1>3 DEF Begin
  <2>2. \A u \in Tables, m \in Msgs : WillKept(u, m)
    BY <2>1, SameWill DEF SameEntry
  <2> QED
    BY <1>99, <2>1, <2>2, QuietKeeps DEF SameEntry
<1>4. ASSUME NEW p \in Threads, NEW t \in Tables,
             GetTable(p, t)
      PROVE  ExactInv'
  <2>1. /\ UNCHANGED <<place, contended, state, seen, todo, targets, upd, left>>
        /\ \A q \in Threads : pc[q] \in {"fill", "refill", "announce", "lock"}
                              \/ pc'[q] \in {"fill", "refill"}
             => pc'[q] = pc[q] /\ tbl'[q] = tbl[q]
    BY <1>0, <1>4 DEF GetTable
  <2>2. \A u \in Tables : tab'[u].listed => tab[u].listed /\ SameEntry(u) /\ SameRows(u)
    BY <1>4, GetEffect DEF SameEntry
  <2>3. \A u \in Tables, m \in Msgs : tab'[u].listed => WillKept(u, m)
    BY <2>1, <2>2, SameWill
  <2> QED
    BY <1>99, <2>1, <2>2, <2>3, QuietKeeps DEF SameRows
<1>5. ASSUME NEW p \in Threads, NEW t \in Tables,
             CloseTable(p, t)
      PROVE  ExactInv'
  <2>1. /\ UNCHANGED <<place, contended, state, seen, todo, targets, upd, left>>
        /\ \A q \in Threads : pc[q] \in {"fill", "refill", "announce", "lock"}
                              \/ pc'[q] \in {"fill", "refill"}
             => pc'[q] = pc[q] /\ tbl'[q] = tbl[q]
    BY <1>0, <1>5 DEF CloseTable
  <2>2. \A u \in Tables : tab'[u].listed => tab[u].listed /\ SameEntry(u) /\ SameRows(u)
    BY <1>5, CloseEffect DEF SameEntry
  <2>3. \A u \in Tables, m \in Msgs : tab'[u].listed => WillKept(u, m)
    BY <2>1, <2>2, SameWill
  <2> QED
    BY <1>99, <2>1, <2>2, <2>3, QuietKeeps DEF SameRows
<1>6. ASSUME NEW p \in Threads, NEW t \in Tables, NEW v \in Views,
             OpenTable(p, t, v)
      PROVE  ExactInv'
  <2>1. /\ UNCHANGED <<place, contended, state, tbl, seen, todo, targets, upd, left>>
        /\ \A q \in Threads : pc[q] \in {"fill", "refill", "announce", "lock"}
                              \/ pc'[q] \in {"fill", "refill"} => pc'[q] = pc[q]
    BY <1>0, <1>6 DEF OpenTable
  <2>2. /\ ~tab'[t].populated /\ ~tab[t].listed /\ tab[t].sid = None
        /\ \A u \in Tables : u # t => SameEntry(u) /\ SameRows(u)
    BY <1>6, OpenEffect
  <2>3. \A q \in Threads : pc[q] \in {"fill", "refill"} => tbl[q] # t
    <3>1. \A q \in Threads : pc[q] = "fill" => tab[tbl[q]].sid # None
      BY <1>0 DEF TableInv, ThreadInv
    <3>2. \A q \in Threads : pc[q] = "refill" => tab[tbl[q]].listed
      BY DEF LeftInv
    <3> QED
      BY <2>2, <3>1, <3>2
  <2>4. \A u \in Tables, m \in Msgs : u # t => WillKept(u, m)
    BY <2>1, <2>2, SameWill
  <2> QED
    BY <1>99, <2>1, <2>2, <2>3, <2>4, QuietKeeps DEF SameRows, SameEntry
<1>7. ASSUME NEW p \in Threads, NEW m \in Msgs, NEW v \in Views \cup {"gone"}, NEW us,
             Change(p, m, v, us)
      PROVE  ExactInv'
  <2>1. /\ pc[p] = "request" /\ pc'[p] = "announce" /\ todo[p] = <<>> /\ todo'[p] = us
        /\ \A q \in Threads : q # p => pc'[q] = pc[q] /\ todo'[q] = todo[q]
        /\ place'[m] = v /\ \A n \in Msgs : n # m => place'[n] = place[n]
        /\ \A n \in Msgs : n \notin contended' => n \notin contended
        /\ UNCHANGED <<state, tab, tbl, seen, targets, upd, left>>
    BY <1>7, ChangeEffect
  <2>2. \A t \in Tables, n \in Msgs : WillKept(t, n)
    BY <2>1 DEF WillKept, Will
  <2>3. ASSUME NEW t \in Tables, NEW n \in Msgs, n # m PROVE RowsOK(t, n)'
    <3>1. RowsOK(t, n)
      BY DEF ExactInv
    <3>2. \A q \in Threads : pc[q] = "refill" => q # p
      BY <2>1
    <3> QED
      BY <2>1, <2>2, <2>3, <3>1, <3>2, KeepRows DEF SameEntry
  <2>4. ASSUME NEW q \in Threads, NEW n \in Msgs, n # m PROVE SeenOK(q, n)'
    <3>1. SeenOK(q, n)
      BY DEF ExactInv
    <3>2. pc'[q] \in {"fill", "refill"} => q # p
      BY <2>1
    <3> QED
      BY <1>99, <2>1, <2>2, <2>4, <3>1, <3>2, KeepSeen DEF SameEntry
  <2>5. ASSUME NEW t \in Tables, tab[t].view \in Views, NEW R, m \notin contended',
               Shown(t, m, R)
        PROVE  Shown(t, m, R)'
    <3>1. CASE \E i \in 1..Len(us) : us[i].view = tab[t].view
      <4>1. \A i \in 1..Len(us) : us[i].msg = m
        BY <1>7 DEF Change
      <4>2. Will(p, t, m)'
        BY <2>1, <3>1, <4>1 DEF Will
      <4> QED
        BY <4>2 DEF Shown
    <3>2. CASE ~\E i \in 1..Len(us) : us[i].view = tab[t].view
      <4>1. place[m] = tab[t].view <=> v = tab[t].view
        BY <1>7, <2>5, <3>2 DEF Change
      <4>2. ~\E q \in Threads : Will(q, t, m)
        BY <1>7, <2>1, <2>5, ChangeEffect DEF Will
      <4> QED
        BY <2>1, <2>5, <4>1, <4>2 DEF Shown
    <3> QED
      BY <3>1, <3>2
  <2>6. \A t \in Tables : tab[t].listed => tab[t].view \in Views
    BY DEF TableInv
  <2>7. ASSUME NEW t \in Tables PROVE RowsOK(t, m)'
    <3> SUFFICES ASSUME m \notin contended', tab[t].listed, tab[t].populated,
                        state[tab[t].sid] = "live"
                 PROVE  Shown(t, m, tab[t].rows)'
      BY <2>1 DEF RowsOK
    <3>1. ~Reloading(t, m)
      <4> SUFFICES ASSUME NEW q \in Threads, pc[q] = "refill", Head(todo[q]).msg = m
                   PROVE  FALSE
        BY DEF Reloading
      <4>1. todo[q] # <<>> /\ q # p
        BY <2>1 DEF ThreadInv
      <4>2. 1 \in 1..Len(todo[q]) /\ todo[q][1].msg = m
        BY <4>1, TailUpdates
      <4> QED
        BY <1>7, <4>1, <4>2, ChangeEffect
    <3>2. Shown(t, m, tab[t].rows)
      BY <2>1, <3>1 DEF ExactInv, RowsOK
    <3>3. PICK R : R = tab[t].rows
      OBVIOUS
    <3>4. Shown(t, m, R)'
      BY <2>5, <2>6, <3>2, <3>3
    <3> QED
      BY <2>1, <3>3, <3>4 DEF Shown
  <2>8. ASSUME NEW q \in Threads PROVE SeenOK(q, m)'
    <3> SUFFICES ASSUME m \notin contended', pc'[q] \in {"fill", "refill"},
                        tab[tbl[q]].listed, state[tab[tbl[q]].sid] = "live"
                 PROVE  Shown(tbl[q], m, seen[q])'
      BY <2>1 DEF SeenOK
    <3>1. q # p /\ pc[q] \in {"fill", "refill"}
      BY <2>1
    <3>2. PICK t \in Tables : t = tbl[q]
      BY <1>99, <3>1
    <3>3. PICK R : R = seen[q]
      OBVIOUS
    <3>4. Shown(t, m, R)
      BY <2>1, <3>1, <3>2, <3>3 DEF ExactInv, SeenOK
    <3>5. Shown(t, m, R)'
      BY <2>5, <2>6, <3>2, <3>4
    <3> QED
      BY <2>1, <3>2, <3>3, <3>5 DEF Shown, Will
  <2> QED
    BY <2>3, <2>4, <2>7, <2>8 DEF ExactInv
<1>8. ASSUME NEW p \in Threads, Populate(p) PROVE ExactInv'
  <2>1. /\ UNCHANGED <<place, contended, state, tab, tbl, todo, targets, upd, left>>
        /\ \A q \in Threads : q # p => pc'[q] = pc[q] /\ seen'[q] = seen[q]
        /\ pc[p] = "got" /\ pc'[p] \in {"fill", "read"}
    BY <1>0, <1>8 DEF Populate, Select
  <2>2. \A u \in Tables, m \in Msgs : WillKept(u, m)
    BY <2>1, SameWill DEF SameEntry
  <2>3. ASSUME NEW u \in Tables, NEW m \in Msgs PROVE RowsOK(u, m)'
    <3>1. RowsOK(u, m)
      BY DEF ExactInv
    <3> QED
      BY <2>1, <2>2, <3>1, KeepRows DEF SameEntry
  <2>4. ASSUME NEW q \in Threads, NEW m \in Msgs, q # p PROVE SeenOK(q, m)'
    <3>1. SeenOK(q, m)
      BY DEF ExactInv
    <3> QED
      BY <1>99, <2>1, <2>2, <2>4, <3>1, KeepSeen DEF SameEntry
  <2>5. ASSUME NEW m \in Msgs PROVE SeenOK(p, m)'
    <3>1. CASE pc'[p] = "fill"
      <4>1. tbl[p] \in Tables /\ seen'[p] = InView(tab[tbl[p]].view)
        BY <1>0, <1>8, <3>1 DEF Populate, Select, ThreadInv
      <4>2. PICK t \in Tables : t = tbl[p]
        BY <4>1
      <4> QED
        BY <2>1, <4>1, <4>2, FreshSeen
    <3>2. CASE pc'[p] # "fill"
      BY <2>1, <3>2 DEF SeenOK
    <3> QED
      BY <3>1, <3>2
  <2> QED
    BY <2>3, <2>4, <2>5 DEF ExactInv
<1>9. ASSUME NEW p \in Threads, PopulateRows(p) PROVE ExactInv'
  <2>1. PICK t \in Tables : t = tbl[p]
    BY <1>9, FillEffect
  <2>2. /\ UNCHANGED <<place, contended, state, todo, targets, upd, left>>
        /\ \A q \in Threads : q # p => /\ pc'[q] = pc[q] /\ seen'[q] = seen[q]
                                       /\ tbl'[q] = tbl[q]
        /\ pc[p] = "fill" /\ pc'[p] = "read"
    BY <1>0, <1>9 DEF PopulateRows, LoadRows
  <2>3. /\ \A u \in Tables : SameEntry(u) /\ (u # t => SameRows(u))
        /\ tab'[t].rows = seen[p]
    BY <1>9, <2>1, FillEffect
  <2>4. \A u \in Tables, m \in Msgs : WillKept(u, m)
    BY <2>2, <2>3, SameWill
  <2>5. ASSUME NEW u \in Tables, NEW m \in Msgs, u # t PROVE RowsOK(u, m)'
    <3>1. RowsOK(u, m)
      BY DEF ExactInv
    <3>2. \A q \in Threads : pc[q] = "refill" /\ tbl[q] = u => q # p
      BY <2>1, <2>5
    <3> QED
      BY <2>2, <2>3, <2>4, <2>5, <3>1, <3>2, KeepRows DEF SameRows, SameEntry
  <2>6. ASSUME NEW m \in Msgs PROVE RowsOK(t, m)'
    <3> SUFFICES ASSUME m \notin contended, tab[t].listed, state[tab[t].sid] = "live"
                 PROVE  Shown(t, m, tab[t].rows)'
      BY <2>2, <2>3 DEF RowsOK, SameEntry
    <3>1. SeenOK(p, m)
      BY DEF ExactInv
    <3>2. Shown(t, m, seen[p])
      BY <2>1, <2>2, <3>1 DEF SeenOK
    <3>3. CASE m \in seen[p] <=> place[m] = tab[t].view
      BY <2>2, <2>3, <3>3 DEF Shown, SameEntry
    <3>4. CASE \E q \in Threads : Will(q, t, m)
      <4>1. \E q \in Threads : Will(q, t, m)'
        BY <2>4, <3>4 DEF WillKept
      <4> QED
        BY <4>1 DEF Shown
    <3> QED
      BY <3>2, <3>3, <3>4 DEF Shown
  <2>7. ASSUME NEW q \in Threads, NEW m \in Msgs PROVE SeenOK(q, m)'
    <3>1. SeenOK(q, m)
      BY DEF ExactInv
    <3>2. CASE q = p
      BY <2>2, <3>2 DEF SeenOK
    <3>3. CASE q # p
      BY <1>99, <2>2, <2>3, <2>4, <3>1, <3>3, KeepSeen DEF SameEntry
    <3> QED
      BY <3>2, <3>3
  <2> QED
    BY <2>5, <2>6, <2>7 DEF ExactInv
<1>10. ASSUME NEW p \in Threads, ReleaseTable(p) PROVE ExactInv'
  <2>1. /\ UNCHANGED <<place, contended, state, seen, todo, targets, upd, left>>
        /\ \A q \in Threads : pc[q] \in {"fill", "refill", "announce", "lock"}
                              \/ pc'[q] \in {"fill", "refill"}
             => pc'[q] = pc[q] /\ tbl'[q] = tbl[q]
    BY <1>0, <1>10 DEF ReleaseTable
  <2>2. \A u \in Tables : SameEntry(u) /\ (u # tbl[p] => SameRows(u))
                          /\ (tab'[u].populated <=> tab[u].populated)
    BY <1>10, GiveBackEffect DEF SameRows
  <2>3. tab[tbl[p]].listed => tab[tbl[p]].refs # 1
    <3>1. PICK t \in Tables : t = tbl[p] /\ p \in Users(t)
      BY <1>10, GiveBackEffect
    <3>2. Cardinality(Users(t)) \in Nat /\ Cardinality(Users(t)) # 0
      BY <3>1, UsersFinite, FS_EmptySet, FS_CardinalityType
    <3>3. tab[t].listed => tab[t].refs = Cardinality(Users(t)) + 1
      BY DEF RefInv
    <3> QED
      BY <3>1, <3>2, <3>3
  <2>4. \A u \in Tables : tab'[u].listed => tab[u].listed /\ SameEntry(u) /\ SameRows(u)
    BY <1>10, <2>2, <2>3, GiveBackEffect DEF SameEntry
  <2>5. \A u \in Tables, m \in Msgs : tab'[u].listed => WillKept(u, m)
    BY <2>1, <2>2, SameWill
  <2> QED
    BY <1>99, <2>1, <2>4, <2>5, QuietKeeps DEF SameRows
<1>11. ASSUME NEW p \in Threads, EndRequest(p) PROVE ExactInv'
  <2>1. /\ UNCHANGED <<place, contended, state, tab, tbl, seen, todo, targets, upd, left>>
        /\ \A q \in Threads : pc[q] \in {"fill", "refill", "announce", "lock"}
                              \/ pc'[q] \in {"fill", "refill"} => pc'[q] = pc[q]
    BY <1>0, <1>11 DEF EndRequest
  <2>2. \A u \in Tables, m \in Msgs : WillKept(u, m)
    BY <2>1, SameWill DEF SameEntry
  <2> QED
    BY <1>99, <2>1, <2>2, QuietKeeps DEF SameEntry
<1>12. ASSUME NEW p \in Threads, FindSubscribers(p) PROVE ExactInv'
  <2>1. /\ UNCHANGED <<place, contended, state, tab, tbl, seen, todo, upd, left>>
        /\ \A q \in Threads : pc[q] \in {"fill", "refill"} \/ pc'[q] \in {"fill", "refill"}
             => pc'[q] = pc[q] /\ todo'[q] = todo[q]
    BY <1>0, <1>12 DEF FindSubscribers
  <2>2. /\ pc[p] = "announce" /\ todo[p] # <<>> /\ pc'[p] = "target"
        /\ targets'[p] = {s \in Sids : subs[<<Head(todo[p]).view, s>>] > 0}
        /\ \A q \in Threads : q # p => pc'[q] = pc[q] /\ targets'[q] = targets[q]
    BY <1>0, <1>12 DEF FindSubscribers
  <2>3. ASSUME NEW t \in Tables, NEW m \in Msgs, tab[t].listed PROVE WillKept(t, m)
    <3> SUFFICES ASSUME NEW q \in Threads, NEW i \in 1..Len(todo[q]),
                        todo[q][i].msg = m, todo[q][i].view = tab[t].view,
                        \/ i > 1 \/ pc[q] = "announce" \/ tab[t].sid \in targets[q]
                        \/ pc[q] = "lock" /\ upd[q] = tab[t].sid
                        \/ t \in left[q]
                 PROVE  Will(q, t, m)'
      BY DEF WillKept, Will
    <3>1. CASE q # p \/ i > 1
      BY <2>1, <2>2, <3>1 DEF Will
    <3>2. CASE q = p /\ ~(i > 1)
      <4>1. i = 1 /\ Head(todo[p]).view = tab[t].view
        BY <2>2, <3>2, TailUpdates
      <4>2. tab[t].sid \in Sids /\ tab[t].view \in Views
        BY <2>3 DEF TableInv
      <4>3. t \in Open(tab[t].view, tab[t].sid)
        BY <2>3 DEF Open
      <4>4. Cardinality(Open(tab[t].view, tab[t].sid)) > 0
        BY <4>3, OpenFinite, FS_EmptySet, FS_CardinalityType
      <4>5. subs[<<tab[t].view, tab[t].sid>>] > 0
        BY <4>2, <4>4 DEF SubsInv
      <4>6. tab[t].sid \in targets'[p]
        BY <2>2, <4>1, <4>2, <4>5
      <4> QED
        BY <2>1, <3>2, <4>6 DEF Will
    <3> QED
      BY <3>1, <3>2
  <2>9. \A t \in Tables, m \in Msgs : tab[t].listed => WillKept(t, m)
    BY <2>3
  <2> QED
    BY <1>99, <2>1, <2>9, QuietKeeps DEF SameEntry
<1>13. ASSUME NEW p \in Threads, LockList(p) PROVE ExactInv'
  <2>1. /\ UNCHANGED <<place, contended, state, tab, tbl, seen, todo, targets, upd>>
        /\ \A q \in Threads : pc[q] \in {"fill", "refill"} \/ pc'[q] \in {"fill", "refill"}
             => pc'[q] = pc[q] /\ todo'[q] = todo[q]
    BY <1>0, <1>13 DEF LockList
  <2>2. /\ pc[p] = "lock" /\ pc'[p] = "update" /\ todo[p] # <<>>
        /\ left'[p] = {t \in Tables : /\ tab[t].sid = upd[p] /\ tab[t].listed
                                      /\ tab[t].view = Head(todo[p]).view}
        /\ \A q \in Threads : q # p => pc'[q] = pc[q] /\ left'[q] = left[q]
    BY <1>0, <1>13 DEF LockList, ThreadInv
  <2>3. ASSUME NEW t \in Tables, NEW m \in Msgs, tab[t].listed PROVE WillKept(t, m)
    <3> SUFFICES ASSUME NEW q \in Threads, NEW i \in 1..Len(todo[q]),
                        todo[q][i].msg = m, todo[q][i].view = tab[t].view,
                        \/ i > 1 \/ pc[q] = "announce" \/ tab[t].sid \in targets[q]
                        \/ pc[q] = "lock" /\ upd[q] = tab[t].sid
                        \/ t \in left[q]
                 PROVE  Will(q, t, m)'
      BY DEF WillKept, Will
    <3>1. CASE q # p
      BY <2>1, <2>2, <3>1 DEF Will
    <3>2. CASE q = p
      <4>1. left[p] = {}
        BY <2>2 DEF ThreadInv
      <4>2. CASE i > 1 \/ tab[t].sid \in targets[p]
        BY <2>1, <3>2, <4>2 DEF Will
      <4>3. CASE ~(i > 1) /\ upd[p] = tab[t].sid
        <5>1. Head(todo[p]).view = tab[t].view
          BY <2>2, <3>2, <4>3, TailUpdates
        <5>2. t \in left'[p]
          BY <2>2, <2>3, <4>3, <5>1
        <5> QED
          BY <2>1, <3>2, <5>2 DEF Will
      <4> QED
        BY <2>2, <3>2, <4>1, <4>2, <4>3
    <3> QED
      BY <3>1, <3>2
  <2>9. \A t \in Tables, m \in Msgs : tab[t].listed => WillKept(t, m)
    BY <2>3
  <2> QED
    BY <1>99, <2>1, <2>9, QuietKeeps DEF SameEntry
<1>14. ASSUME NEW p \in Threads, ReloadRows(p) PROVE ExactInv'
  <2>1. PICK t \in Tables : t = tbl[p]
    BY <1>14, FillEffect
  <2>2. /\ UNCHANGED <<place, contended, state, todo, targets, upd, left>>
        /\ \A q \in Threads : q # p => /\ pc'[q] = pc[q] /\ seen'[q] = seen[q]
                                       /\ tbl'[q] = tbl[q]
        /\ pc[p] = "refill" /\ pc'[p] = "update"
    BY <1>0, <1>14 DEF ReloadRows
  <2>3. /\ \A u \in Tables : SameEntry(u) /\ (u # t => SameRows(u))
        /\ tab'[t].rows = seen[p]
    BY <1>14, <2>1, FillEffect
  <2>4. \A u \in Tables, m \in Msgs : WillKept(u, m)
    BY <2>2, <2>3, SameWill
  <2>5. ASSUME NEW u \in Tables, NEW m \in Msgs, u # t PROVE RowsOK(u, m)'
    <3>1. RowsOK(u, m)
      BY DEF ExactInv
    <3>2. \A q \in Threads : pc[q] = "refill" /\ tbl[q] = u => q # p
      BY <2>1, <2>5
    <3> QED
      BY <2>2, <2>3, <2>4, <2>5, <3>1, <3>2, KeepRows DEF SameRows, SameEntry
  <2>6. ASSUME NEW m \in Msgs PROVE RowsOK(t, m)'
    <3> SUFFICES ASSUME m \notin contended, tab[t].listed, state[tab[t].sid] = "live"
                 PROVE  Shown(t, m, tab[t].rows)'
      BY <2>2, <2>3 DEF RowsOK, SameEntry
    <3>1. SeenOK(p, m)
      BY DEF ExactInv
    <3>2. Shown(t, m, seen[p])
      BY <2>1, <2>2, <3>1 DEF SeenOK
    <3>3. CASE m \in seen[p] <=> place[m] = tab[t].view
      BY <2>2, <2>3, <3>3 DEF Shown, SameEntry
    <3>4. CASE \E q \in Threads : Will(q, t, m)
      <4>1. \E q \in Threads : Will(q, t, m)'
        BY <2>4, <3>4 DEF WillKept
      <4> QED
        BY <4>1 DEF Shown
    <3> QED
      BY <3>2, <3>3, <3>4 DEF Shown
  <2>7. ASSUME NEW q \in Threads, NEW m \in Msgs PROVE SeenOK(q, m)'
    <3>1. SeenOK(q, m)
      BY DEF ExactInv
    <3>2. CASE q = p
      BY <2>2, <3>2 DEF SeenOK
    <3>3. CASE q # p
      BY <1>99, <2>2, <2>3, <2>4, <3>1, <3>3, KeepSeen DEF SameEntry
    <3> QED
      BY <3>2, <3>3
  <2> QED
    BY <2>5, <2>6, <2>7 DEF ExactInv
<1>15. ASSUME NEW p \in Threads, UnlockTarget(p) PROVE ExactInv'
  <2>1. /\ UNCHANGED <<place, contended, state, tab, tbl, seen, todo, targets, left>>
        /\ \A q \in Threads : pc[q] \in {"fill", "refill"} \/ pc'[q] \in {"fill", "refill"}
             => pc'[q] = pc[q] /\ todo'[q] = todo[q]
    BY <1>0, <1>15 DEF UnlockTarget
  <2>2. /\ pc[p] = "update"
        /\ \A q \in Threads : q # p => pc'[q] = pc[q] /\ upd'[q] = upd[q]
    BY <1>0, <1>15 DEF UnlockTarget
  <2>9. \A t \in Tables, m \in Msgs : WillKept(t, m)
    BY <2>1, <2>2 DEF WillKept, Will
  <2> QED
    BY <1>99, <2>1, <2>9, QuietKeeps DEF SameEntry
<1>16. ASSUME NEW p \in Threads, NextUpdate(p) PROVE ExactInv'
  <2>1. /\ UNCHANGED <<place, contended, state, tab, tbl, seen, targets, upd, left>>
        /\ \A q \in Threads : pc[q] \in {"fill", "refill"} \/ pc'[q] \in {"fill", "refill"}
             => pc'[q] = pc[q] /\ todo'[q] = todo[q]
    BY <1>0, <1>16 DEF NextUpdate
  <2>2. /\ pc[p] = "target" /\ targets[p] = {} /\ todo'[p] = Tail(todo[p]) /\ todo[p] # <<>>
        /\ left[p] = {} /\ pc'[p] = IF Len(todo[p]) = 1 THEN "opened" ELSE "announce"
        /\ \A q \in Threads : q # p => pc'[q] = pc[q] /\ todo'[q] = todo[q]
    BY <1>0, <1>16 DEF NextUpdate, ThreadInv
  <2>3. ASSUME NEW t \in Tables, NEW m \in Msgs PROVE WillKept(t, m)
    <3> SUFFICES ASSUME NEW q \in Threads, NEW i \in 1..Len(todo[q]),
                        todo[q][i].msg = m, todo[q][i].view = tab[t].view,
                        \/ i > 1 \/ pc[q] = "announce" \/ tab[t].sid \in targets[q]
                        \/ pc[q] = "lock" /\ upd[q] = tab[t].sid
                        \/ t \in left[q]
                 PROVE  Will(q, t, m)'
      BY DEF WillKept, Will
    <3>1. CASE q # p
      BY <2>1, <2>2, <3>1 DEF Will
    <3>2. CASE q = p
      <4>1. i > 1
        BY <2>2, <3>2
      <4>2. /\ i - 1 \in 1..Len(todo'[p]) /\ todo'[p][i - 1] = todo[p][i]
            /\ pc'[p] = "announce"
        BY <2>2, <3>2, <4>1, TailUpdates
      <4> QED
        BY <2>1, <3>2, <4>2 DEF Will
    <3> QED
      BY <3>1, <3>2
  <2>9. \A t \in Tables, m \in Msgs : WillKept(t, m)
    BY <2>3
  <2> QED
    BY <1>99, <2>1, <2>9, QuietKeeps DEF SameEntry
<1>17. ASSUME NEW p \in Threads, NEW s \in Sids,
             LockTarget(p, s)
      PROVE  ExactInv'
  <2>1. /\ UNCHANGED <<place, contended, state, tab, tbl, seen, todo, left>>
        /\ \A q \in Threads : pc[q] \in {"fill", "refill"} \/ pc'[q] \in {"fill", "refill"}
             => pc'[q] = pc[q] /\ todo'[q] = todo[q]
    BY <1>0, <1>17 DEF LockTarget
  <2>2. /\ pc[p] = "target" /\ targets'[p] = targets[p] \ {s}
        /\ state[s] = "live" => upd'[p] = s /\ pc'[p] = "lock"
        /\ \A q \in Threads : q # p => /\ pc'[q] = pc[q] /\ targets'[q] = targets[q]
                                       /\ upd'[q] = upd[q]
    BY <1>0, <1>17 DEF LockTarget
  <2>3. ASSUME NEW t \in Tables, NEW m \in Msgs, state[tab[t].sid] = "live"
        PROVE  WillKept(t, m)
    <3> SUFFICES ASSUME NEW q \in Threads, NEW i \in 1..Len(todo[q]),
                        todo[q][i].msg = m, todo[q][i].view = tab[t].view,
                        \/ i > 1 \/ pc[q] = "announce" \/ tab[t].sid \in targets[q]
                        \/ pc[q] = "lock" /\ upd[q] = tab[t].sid
                        \/ t \in left[q]
                 PROVE  Will(q, t, m)'
      BY DEF WillKept, Will
    <3>1. CASE q # p
      BY <2>1, <2>2, <3>1 DEF Will
    <3>2. CASE q = p
      <4>1. \/ i > 1 \/ t \in left[p]
            \/ tab[t].sid \in targets[p] /\ tab[t].sid # s
            \/ tab[t].sid \in targets[p] /\ tab[t].sid = s
        BY <2>2, <3>2
      <4> QED
        BY <2>1, <2>2, <2>3, <3>2, <4>1 DEF Will
    <3> QED
      BY <3>1, <3>2
  <2>9. \A t \in Tables, m \in Msgs : state[tab[t].sid] = "live" => WillKept(t, m)
    BY <2>3
  <2> QED
    BY <1>99, <2>1, <2>9, QuietKeeps DEF SameEntry
<1>18. ASSUME NEW p \in Threads, NEW t \in Tables,
             UpdateRows(p, t)
      PROVE  ExactInv'
  <2>1. /\ UNCHANGED <<place, contended, state, pc, tbl, seen, todo, targets, upd>>
        /\ left' = [left EXCEPT ![p] = left[p] \ {t}] /\ t \in left[p] /\ rowMutex[t] = None
        /\ pc[p] = "update" /\ todo[p] # <<>> /\ Head(todo[p]).type # "change"
    BY <1>18 DEF UpdateRows, ThreadInv
  <2>2. /\ \A u \in Tables : SameEntry(u) /\ (u # t => SameRows(u))
        /\ tab'[t].populated <=> tab[t].populated
        /\ tab'[t].rows = IF Head(todo[p]).type = "delete"
                            THEN tab[t].rows \ {Head(todo[p]).msg}
                            ELSE tab[t].rows \cup {Head(todo[p]).msg}
    BY <1>18, FillEffect
  <2>3. \A q \in Threads : pc[q] \in {"fill", "refill"} => tbl[q] # t
    BY <1>99, <2>1 DEF LockInv
  <2>4. \A u \in Tables, m \in Msgs : u # t => WillKept(u, m)
    <3> SUFFICES ASSUME NEW u \in Tables, NEW m \in Msgs, u # t,
                        NEW q \in Threads, NEW i \in 1..Len(todo[q]),
                        todo[q][i].msg = m, todo[q][i].view = tab[u].view,
                        \/ i > 1 \/ pc[q] = "announce" \/ tab[u].sid \in targets[q]
                        \/ pc[q] = "lock" /\ upd[q] = tab[u].sid
                        \/ u \in left[q]
                 PROVE  Will(q, u, m)'
      BY DEF WillKept, Will
    <3>1. /\ pc[q] \in {"announce", "lock"} => pc'[q] = pc[q]
          /\ u \in left[q] => u \in left'[q]
      BY <1>0, <2>1
    <3>2. tab'[u].view = tab[u].view /\ tab'[u].sid = tab[u].sid
      BY <2>2 DEF SameEntry
    <3> QED
      BY <2>1, <3>1, <3>2 DEF Will
  <2>5. \A m \in Msgs : m # Head(todo[p]).msg => WillKept(t, m)
    <3> SUFFICES ASSUME NEW m \in Msgs, m # Head(todo[p]).msg,
                        NEW q \in Threads, NEW i \in 1..Len(todo[q]),
                        todo[q][i].msg = m, todo[q][i].view = tab[t].view,
                        \/ i > 1 \/ pc[q] = "announce" \/ tab[t].sid \in targets[q]
                        \/ pc[q] = "lock" /\ upd[q] = tab[t].sid
                        \/ t \in left[q]
                 PROVE  Will(q, t, m)'
      BY DEF WillKept, Will
    <3>1. CASE q # p
      BY <1>0, <2>1, <2>2, <3>1 DEF Will, SameEntry
    <3>2. CASE q = p
      <4>1. i > 1
        BY <2>1, <3>2, TailUpdates
      <4> QED
        BY <2>1, <2>2, <3>2, <4>1 DEF Will, SameEntry
    <3> QED
      BY <3>1, <3>2
  <2>6. ASSUME NEW u \in Tables, NEW m \in Msgs, u # t PROVE RowsOK(u, m)'
    <3>1. RowsOK(u, m)
      BY DEF ExactInv
    <3> QED
      BY <2>1, <2>2, <2>4, <2>6, <3>1, KeepRows DEF SameRows, SameEntry
  <2>7. ASSUME NEW m \in Msgs, m # Head(todo[p]).msg PROVE RowsOK(t, m)'
    <3> SUFFICES ASSUME m \notin contended, tab[t].listed, tab[t].populated,
                        state[tab[t].sid] = "live"
                 PROVE  Shown(t, m, tab[t].rows)'
      BY <2>1, <2>2 DEF RowsOK, SameEntry
    <3>1. Shown(t, m, tab[t].rows)
      BY <2>3 DEF ExactInv, RowsOK, Reloading
    <3>2. m \in tab'[t].rows <=> m \in tab[t].rows
      BY <2>2, <2>7
    <3>3. CASE m \in tab[t].rows <=> place[m] = tab[t].view
      BY <2>1, <2>2, <3>2, <3>3 DEF Shown, SameEntry
    <3>4. CASE \E q \in Threads : Will(q, t, m)
      <4>1. \E q \in Threads : Will(q, t, m)'
        BY <2>5, <2>7, <3>4 DEF WillKept
      <4> QED
        BY <4>1 DEF Shown
    <3> QED
      BY <3>1, <3>3, <3>4 DEF Shown
  <2>8. ASSUME NEW m \in Msgs, m = Head(todo[p]).msg PROVE RowsOK(t, m)'
    <3> SUFFICES ASSUME m \notin contended PROVE Shown(t, m, tab[t].rows)'
      BY <2>1 DEF RowsOK
    <3>1. /\ todo[p][1] = Head(todo[p]) /\ 1 \in 1..Len(todo[p])
          /\ Head(todo[p]).type \in UpdateType
      BY <2>1, TailUpdates DEF Updates
    <3>2. /\ Head(todo[p]).type \in {"add", "modify"} => place[m] = Head(todo[p]).view
          /\ Head(todo[p]).type = "delete" => place[m] # Head(todo[p]).view
      BY <2>8, <3>1 DEF TruthInv
    <3>3. tab[t].view = Head(todo[p]).view
      BY <2>1 DEF LeftInv
    <3>4. m \in tab'[t].rows <=> place[m] = tab[t].view
      BY <2>1, <2>2, <2>8, <3>1, <3>2, <3>3 DEF UpdateType
    <3> QED
      BY <2>1, <2>2, <3>4 DEF Shown, SameEntry
  <2>9. ASSUME NEW q \in Threads, NEW m \in Msgs PROVE SeenOK(q, m)'
    <3>1. SeenOK(q, m)
      BY DEF ExactInv
    <3> QED
      BY <1>99, <2>1, <2>2, <2>3, <2>4, <3>1, KeepSeen DEF SameEntry
  <2> QED
    BY <2>6, <2>7, <2>8, <2>9 DEF ExactInv
<1>19. ASSUME NEW p \in Threads, NEW t \in Tables,
             Reload(p, t)
      PROVE  ExactInv'
  <2>1. /\ UNCHANGED <<place, contended, state, tab, todo, targets, upd>>
        /\ left' = [left EXCEPT ![p] = left[p] \ {t}] /\ t \in left[p] /\ rowMutex[t] = None
        /\ pc' = [pc EXCEPT ![p] = "refill"] /\ tbl' = [tbl EXCEPT ![p] = t]
        /\ seen' = [seen EXCEPT ![p] = InView(tab[t].view)]
        /\ pc[p] = "update" /\ todo[p] # <<>>
    BY <1>19 DEF Reload, Select, ThreadInv
  <2>2. \A u \in Tables : SameEntry(u) /\ SameRows(u)
    BY <2>1 DEF SameEntry, SameRows
  <2>3. \A q \in Threads : pc[q] \in {"fill", "refill"} => tbl[q] # t
    BY <1>99, <2>1 DEF LockInv
  <2>4. \A u \in Tables, m \in Msgs : u # t => WillKept(u, m)
    <3> SUFFICES ASSUME NEW u \in Tables, NEW m \in Msgs, u # t,
                        NEW q \in Threads, NEW i \in 1..Len(todo[q]),
                        todo[q][i].msg = m, todo[q][i].view = tab[u].view,
                        \/ i > 1 \/ pc[q] = "announce" \/ tab[u].sid \in targets[q]
                        \/ pc[q] = "lock" /\ upd[q] = tab[u].sid
                        \/ u \in left[q]
                 PROVE  Will(q, u, m)'
      BY DEF WillKept, Will
    <3>1. /\ pc[q] \in {"announce", "lock"} => pc'[q] = pc[q]
          /\ u \in left[q] => u \in left'[q]
      BY <1>0, <2>1
    <3>2. tab'[u].view = tab[u].view /\ tab'[u].sid = tab[u].sid
      BY <2>2 DEF SameEntry
    <3> QED
      BY <2>1, <3>1, <3>2 DEF Will
  <2>5. \A m \in Msgs : m # Head(todo[p]).msg => WillKept(t, m)
    <3> SUFFICES ASSUME NEW m \in Msgs, m # Head(todo[p]).msg,
                        NEW q \in Threads, NEW i \in 1..Len(todo[q]),
                        todo[q][i].msg = m, todo[q][i].view = tab[t].view,
                        \/ i > 1 \/ pc[q] = "announce" \/ tab[t].sid \in targets[q]
                        \/ pc[q] = "lock" /\ upd[q] = tab[t].sid
                        \/ t \in left[q]
                 PROVE  Will(q, t, m)'
      BY DEF WillKept, Will
    <3>1. CASE q # p
      BY <1>0, <2>1, <2>2, <3>1 DEF Will, SameEntry
    <3>2. CASE q = p
      <4>1. i > 1
        BY <2>1, <3>2, TailUpdates
      <4> QED
        BY <2>1, <2>2, <3>2, <4>1 DEF Will, SameEntry
    <3> QED
      BY <3>1, <3>2
  <2>6. \A q \in Threads : q # p => /\ pc'[q] = pc[q] /\ tbl'[q] = tbl[q]
                                    /\ seen'[q] = seen[q]
    BY <1>0, <2>1
  <2>7. ASSUME NEW u \in Tables, NEW m \in Msgs, u # t \/ m # Head(todo[p]).msg
        PROVE  RowsOK(u, m)'
    <3>1. RowsOK(u, m) /\ WillKept(u, m)
      BY <2>4, <2>5, <2>7 DEF ExactInv
    <3>2. \A q \in Threads : pc[q] = "refill" => q # p
      BY <2>1
    <3> QED
      BY <2>1, <2>2, <2>6, <3>1, <3>2, KeepRows DEF SameRows, SameEntry
  <2>8. ASSUME NEW m \in Msgs, m = Head(todo[p]).msg PROVE RowsOK(t, m)'
    <3>1. Reloading(t, m)'
      BY <1>0, <2>1, <2>8 DEF Reloading
    <3> QED
      BY <3>1 DEF RowsOK
  <2>9. ASSUME NEW q \in Threads, NEW m \in Msgs PROVE SeenOK(q, m)'
    <3>1. SeenOK(q, m)
      BY DEF ExactInv
    <3>2. CASE q = p
      <4>1. tbl'[p] = t /\ seen'[p] = InView(tab[t].view)
        BY <1>0, <2>1
      <4> QED
        BY <2>1, <3>2, <4>1, FreshSeen
    <3>3. CASE q # p
      BY <1>99, <2>1, <2>2, <2>3, <2>4, <2>6, <3>1, <3>3, KeepSeen DEF SameEntry
    <3> QED
      BY <3>2, <3>3
  <2> QED
    BY <2>7, <2>8, <2>9 DEF ExactInv
<1>20. CASE UNCHANGED vars
  <2>1. UNCHANGED <<place, contended, state, tab, pc, tbl, seen, todo, targets, upd, left>>
    BY <1>20 DEF vars
  <2>2. \A u \in Tables, m \in Msgs : WillKept(u, m)
    BY <2>1, SameWill DEF SameEntry
  <2> QED
    BY <1>99, <2>1, <2>2, QuietKeeps DEF SameEntry
<1> QED
  BY <1>1, <1>2, <1>3, <1>4, <1>5, <1>6, <1>7, <1>8, <1>9, <1>10, <1>11,
     <1>12, <1>13, <1>14, <1>15, <1>16, <1>17, <1>18, <1>19, <1>20, StepCases

-----------------------------------------------------------------------------
(* Theorems. *)

(* The inductive invariant. *)
TInv ==
  /\ TypeOK /\ ThreadInv /\ LockInv /\ HeldInv
  /\ TableInv /\ RefInv /\ LeftInv /\ SubsInv /\ TruthInv /\ ExactInv

(* Threads, locks, references, subscriptions and rows stay in agreement.     *)
THEOREM Invariance == Spec => []TInv
<1>1. Init => TInv
  BY TypeInit, ThreadsInit, RestInit DEF TInv
<1>2. TInv /\ [Next]_vars => TInv'
  <2> SUFFICES ASSUME TInv, [Next]_vars PROVE TInv'
    OBVIOUS
  <2> USE DEF TInv
  <2>1. ThreadInv' /\ LockInv' /\ HeldInv'
    BY ThreadsNext, LocksNext, HeldNext
  <2>2. TableInv' /\ RefInv' /\ LeftInv' /\ SubsInv'
    BY TablesNext, RefsNext, LeftNext, SubsNext
  <2>3. TypeOK'
    BY <2>2, TypeNext
  <2>4. TruthInv' /\ ExactInv'
    BY TruthNext, ExactNext
  <2> QED
    BY <2>1, <2>2, <2>3, <2>4
<1> QED
  BY <1>1, <1>2, PTL DEF Spec

(* Every variable keeps its type. *)
THEOREM TypeCorrect == Spec => []TypeOK
<1>1. TInv => TypeOK
  BY DEF TInv
<1> QED
  BY <1>1, Invariance, PTL

(* No table is freed while a thread uses it or UpdateTables has it in hand,  *)
(* and none is kept when nobody does.                                        *)
THEOREM TablesAreFreedInTime == Spec => []TablesInUseExist
<1>1. TInv => TablesInUseExist
  BY DEF TInv, TablesInUseExist, RefInv, TableInv, LeftInv
<1> QED
  BY <1>1, Invariance, PTL

(* The session manager's subscriptions are those of the open tables, and a   *)
(* deleted session leaves no table behind.                                   *)
THEOREM SubscriptionsAreThoseOfTables == Spec => []SubscriptionsAgree
<1>1. TInv => SubscriptionsAgree
  <2> SUFFICES ASSUME TInv PROVE SubscriptionsAgree
    OBVIOUS
  <2> USE DEF TInv
  <2>1. \A v \in Views, s \in Sids :
          subs[<<v, s>>] = Cardinality({t \in Tables : /\ tab[t].sid = s /\ tab[t].listed
                                                      /\ tab[t].view = v})
    BY DEF SubsInv, Open
  <2>2. ASSUME NEW t \in Tables, tab[t].sid # None, state[tab[t].sid] = "freed"
        PROVE  tab[t].freed
    <3>1. ~tab[t].listed
      BY <2>2 DEF TableInv
    <3>2. \A p \in Threads : p \notin Users(t)
      BY <2>2, TableAssumption DEF TableInv, HeldInv, Users
    <3>3. Users(t) = {}
      BY <3>2 DEF Users
    <3>4. tab[t].refs = 0
      BY <3>1, <3>3, FS_EmptySet DEF RefInv
    <3> QED
      BY <2>2, <3>4 DEF TableInv
  <2> QED
    BY <2>1, <2>2 DEF SubscriptionsAgree
<1> QED
  BY <1>1, Invariance, PTL

(* A filled table shows exactly what is in its view, once the changes of the *)
(* message are announced, whatever was opened, filled, reloaded and closed   *)
(* meanwhile; unless two requests changed the message at a time.             *)
THEOREM FilledTablesAreExact == Spec => []TablesAreExact
<1>1. TInv => TablesAreExact
  <2> SUFFICES ASSUME TInv, NEW t \in Tables, NEW m \in Msgs \ contended,
                      tab[t].listed, tab[t].populated, state[tab[t].sid] = "live",
                      Announced(m)
               PROVE  m \in tab[t].rows <=> place[m] = tab[t].view
    BY DEF TablesAreExact
  <2>1. ~\E q \in Threads : Will(q, t, m)
    BY DEF Will, Announced
  <2>2. ~Reloading(t, m)
    <3> SUFFICES ASSUME NEW q \in Threads, pc[q] = "refill", Head(todo[q]).msg = m
                 PROVE  FALSE
      BY DEF Reloading
    <3>1. todo[q] # <<>>
      BY DEF TInv, ThreadInv
    <3>2. 1 \in 1..Len(todo[q]) /\ todo[q][1].msg = m
      BY <3>1, TailUpdates DEF TInv
    <3> QED
      BY <3>2 DEF Announced
  <2>3. RowsOK(t, m)
    BY DEF TInv, ExactInv
  <2> QED
    BY <2>1, <2>2, <2>3 DEF RowsOK, Shown
<1> QED
  BY <1>1, Invariance, PTL

(* Who has a table's lock needs nothing else, who has a list's only tables'  *)
(* locks; so of the threads that work one can always go on, for any number   *)
(* of sessions, threads and tables.                                          *)
THEOREM NobodyWaitsForever == Spec => []NobodyHangs
<1>1. TInv => NobodyHangs
  <2> SUFFICES ASSUME TInv, \A p \in Threads : ~Ready(p)
               PROVE  /\ \A p \in Threads : pc[p] = "idle"
                      /\ \A s \in Sids : listMutex[s] = None
                      /\ \A t \in Tables : rowMutex[t] = None
    BY DEF NobodyHangs
  <2> USE TableAssumption DEF TInv, TypeOK, ThreadInv
  <2>1. \A p \in Threads : pc[p] \notin {"fill", "refill"}
    BY DEF Ready
  <2>2. \A t \in Tables : rowMutex[t] = None
    BY <2>1 DEF LockInv
  <2>3. \A p \in Threads : pc[p] # "update" /\ pc[p] # "got"
    BY <2>2 DEF Ready
  <2>4. \A s \in Sids : listMutex[s] = None
    BY <2>1, <2>3 DEF LockInv
  <2>5. \A p \in Threads : pc[p] # "lock" /\ pc[p] # "request"
    BY <2>4 DEF Ready
  <2>6. \A p \in Threads : pc[p] = "idle"
    BY <2>1, <2>3, <2>5 DEF Ready
  <2> QED
    BY <2>2, <2>4, <2>6
<1> QED
  BY <1>1, Invariance, PTL
=============================================================================
