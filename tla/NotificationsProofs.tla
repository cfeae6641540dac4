------------------------- MODULE NotificationsProofs -------------------------
(***************************************************************************)
(* Proofs about Notifications, for any number of sessions, connections,    *)
(* request threads and notifications: a client that asks gets one answer,  *)
(* notifications are answered in order and none is overlooked, and nobody  *)
(* waits for a session that has ended without being told; the exit has the *)
(* only deadlock. Last, that Notifications implements NotificationDelivery. *)
(***************************************************************************)
EXTENDS Notifications, SequenceTheorems, TLAPS

-----------------------------------------------------------------------------
(* Threads: what each of them holds at its program counter.                  *)

(* A connection is with one request thread, and not also with Work. *)
ConnInv ==
  /\ \A p \in Procs : conn[p] # None <=> pc[p] = "add"
  /\ \A p, q \in Procs : conn[p] = conn[q] /\ conn[p] # None => p = q
  /\ \A p \in Procs : conn[p] # None => conn[p] # lpItem

(* A thread has the session it needs, and nothing to mark before it marks.   *)
ThreadInv ==
  /\ \A p \in Procs : pc[p] \in {"add", "shutdown"} => sid[p] \in Sids
  /\ \A p \in Procs :
       pc[p] \in {"idle", "add", "members", "shutdown"} => todo[p] = {}
  /\ npc \in {"validate", "items", "answer"} =>
       cur \in Sids /\ mapRequests[cur] # None
  /\ npc \in {"top", "waiting", "sweep", "exited"} => batch = {}

(* A parked request is answered: nothing is owed on its connection after.    *)
LEMMA AnswerPays ==
  ASSUME TypeOK, OneAnswer, NEW s \in Sids, mapRequests[s] # None,
         Answer(mapRequests[s])
  PROVE  owed' = [owed EXCEPT ![mapRequests[s]] = 0] /\ mapRequests[s] \in Conns
         /\ mapRequests[s] \in Parked /\ lost' \subseteq Conns
<1>1. mapRequests[s] \in Conns /\ mapRequests[s] \in Parked
  BY DEF TypeOK, Parked
<1>2. owed[mapRequests[s]] - 1 = 0
  BY <1>1 DEF OneAnswer
<1> QED
  BY <1>1, <1>2 DEF Answer, TypeOK

(* Initially all threads are idle. *)
LEMMA ThreadsInit == Init => ConnInv /\ ThreadInv
  BY DEF Init, ConnInv, ThreadInv

(* The threads' invariant is inductive, given types and OneAnswer. *)
LEMMA ThreadsNext ==
  TypeOK /\ OneAnswer /\ ConnInv /\ ThreadInv /\ [Next]_vars => ConnInv' /\ ThreadInv'
<1> SUFFICES ASSUME TypeOK, OneAnswer, ConnInv, ThreadInv, [Next]_vars
             PROVE  ConnInv' /\ ThreadInv'
  OBVIOUS
<1> USE NotificationsAssumption DEF TypeOK, ConnInv, ThreadInv, Goto, groupVars,
       managerVars, workVars, procVars, clientVars, RequestsLocked
<1>1. ASSUME NEW p \in Procs, NEW c \in Conns, NEW s \in Sids, Ask(p, c, s) PROVE ConnInv' /\ ThreadInv'
  BY <1>1 DEF Ask, InUse
<1>2. ASSUME NEW p \in Procs, NEW s \in Sids, RemoveSession(p, s) PROVE ConnInv' /\ ThreadInv'
  BY <1>2 DEF RemoveSession
<1>3. ASSUME NEW p \in Procs, AddNotification(p) PROVE ConnInv' /\ ThreadInv'
  BY <1>3 DEF AddNotification
<1>4. ASSUME NEW p \in Procs, AddRequest(p) PROVE ConnInv' /\ ThreadInv'
  BY <1>4 DEF AddRequest
<1>5. ASSUME NEW p \in Procs, MarkGroup(p) PROVE ConnInv' /\ ThreadInv'
  BY <1>5 DEF MarkGroup
<1>6. ASSUME NEW p \in Procs, NotifyChange(p) PROVE ConnInv' /\ ThreadInv'
  BY <1>6 DEF NotifyChange
<1>7. ASSUME NEW p \in Procs, DeleteSession(p) PROVE ConnInv' /\ ThreadInv'
  BY <1>7 DEF DeleteSession
<1>8. ASSUME NEW s \in Sids, ExpireSession(s) PROVE ConnInv' /\ ThreadInv'
  BY <1>8 DEF ExpireSession
<1>9. ASSUME NEW c \in Conns, Age(c) PROVE ConnInv' /\ ThreadInv'
  BY <1>9 DEF Age
<1>10. CASE WorkTop
  BY <1>10 DEF WorkTop, CopyActive
<1>11. CASE WaitOver
  BY <1>11 DEF WaitOver, CopyActive
<1>12. CASE NextSession
  BY <1>12 DEF NextSession
<1>13. CASE ValidateSession
  BY <1>13 DEF ValidateSession
<1>14. CASE GetNotifyItems
  BY <1>14 DEF GetNotifyItems
<1>15. CASE SendAnswer
  <2>1. cur \in Sids /\ mapRequests[cur] \in Parked /\ mapRequests[cur] \in Conns
    BY <1>15, AnswerPays DEF SendAnswer
  <2>2. \A p \in Procs : conn[p] # mapRequests[cur]
    BY <2>1 DEF OneAnswer
  <2> QED
    BY <1>15, <2>2 DEF SendAnswer
<1>16. CASE HandBack
  BY <1>16 DEF HandBack
<1>17. CASE Sweep
  BY <1>17 DEF Sweep
<1>18. CASE RemoveAllSessions
  BY <1>18 DEF RemoveAllSessions
<1>19. CASE LockCache
  BY <1>19 DEF LockCache
<1>20. CASE SignalExit
  BY <1>20 DEF SignalExit
<1>21. CASE JoinThread
  BY <1>21 DEF JoinThread
<1>22. CASE UNCHANGED vars
  BY <1>22 DEF vars
<1> QED
  BY <1>1, <1>2, <1>3, <1>4, <1>5, <1>6, <1>7, <1>8, <1>9, <1>10, <1>11,
     <1>12, <1>13, <1>14, <1>15, <1>16, <1>17, <1>18, <1>19, <1>20, <1>21,
     <1>22
     DEF Next, ProcStep, Work, Exit, Terminated

-----------------------------------------------------------------------------
(* Answers. *)

(* Initially nobody has asked. *)
LEMMA AnswersInit == Init => OneAnswer
<1> SUFFICES ASSUME Init PROVE OneAnswer
  OBVIOUS
<1>1. Parked = {}
  BY DEF Init, Parked
<1>2. \A c \in Conns : c \notin {conn[p] : p \in Procs}
  BY NotificationsAssumption DEF Init
<1> QED
  BY <1>1, <1>2, NotificationsAssumption DEF Init, OneAnswer

(* A step that leaves connections alone keeps OneAnswer. *)
LEMMA SameAnswersKeep ==
  ASSUME OneAnswer, UNCHANGED <<owed, mapRequests, conn>>,
         lpItem' \in {lpItem, None}, TypeOK
  PROVE  OneAnswer'
  BY NotificationsAssumption DEF OneAnswer, Parked, TypeOK

(* OneAnswer is inductive, given the threads' invariant.                     *)
LEMMA AnswersNext ==
  TypeOK /\ OneAnswer /\ ConnInv /\ ThreadInv /\ [Next]_vars => OneAnswer'
<1> SUFFICES ASSUME TypeOK, OneAnswer, ConnInv, ThreadInv, [Next]_vars
             PROVE  OneAnswer'
  OBVIOUS
<1> USE NotificationsAssumption DEF groupVars, managerVars, workVars, procVars, clientVars
<1>1. ASSUME NEW p \in Procs, NEW c \in Conns, NEW s \in Sids, Ask(p, c, s) PROVE OneAnswer'
  <2>1. c \notin Parked /\ c # lpItem /\ \A q \in Procs : conn[q] # c
    BY <1>1 DEF Ask, InUse
  <2>2. owed[c] = 0 /\ conn[p] = None
    BY <1>1, <2>1 DEF OneAnswer, Ask, ConnInv
  <2>3. Parked' = Parked /\ {conn'[q] : q \in Procs} \cup {None}
          = {conn[q] : q \in Procs} \cup {c, None}
    BY <1>1, <2>2 DEF Ask, Parked, TypeOK
  <2>4. \A d \in Conns : owed'[d] = IF d = c THEN 1 ELSE owed[d]
    BY <1>1, <2>2 DEF Ask, TypeOK
  <2>5. \A d \in Conns : d # None
    OBVIOUS
  <2>6. \A d \in Conns : d \in Parked' \cup {conn'[q] : q \in Procs}
          <=> d \in Parked \cup {conn[q] : q \in Procs} \/ d = c
    BY <2>3, <2>5
  <2>7. \A d \in Conns : owed'[d] = (IF d \in Parked' \cup {conn'[q] : q \in Procs} THEN 1 ELSE 0)
    BY <2>4, <2>6 DEF OneAnswer
  <2>8. \A d \in Conns : d \in Parked => \A q \in Procs : conn'[q] # d
    BY <1>1, <2>1 DEF OneAnswer, Ask, TypeOK
  <2> QED
    BY <1>1, <2>3, <2>7, <2>8 DEF OneAnswer, Ask
<1>2. ASSUME NEW p \in Procs, NEW s \in Sids, RemoveSession(p, s) PROVE OneAnswer'
  BY <1>2, SameAnswersKeep DEF RemoveSession
<1>3. ASSUME NEW p \in Procs, AddNotification(p) PROVE OneAnswer'
  BY <1>3, SameAnswersKeep DEF AddNotification
<1>4. ASSUME NEW p \in Procs, AddRequest(p) PROVE OneAnswer'
  <2> DEFINE s == sid[p]  old == mapRequests[s]  c == conn[p]
  <2>1. s \in Sids /\ c \in Conns /\ c # lpItem /\ \A q \in Procs : q # p => conn[q] # c
    BY <1>4 DEF AddRequest, ConnInv, ThreadInv, TypeOK
  <2>2. owed[c] = 1 /\ c \notin Parked
    BY <2>1 DEF OneAnswer
  <2>3. /\ mapRequests' = [mapRequests EXCEPT ![s] = c] /\ UNCHANGED lpItem
        /\ conn' = [conn EXCEPT ![p] = None]
    BY <1>4 DEF AddRequest
  <2>4. \A u \in Sids : mapRequests[u] # c
    BY <2>1, <2>2 DEF Parked
  <2>5. \A u \in Sids : u # s /\ mapRequests[u] # None => mapRequests[u] # old
    BY <2>1 DEF OneAnswer, TypeOK
  <2>6. \A d \in Conns : d \in Parked' <=> d = c \/ (d \in Parked /\ d # old)
    BY <2>1, <2>3, <2>5 DEF Parked, TypeOK
  <2>7. \A d \in Conns : d \in {conn'[q] : q \in Procs}
                        <=> d \in {conn[q] : q \in Procs} /\ d # c
    BY <2>1, <2>3 DEF TypeOK
  <2>8. \A d \in Conns : owed'[d] = IF d = old THEN 0 ELSE owed[d]
    <3>1. CASE old # None /\ Answer(old)
      BY <2>1, <3>1, AnswerPays DEF TypeOK
    <3>2. CASE old = None /\ UNCHANGED clientVars
      BY <3>2
    <3> QED
      BY <1>4, <3>1, <3>2 DEF AddRequest
  <2>9. old # None => old \in Parked /\ old \in Conns /\ \A q \in Procs : conn[q] # old
    BY <2>1 DEF Parked, OneAnswer, TypeOK
  <2>10. \A d \in Conns :
           owed'[d] = (IF d \in Parked' \cup {conn'[q] : q \in Procs} THEN 1 ELSE 0)
    <3> SUFFICES ASSUME NEW d \in Conns
                 PROVE  owed'[d] = (IF d \in Parked' \cup {conn'[q] : q \in Procs} THEN 1 ELSE 0)
      OBVIOUS
    <3>1. CASE d = old
      BY <2>2, <2>6, <2>7, <2>8, <2>9, <3>1
    <3>2. CASE d = c
      BY <2>2, <2>6, <2>8, <2>9, <3>2
    <3>3. CASE d # old /\ d # c
      BY <2>6, <2>7, <2>8, <3>3 DEF OneAnswer
    <3> QED
      BY <3>1, <3>2, <3>3
  <2>11. \A d \in Conns, u, v \in Sids : mapRequests'[u] = d /\ mapRequests'[v] = d => u = v
    BY <2>1, <2>3, <2>4 DEF OneAnswer, TypeOK
  <2>12. \A d \in Conns : d \in Parked' => d # lpItem' /\ \A q \in Procs : conn'[q] # d
    BY <2>1, <2>3, <2>6, <2>7 DEF OneAnswer
  <2> QED
    BY <2>10, <2>11, <2>12 DEF OneAnswer
<1>5. ASSUME NEW p \in Procs, MarkGroup(p) PROVE OneAnswer'
  BY <1>5, SameAnswersKeep DEF MarkGroup
<1>6. ASSUME NEW p \in Procs, NotifyChange(p) PROVE OneAnswer'
  BY <1>6, SameAnswersKeep DEF NotifyChange
<1>7. ASSUME NEW p \in Procs, DeleteSession(p) PROVE OneAnswer'
  BY <1>7, SameAnswersKeep DEF DeleteSession
<1>8. ASSUME NEW s \in Sids, ExpireSession(s) PROVE OneAnswer'
  BY <1>8, SameAnswersKeep DEF ExpireSession
<1>9. ASSUME NEW c \in Conns, Age(c) PROVE OneAnswer'
  BY <1>9, SameAnswersKeep DEF Age
<1>10. CASE WorkTop
  BY <1>10, SameAnswersKeep DEF WorkTop
<1>11. CASE WaitOver
  BY <1>11, SameAnswersKeep DEF WaitOver
<1>12. CASE NextSession
  BY <1>12, SameAnswersKeep DEF NextSession
<1>13. CASE ValidateSession
  BY <1>13, SameAnswersKeep DEF ValidateSession
<1>14. CASE GetNotifyItems
  BY <1>14, SameAnswersKeep DEF GetNotifyItems
<1>15. CASE SendAnswer
  <2> DEFINE c == mapRequests[cur]
  <2>1. /\ cur \in Sids /\ c \in Conns /\ c \in Parked
        /\ owed' = [owed EXCEPT ![c] = 0]
    BY <1>15, AnswerPays DEF SendAnswer, ThreadInv
  <2>2. mapRequests' = [mapRequests EXCEPT ![cur] = None] /\ lpItem' = c /\ UNCHANGED conn
    BY <1>15 DEF SendAnswer
  <2>3. \A d \in Conns : d \in Parked' <=> d \in Parked /\ d # c
    BY <2>1, <2>2 DEF Parked, OneAnswer, TypeOK
  <2>4. \A q \in Procs : conn[q] # c
    BY <2>1 DEF OneAnswer
  <2>5. \A d \in Conns : owed'[d] = IF d = c THEN 0 ELSE owed[d]
    BY <2>1 DEF TypeOK
  <2>6. \A d \in Conns : owed'[d] = (IF d \in Parked' \cup {conn'[q] : q \in Procs} THEN 1 ELSE 0)
    BY <2>2, <2>3, <2>4, <2>5 DEF OneAnswer
  <2>7. \A d \in Conns, u, v \in Sids : mapRequests'[u] = d /\ mapRequests'[v] = d => u = v
    BY <2>1, <2>2 DEF OneAnswer, TypeOK
  <2> QED
    BY <2>2, <2>3, <2>6, <2>7 DEF OneAnswer
<1>16. CASE HandBack
  BY <1>16, SameAnswersKeep DEF HandBack
<1>17. CASE Sweep
  BY <1>17, SameAnswersKeep DEF Sweep
<1>18. CASE RemoveAllSessions
  BY <1>18, SameAnswersKeep DEF RemoveAllSessions
<1>19. CASE LockCache
  BY <1>19, SameAnswersKeep DEF LockCache
<1>20. CASE SignalExit
  BY <1>20, SameAnswersKeep DEF SignalExit
<1>21. CASE JoinThread
  <2>1. \A d \in Conns : d \notin Parked'
    BY <1>21 DEF JoinThread, Parked
  <2>2. UNCHANGED conn /\ \A d \in Conns : owed'[d] = IF d \in Parked THEN 0 ELSE owed[d]
    BY <1>21 DEF JoinThread
  <2>3. \A d \in Conns : owed'[d] = (IF d \in Parked' \cup {conn'[q] : q \in Procs} THEN 1 ELSE 0)
    BY <2>1, <2>2 DEF OneAnswer
  <2> QED
    BY <1>21, <2>1, <2>3 DEF JoinThread, OneAnswer
<1>22. CASE UNCHANGED vars
  BY <1>22, SameAnswersKeep DEF vars
<1> QED
  BY <1>1, <1>2, <1>3, <1>4, <1>5, <1>6, <1>7, <1>8, <1>9, <1>10, <1>11,
     <1>12, <1>13, <1>14, <1>15, <1>16, <1>17, <1>18, <1>19, <1>20, <1>21,
     <1>22
     DEF Next, ProcStep, Work, Exit, Terminated

-----------------------------------------------------------------------------
(* Types. *)

(* Initially every variable has its type. *)
LEMMA TypeInit == Init => TypeOK
<1> SUFFICES ASSUME Init PROVE TypeOK
  OBVIOUS
<1>1. <<>> \in Seq(1..MaxNotes)
  OBVIOUS
<1>2. /\ owed \in [Conns -> 0..1] /\ mapRequests \in [Sids -> Conns \cup {None}]
      /\ pc \in [Procs -> ProcPc] /\ conn \in [Procs -> Conns \cup {None}]
      /\ sid \in [Procs -> Sids \cup {None}] /\ todo \in [Procs -> SUBSET Sids]
  BY DEF Init, ProcPc
<1>3. queue \in Seq(1..MaxNotes) /\ taken \in Seq(1..MaxNotes)
  BY <1>1 DEF Init
<1>4. sent \in 0..MaxNotes
  BY NotificationsAssumption DEF Init
<1> QED
  BY <1>2, <1>3, <1>4 DEF Init, TypeOK, WorkPc

(* Every step keeps the types: no answer is sent that nobody waits for.      *)
LEMMA TypeNext ==
  TypeOK /\ OneAnswer /\ ConnInv /\ ThreadInv /\ [Next]_vars => TypeOK'
<1> SUFFICES ASSUME TypeOK, OneAnswer, ConnInv, ThreadInv, [Next]_vars
             PROVE  TypeOK'
  OBVIOUS
<1> USE NotificationsAssumption DEF TypeOK, WorkPc, ProcPc, Goto, LeaveGroup, groupVars,
       managerVars, workVars, procVars, clientVars
<1>1. ASSUME NEW p \in Procs, NEW c \in Conns, NEW s \in Sids, Ask(p, c, s) PROVE TypeOK'
  <2>1. owed[c] = 0
    BY <1>1 DEF Ask, InUse, OneAnswer
  <2> QED
    BY <1>1, <2>1 DEF Ask
<1>2. ASSUME NEW p \in Procs, NEW s \in Sids, RemoveSession(p, s) PROVE TypeOK'
  BY <1>2 DEF RemoveSession
<1>3. ASSUME NEW p \in Procs, AddNotification(p) PROVE TypeOK'
  <2>1. sent + 1 \in 1..MaxNotes /\ queue' = Append(queue, sent + 1)
    BY <1>3 DEF AddNotification
  <2>2. queue' \in Seq(1..MaxNotes)
    BY <2>1
  <2> QED
    BY <1>3, <2>1, <2>2 DEF AddNotification
<1>4. ASSUME NEW p \in Procs, AddRequest(p) PROVE TypeOK'
  <2>1. sid[p] \in Sids /\ conn[p] \in Conns
    BY <1>4 DEF AddRequest, ConnInv, ThreadInv
  <2>2. owed' \in [Conns -> 0..1] /\ lost' \subseteq Conns
    <3>1. CASE mapRequests[sid[p]] # None /\ Answer(mapRequests[sid[p]])
      BY <2>1, <3>1, AnswerPays
    <3>2. CASE mapRequests[sid[p]] = None /\ UNCHANGED clientVars
      BY <3>2
    <3> QED
      BY <1>4, <3>1, <3>2 DEF AddRequest
  <2> QED
    BY <1>4, <2>1, <2>2 DEF AddRequest
<1>5. ASSUME NEW p \in Procs, MarkGroup(p) PROVE TypeOK'
  BY <1>5 DEF MarkGroup
<1>6. ASSUME NEW p \in Procs, NotifyChange(p) PROVE TypeOK'
  BY <1>6 DEF NotifyChange
<1>7. ASSUME NEW p \in Procs, DeleteSession(p) PROVE TypeOK'
  <2>1. <<>> \in Seq(1..MaxNotes) /\ sid[p] \in Sids
    BY <1>7 DEF DeleteSession, ThreadInv
  <2> QED
    BY <1>7, <2>1 DEF DeleteSession
<1>8. ASSUME NEW s \in Sids, ExpireSession(s) PROVE TypeOK'
  <2>1. <<>> \in Seq(1..MaxNotes)
    OBVIOUS
  <2> QED
    BY <1>8, <2>1 DEF ExpireSession
<1>9. ASSUME NEW c \in Conns, Age(c) PROVE TypeOK'
  BY <1>9 DEF Age
<1>10. CASE WorkTop
  BY <1>10 DEF WorkTop, CopyActive
<1>11. CASE WaitOver
  BY <1>11 DEF WaitOver, CopyActive
<1>12. CASE NextSession
  BY <1>12 DEF NextSession
<1>13. CASE ValidateSession
  BY <1>13 DEF ValidateSession
<1>14. CASE GetNotifyItems
  <2>1. taken \o queue \in Seq(1..MaxNotes) /\ <<>> \in Seq(1..MaxNotes)
    OBVIOUS
  <2> QED
    BY <1>14, <2>1 DEF GetNotifyItems
<1>15. CASE SendAnswer
  <2>1. cur \in Sids /\ mapRequests[cur] \in Conns
    BY <1>15, AnswerPays DEF SendAnswer, ThreadInv
  <2>2. owed' \in [Conns -> 0..1] /\ lost' \subseteq Conns
    BY <1>15, <2>1, AnswerPays DEF SendAnswer
  <2> QED
    BY <1>15, <2>1, <2>2 DEF SendAnswer
<1>16. CASE HandBack
  BY <1>16 DEF HandBack
<1>17. CASE Sweep
  BY <1>17 DEF Sweep
<1>18. CASE RemoveAllSessions
  <2>1. <<>> \in Seq(1..MaxNotes)
    OBVIOUS
  <2> QED
    BY <1>18, <2>1 DEF RemoveAllSessions
<1>19. CASE LockCache
  BY <1>19 DEF LockCache
<1>20. CASE SignalExit
  BY <1>20 DEF SignalExit
<1>21. CASE JoinThread
  <2>1. Parked \subseteq Conns
    BY DEF Parked
  <2> QED
    BY <1>21, <2>1 DEF JoinThread
<1>22. CASE UNCHANGED vars
  BY <1>22 DEF vars
<1> QED
  BY <1>1, <1>2, <1>3, <1>4, <1>5, <1>6, <1>7, <1>8, <1>9, <1>10, <1>11,
     <1>12, <1>13, <1>14, <1>15, <1>16, <1>17, <1>18, <1>19, <1>20, <1>21,
     <1>22
     DEF Next, ProcStep, Work, Exit, Terminated

-----------------------------------------------------------------------------
(* Marked sessions. *)

(* The sessions that can be locked are in the group, and the one Work has    *)
(* locked is not deleted; a session on its way out cannot be locked.         *)
SessionsInv ==
  /\ mapSessions \subseteq members
  /\ \A p \in Procs : pc[p] = "shutdown" => sid[p] \notin mapSessions
  /\ npc = "items" /\ cur \notin mapSessions => Ending(cur) \/ main # "run"

(* Marked, without the threads that have still to mark the group.            *)
Told(s) ==
  \/ s \in setActive \cup batch
  \/ npc \in {"validate", "items", "answer"} /\ cur = s
  \/ \E p \in Procs : s \in todo[p]

(* A request of a session that has ended is told, or will be. *)
EndedIsTold ==
  \A s \in Sids \ mapSessions :
    mapRequests[s] # None => Told(s) \/ Ending(s) \/ main # "run"

(* Initially nobody waits. *)
LEMMA MarksInit == Init => SessionsInv /\ EndedIsTold /\ NothingOverlooked
  BY DEF Init, SessionsInv, EndedIsTold, NothingOverlooked

(* A thread told of a session is marked. *)
LEMMA ToldIsMarked == \A s \in Sids : Told(s) => Marked(s)
  BY DEF Told, Marked

(* The sessions' invariant is inductive. *)
LEMMA SessionsNext ==
  TypeOK /\ ConnInv /\ ThreadInv /\ SessionsInv /\ [Next]_vars => SessionsInv'
<1> SUFFICES ASSUME TypeOK, ConnInv, ThreadInv, SessionsInv, [Next]_vars
             PROVE  SessionsInv'
  OBVIOUS
<1> USE NotificationsAssumption DEF TypeOK, ThreadInv, SessionsInv, Ending, Goto, LeaveGroup,
       groupVars, managerVars, workVars, procVars, clientVars
<1>1. ASSUME NEW p \in Procs, NEW c \in Conns, NEW s \in Sids, Ask(p, c, s) PROVE SessionsInv'
  BY <1>1 DEF Ask
<1>2. ASSUME NEW p \in Procs, NEW s \in Sids, RemoveSession(p, s) PROVE SessionsInv'
  BY <1>2 DEF RemoveSession
<1>3. ASSUME NEW p \in Procs, AddNotification(p) PROVE SessionsInv'
  BY <1>3 DEF AddNotification
<1>4. ASSUME NEW p \in Procs, AddRequest(p) PROVE SessionsInv'
  BY <1>4 DEF AddRequest
<1>5. ASSUME NEW p \in Procs, MarkGroup(p) PROVE SessionsInv'
  BY <1>5 DEF MarkGroup
<1>6. ASSUME NEW p \in Procs, NotifyChange(p) PROVE SessionsInv'
  BY <1>6 DEF NotifyChange
<1>7. ASSUME NEW p \in Procs, DeleteSession(p) PROVE SessionsInv'
  BY <1>7 DEF DeleteSession
<1>8. ASSUME NEW s \in Sids, ExpireSession(s) PROVE SessionsInv'
  BY <1>8 DEF ExpireSession
<1>9. ASSUME NEW c \in Conns, Age(c) PROVE SessionsInv'
  BY <1>9 DEF Age
<1>10. CASE WorkTop
  BY <1>10 DEF WorkTop, CopyActive
<1>11. CASE WaitOver
  BY <1>11 DEF WaitOver, CopyActive
<1>12. CASE NextSession
  BY <1>12 DEF NextSession
<1>13. CASE ValidateSession
  BY <1>13 DEF ValidateSession
<1>14. CASE GetNotifyItems
  BY <1>14 DEF GetNotifyItems
<1>15. CASE SendAnswer
  BY <1>15 DEF SendAnswer
<1>16. CASE HandBack
  BY <1>16 DEF HandBack
<1>17. CASE Sweep
  BY <1>17 DEF Sweep
<1>18. CASE RemoveAllSessions
  BY <1>18 DEF RemoveAllSessions
<1>19. CASE LockCache
  BY <1>19 DEF LockCache
<1>20. CASE SignalExit
  BY <1>20 DEF SignalExit
<1>21. CASE JoinThread
  BY <1>21 DEF JoinThread
<1>22. CASE UNCHANGED vars
  BY <1>22 DEF vars
<1> QED
  BY <1>1, <1>2, <1>3, <1>4, <1>5, <1>6, <1>7, <1>8, <1>9, <1>10, <1>11,
     <1>12, <1>13, <1>14, <1>15, <1>16, <1>17, <1>18, <1>19, <1>20, <1>21,
     <1>22
     DEF Next, ProcStep, Work, Exit, Terminated

(* A session that has ended does not lose its mark before its request is     *)
(* answered.                                                                 *)
LEMMA EndedNext ==
  TypeOK /\ OneAnswer /\ ConnInv /\ ThreadInv /\ SessionsInv /\ EndedIsTold /\ [Next]_vars
    => EndedIsTold'
<1> SUFFICES ASSUME TypeOK, OneAnswer, ConnInv, ThreadInv, SessionsInv, EndedIsTold,
                    [Next]_vars,
                    NEW s \in Sids, s \notin mapSessions', mapRequests'[s] # None
             PROVE  (Told(s) \/ Ending(s) \/ main # "run")'
  BY DEF EndedIsTold
<1> USE NotificationsAssumption DEF Goto, LeaveGroup, groupVars, managerVars, workVars,
       procVars, clientVars
<1>1. ASSUME NEW p \in Procs, NEW c \in Conns, NEW u \in Sids, Ask(p, c, u) PROVE (Told(s) \/ Ending(s) \/ main # "run")'
  BY <1>1 DEF Ask, EndedIsTold, Told, Ending, TypeOK, ThreadInv, SessionsInv
<1>2. ASSUME NEW p \in Procs, NEW u \in Sids, RemoveSession(p, u) PROVE (Told(s) \/ Ending(s) \/ main # "run")'
  BY <1>2 DEF RemoveSession, EndedIsTold, Told, Ending, TypeOK, ThreadInv, SessionsInv
<1>3. ASSUME NEW p \in Procs, AddNotification(p) PROVE (Told(s) \/ Ending(s) \/ main # "run")'
  BY <1>3 DEF AddNotification, EndedIsTold, Told, Ending, TypeOK, ThreadInv, SessionsInv
<1>4. ASSUME NEW p \in Procs, AddRequest(p) PROVE (Told(s) \/ Ending(s) \/ main # "run")'
  BY <1>4 DEF AddRequest, EndedIsTold, Told, Ending, TypeOK, ThreadInv, SessionsInv
<1>5. ASSUME NEW p \in Procs, MarkGroup(p) PROVE (Told(s) \/ Ending(s) \/ main # "run")'
  BY <1>5 DEF MarkGroup, EndedIsTold, Told, Ending, TypeOK, ThreadInv, SessionsInv
<1>6. ASSUME NEW p \in Procs, NotifyChange(p) PROVE (Told(s) \/ Ending(s) \/ main # "run")'
  <2>1. CASE \E u \in todo[p] :
               /\ setActive' = setActive \cup {u}
               /\ todo' = [todo EXCEPT ![p] = @ \ {u}] /\ UNCHANGED <<pc, sid>>
    <3>1. todo[p] \ setActive' = todo'[p] \ setActive' /\ setActive \subseteq setActive'
          /\ \A q \in Procs : q # p => todo'[q] = todo[q]
      BY <2>1 DEF TypeOK
    <3>2. UNCHANGED <<mapSessions, mapRequests, batch, npc, cur, main>>
      BY <1>6 DEF NotifyChange
    <3>3. Ending(s) => Ending(s)'
      BY <2>1 DEF Ending
    <3>4. Told(s) => Told(s)'
      BY <2>1, <3>1, <3>2 DEF Told
    <3> QED
      BY <3>2, <3>3, <3>4 DEF EndedIsTold
  <2>2. CASE todo[p] = {} /\ Goto(p, "idle") /\ sid' = [sid EXCEPT ![p] = None]
             /\ UNCHANGED <<setActive, todo>>
    <3>1. \A q \in Procs : pc[q] \in {"members", "shutdown"} =>
             q # p /\ pc'[q] = pc[q] /\ sid'[q] = sid[q]
      BY <1>6, <2>2 DEF NotifyChange, TypeOK
    <3> QED
      BY <1>6, <2>2, <3>1 DEF NotifyChange, EndedIsTold, Told, Ending, TypeOK, ThreadInv, SessionsInv
  <2> QED
    BY <1>6, <2>1, <2>2 DEF NotifyChange
<1>7. ASSUME NEW p \in Procs, DeleteSession(p) PROVE (Told(s) \/ Ending(s) \/ main # "run")'
  BY <1>7 DEF DeleteSession, EndedIsTold, Told, Ending, TypeOK, ThreadInv, SessionsInv
<1>8. ASSUME NEW u \in Sids, ExpireSession(u) PROVE (Told(s) \/ Ending(s) \/ main # "run")'
  BY <1>8 DEF ExpireSession, EndedIsTold, Told, Ending, TypeOK, ThreadInv, SessionsInv
<1>9. ASSUME NEW c \in Conns, Age(c) PROVE (Told(s) \/ Ending(s) \/ main # "run")'
  BY <1>9 DEF Age, EndedIsTold, Told, Ending, TypeOK, ThreadInv, SessionsInv
<1>10. CASE WorkTop
  BY <1>10 DEF WorkTop, CopyActive, EndedIsTold, Told, Ending, TypeOK, ThreadInv, SessionsInv
<1>11. CASE WaitOver
  BY <1>11 DEF WaitOver, CopyActive, EndedIsTold, Told, Ending, TypeOK, ThreadInv, SessionsInv
<1>12. CASE NextSession
  <2>1. UNCHANGED <<mapSessions, mapRequests, setActive, todo, pc, sid, main>>
    BY <1>12 DEF NextSession
  <2>2. CASE Told(s)
    <3>1. s \in setActive \/ s \in batch \/ \E p \in Procs : s \in todo[p]
      BY <1>12, <2>2 DEF Told, NextSession
    <3>2. s \in batch => s \in batch' \/ (npc' = "validate" /\ cur' = s)
      BY <1>12, <2>1 DEF NextSession
    <3> QED
      BY <2>1, <3>1, <3>2 DEF Told
  <2>3. CASE Ending(s) \/ main # "run"
    BY <2>1, <2>3 DEF Ending
  <2> QED
    BY <2>1, <2>2, <2>3 DEF EndedIsTold
<1>13. CASE ValidateSession
  BY <1>13 DEF ValidateSession, EndedIsTold, Told, Ending, TypeOK, ThreadInv, SessionsInv
<1>14. CASE GetNotifyItems
  BY <1>14 DEF GetNotifyItems, EndedIsTold, Told, Ending, TypeOK, ThreadInv, SessionsInv
<1>15. CASE SendAnswer
  BY <1>15 DEF SendAnswer, EndedIsTold, Told, Ending, TypeOK, ThreadInv, SessionsInv
<1>16. CASE HandBack
  BY <1>16 DEF HandBack, EndedIsTold, Told, Ending, TypeOK, ThreadInv, SessionsInv
<1>17. CASE Sweep
  BY <1>17 DEF Sweep, EndedIsTold, Told, Ending, TypeOK, ThreadInv, SessionsInv
<1>18. CASE RemoveAllSessions
  BY <1>18 DEF RemoveAllSessions, EndedIsTold, Told, Ending, TypeOK, ThreadInv, SessionsInv
<1>19. CASE LockCache
  BY <1>19 DEF LockCache, EndedIsTold, Told, Ending, TypeOK, ThreadInv, SessionsInv
<1>20. CASE SignalExit
  BY <1>20 DEF SignalExit, EndedIsTold, Told, Ending, TypeOK, ThreadInv, SessionsInv
<1>21. CASE JoinThread
  BY <1>21 DEF JoinThread, EndedIsTold, Told, Ending, TypeOK, ThreadInv, SessionsInv
<1>22. CASE UNCHANGED vars
  BY <1>22 DEF vars, EndedIsTold, Told, Ending, TypeOK, ThreadInv, SessionsInv
<1> QED
  BY <1>1, <1>2, <1>3, <1>4, <1>5, <1>6, <1>7, <1>8, <1>9, <1>10, <1>11,
     <1>12, <1>13, <1>14, <1>15, <1>16, <1>17, <1>18, <1>19, <1>20, <1>21,
     <1>22
     DEF Next, ProcStep, Work, Exit, Terminated

(* While there is a notification, a parked request of the group does not     *)
(* lose its mark.                                                            *)
LEMMA OverlookedNext ==
  TypeOK /\ OneAnswer /\ ConnInv /\ ThreadInv /\ SessionsInv /\ NothingOverlooked
  /\ [Next]_vars => NothingOverlooked'
<1> SUFFICES ASSUME TypeOK, OneAnswer, ConnInv, ThreadInv, SessionsInv, NothingOverlooked,
                    [Next]_vars,
                    NEW s \in mapSessions', mapRequests'[s] # None, queue' # <<>>
             PROVE  Marked(s)'
  BY DEF NothingOverlooked
<1> USE NotificationsAssumption DEF Goto, LeaveGroup, groupVars, managerVars, workVars,
       procVars, clientVars
<1>1. ASSUME NEW p \in Procs, NEW c \in Conns, NEW u \in Sids, Ask(p, c, u) PROVE Marked(s)'
  BY <1>1 DEF Ask, NothingOverlooked, Marked, TypeOK, ThreadInv, SessionsInv
<1>2. ASSUME NEW p \in Procs, NEW u \in Sids, RemoveSession(p, u) PROVE Marked(s)'
  BY <1>2 DEF RemoveSession, NothingOverlooked, Marked, TypeOK, ThreadInv, SessionsInv
<1>3. ASSUME NEW p \in Procs, AddNotification(p) PROVE Marked(s)'
  BY <1>3 DEF AddNotification, NothingOverlooked, Marked, TypeOK, ThreadInv, SessionsInv
<1>4. ASSUME NEW p \in Procs, AddRequest(p) PROVE Marked(s)'
  BY <1>4 DEF AddRequest, NothingOverlooked, Marked, TypeOK, ThreadInv, SessionsInv
<1>5. ASSUME NEW p \in Procs, MarkGroup(p) PROVE Marked(s)'
  BY <1>5 DEF MarkGroup, NothingOverlooked, Marked, TypeOK, ThreadInv, SessionsInv
<1>6. ASSUME NEW p \in Procs, NotifyChange(p) PROVE Marked(s)'
  <2>1. CASE \E u \in todo[p] :
               /\ setActive' = setActive \cup {u}
               /\ todo' = [todo EXCEPT ![p] = @ \ {u}] /\ UNCHANGED <<pc, sid>>
    <3>1. todo[p] \ setActive' = todo'[p] \ setActive' /\ setActive \subseteq setActive'
          /\ \A q \in Procs : q # p => todo'[q] = todo[q]
      BY <2>1 DEF TypeOK
    <3> QED
      BY <1>6, <2>1, <3>1 DEF NotifyChange, NothingOverlooked, Marked, TypeOK, ThreadInv, SessionsInv
  <2>2. CASE todo[p] = {} /\ Goto(p, "idle") /\ sid' = [sid EXCEPT ![p] = None]
             /\ UNCHANGED <<setActive, todo>>
    <3>1. \A q \in Procs : pc[q] \in {"members", "shutdown"} =>
             q # p /\ pc'[q] = pc[q] /\ sid'[q] = sid[q]
      BY <1>6, <2>2 DEF NotifyChange, TypeOK
    <3> QED
      BY <1>6, <2>2, <3>1 DEF NotifyChange, NothingOverlooked, Marked, TypeOK, ThreadInv, SessionsInv
  <2> QED
    BY <1>6, <2>1, <2>2 DEF NotifyChange
<1>7. ASSUME NEW p \in Procs, DeleteSession(p) PROVE Marked(s)'
  BY <1>7 DEF DeleteSession, NothingOverlooked, Marked, TypeOK, ThreadInv, SessionsInv
<1>8. ASSUME NEW u \in Sids, ExpireSession(u) PROVE Marked(s)'
  BY <1>8 DEF ExpireSession, NothingOverlooked, Marked, TypeOK, ThreadInv, SessionsInv
<1>9. ASSUME NEW c \in Conns, Age(c) PROVE Marked(s)'
  BY <1>9 DEF Age, NothingOverlooked, Marked, TypeOK, ThreadInv, SessionsInv
<1>10. CASE WorkTop
  BY <1>10 DEF WorkTop, CopyActive, NothingOverlooked, Marked, TypeOK, ThreadInv, SessionsInv
<1>11. CASE WaitOver
  BY <1>11 DEF WaitOver, CopyActive, NothingOverlooked, Marked, TypeOK, ThreadInv, SessionsInv
<1>12. CASE NextSession
  BY <1>12 DEF NextSession, NothingOverlooked, Marked, TypeOK, ThreadInv, SessionsInv
<1>13. CASE ValidateSession
  BY <1>13 DEF ValidateSession, NothingOverlooked, Marked, TypeOK, ThreadInv, SessionsInv
<1>14. CASE GetNotifyItems
  BY <1>14 DEF GetNotifyItems, NothingOverlooked, Marked, TypeOK, ThreadInv, SessionsInv
<1>15. CASE SendAnswer
  BY <1>15 DEF SendAnswer, NothingOverlooked, Marked, TypeOK, ThreadInv, SessionsInv
<1>16. CASE HandBack
  BY <1>16 DEF HandBack, NothingOverlooked, Marked, TypeOK, ThreadInv, SessionsInv
<1>17. CASE Sweep
  BY <1>17 DEF Sweep, NothingOverlooked, Marked, TypeOK, ThreadInv, SessionsInv
<1>18. CASE RemoveAllSessions
  BY <1>18 DEF RemoveAllSessions, NothingOverlooked, Marked, TypeOK, ThreadInv, SessionsInv
<1>19. CASE LockCache
  BY <1>19 DEF LockCache, NothingOverlooked, Marked, TypeOK, ThreadInv, SessionsInv
<1>20. CASE SignalExit
  BY <1>20 DEF SignalExit, NothingOverlooked, Marked, TypeOK, ThreadInv, SessionsInv
<1>21. CASE JoinThread
  BY <1>21 DEF JoinThread, NothingOverlooked, Marked, TypeOK, ThreadInv, SessionsInv
<1>22. CASE UNCHANGED vars
  BY <1>22 DEF vars, NothingOverlooked, Marked, TypeOK, ThreadInv, SessionsInv
<1> QED
  BY <1>1, <1>2, <1>3, <1>4, <1>5, <1>6, <1>7, <1>8, <1>9, <1>10, <1>11,
     <1>12, <1>13, <1>14, <1>15, <1>16, <1>17, <1>18, <1>19, <1>20, <1>21,
     <1>22
     DEF Next, ProcStep, Work, Exit, Terminated

-----------------------------------------------------------------------------
(* The order of notifications. *)

(* The sequence 1, 2, ..., n grows by its next number. *)
LEMMA CountAppend ==
  ASSUME NEW n \in Nat
  PROVE  Append([i \in 1..n |-> i], n + 1) = [i \in 1..(n + 1) |-> i]
<1>1. [i \in 1..n |-> i] \in Seq(Nat) /\ Len([i \in 1..n |-> i]) = n
  OBVIOUS
<1> QED
  BY <1>1

(* Appending to the second of two sequences appends to both. *)
LEMMA AppendToConcat ==
  ASSUME NEW S, NEW a \in Seq(S), NEW b \in Seq(S), NEW x \in S
  PROVE  a \o Append(b, x) = Append(a \o b, x)
  OBVIOUS

(* Initially nothing has been sent. *)
LEMMA OrderInit == Init => InOrder
<1> SUFFICES ASSUME Init PROVE InOrder
  OBVIOUS
<1>1. <<>> \o <<>> = [i \in 1..0 |-> i]
  OBVIOUS
<1> QED
  BY <1>1 DEF Init, InOrder

(* A step that leaves the group and its queue alone keeps the order.         *)
LEMMA SameOrderKeeps ==
  InOrder /\ UNCHANGED <<members, queue, sent, taken>> => InOrder'
  BY DEF InOrder

(* Sessions leave the group: what has been taken is a prefix. *)
LEMMA LeaveKeepsOrder ==
  ASSUME TypeOK, InOrder, NEW S, LeaveGroup(S), UNCHANGED <<sent, taken>>
  PROVE  InOrder'
<1>1. CASE members \ S # {}
  BY <1>1 DEF LeaveGroup, InOrder
<1>2. CASE members \ S = {} /\ members # {}
  <2>1. members' = {} /\ queue' = <<>>
    BY <1>2 DEF LeaveGroup
  <2>2. taken \in Seq(1..MaxNotes) /\ queue \in Seq(1..MaxNotes)
        /\ taken \o queue = [i \in 1..sent |-> i]
    BY <1>2 DEF TypeOK, InOrder
  <2>3. ASSUME NEW i \in 1..Len(taken) PROVE taken[i] = i
    <3> DEFINE all == taken \o queue
    <3>0. Len(taken) \in Nat /\ Len(queue) \in Nat
      BY <2>2, LenProperties
    <3>1. all[i] = taken[i] /\ i \in 1..Len(all) /\ all \in Seq(1..MaxNotes)
      <4>1. /\ all \in Seq(1..MaxNotes) /\ Len(all) = Len(taken) + Len(queue)
            /\ \A k \in 1..Len(taken) + Len(queue) :
                 all[k] = IF k <= Len(taken) THEN taken[k] ELSE queue[k - Len(taken)]
        BY <2>2, ConcatProperties
      <4> QED
        BY <3>0, <4>1
    <3>2. DOMAIN all = 1..sent /\ \A k \in 1..sent : all[k] = k
      BY <2>2
    <3>3. DOMAIN all = 1..Len(all)
      BY <3>1, LenProperties
    <3> QED
      BY <3>1, <3>2, <3>3
  <2> QED
    BY <2>1, <2>3 DEF InOrder
<1>3. CASE members = {}
  <2>1. members' = {} /\ queue' = <<>>
    BY <1>3 DEF LeaveGroup, InOrder
  <2> QED
    BY <1>3, <2>1 DEF InOrder
<1> QED
  BY <1>1, <1>2, <1>3

(* The order is inductive, given the types. *)
LEMMA OrderNext == TypeOK /\ InOrder /\ [Next]_vars => InOrder'
<1> SUFFICES ASSUME TypeOK, InOrder, [Next]_vars PROVE InOrder'
  OBVIOUS
<1> USE DEF groupVars
<1>1. ASSUME NEW p \in Procs, NEW c \in Conns, NEW s \in Sids, Ask(p, c, s) PROVE InOrder'
  BY <1>1, SameOrderKeeps DEF Ask
<1>2. ASSUME NEW p \in Procs, NEW s \in Sids, RemoveSession(p, s) PROVE InOrder'
  BY <1>2, SameOrderKeeps DEF RemoveSession
<1>3. ASSUME NEW p \in Procs, AddNotification(p) PROVE InOrder'
  <2>1. /\ members # {} /\ UNCHANGED <<members, taken>>
        /\ sent' = sent + 1 /\ queue' = Append(queue, sent + 1) /\ sent + 1 \in 1..MaxNotes
    BY <1>3, NotificationsAssumption DEF AddNotification, TypeOK
  <2>2. taken \o queue = [i \in 1..sent |-> i] /\ sent \in Nat
    BY <2>1 DEF InOrder, TypeOK
  <2>3. taken \o Append(queue, sent + 1) = Append(taken \o queue, sent + 1)
    BY <2>1, AppendToConcat DEF TypeOK
  <2>4. taken \o Append(queue, sent + 1) = [i \in 1..(sent + 1) |-> i]
    BY <2>2, <2>3, CountAppend
  <2> QED
    BY <2>1, <2>4 DEF InOrder
<1>4. ASSUME NEW p \in Procs, AddRequest(p) PROVE InOrder'
  BY <1>4, SameOrderKeeps DEF AddRequest
<1>5. ASSUME NEW p \in Procs, MarkGroup(p) PROVE InOrder'
  BY <1>5, SameOrderKeeps DEF MarkGroup
<1>6. ASSUME NEW p \in Procs, NotifyChange(p) PROVE InOrder'
  BY <1>6, SameOrderKeeps DEF NotifyChange
<1>7. ASSUME NEW p \in Procs, DeleteSession(p) PROVE InOrder'
  BY <1>7, LeaveKeepsOrder DEF DeleteSession
<1>8. ASSUME NEW s \in Sids, ExpireSession(s) PROVE InOrder'
  BY <1>8, LeaveKeepsOrder DEF ExpireSession
<1>9. ASSUME NEW c \in Conns, Age(c) PROVE InOrder'
  BY <1>9, SameOrderKeeps DEF Age
<1>10. CASE WorkTop
  BY <1>10, SameOrderKeeps DEF WorkTop
<1>11. CASE WaitOver
  BY <1>11, SameOrderKeeps DEF WaitOver
<1>12. CASE NextSession
  BY <1>12, SameOrderKeeps DEF NextSession
<1>13. CASE ValidateSession
  BY <1>13, SameOrderKeeps DEF ValidateSession
<1>14. CASE GetNotifyItems
  <2>1. taken' = taken \o queue /\ queue' = <<>> /\ UNCHANGED <<members, sent>>
    BY <1>14 DEF GetNotifyItems
  <2>2. (taken \o queue) \o <<>> = taken \o queue /\ taken \o <<>> = taken
    BY DEF TypeOK
  <2>3. CASE members # {}
    BY <2>1, <2>2, <2>3 DEF InOrder
  <2>4. CASE members = {}
    BY <2>1, <2>2, <2>4 DEF InOrder
  <2> QED
    BY <2>3, <2>4
<1>15. CASE SendAnswer
  BY <1>15, SameOrderKeeps DEF SendAnswer
<1>16. CASE HandBack
  BY <1>16, SameOrderKeeps DEF HandBack
<1>17. CASE Sweep
  BY <1>17, SameOrderKeeps DEF Sweep
<1>18. CASE RemoveAllSessions
  BY <1>18, LeaveKeepsOrder DEF RemoveAllSessions
<1>19. CASE LockCache
  BY <1>19, SameOrderKeeps DEF LockCache
<1>20. CASE SignalExit
  BY <1>20, SameOrderKeeps DEF SignalExit
<1>21. CASE JoinThread
  BY <1>21, SameOrderKeeps DEF JoinThread
<1>22. CASE UNCHANGED vars
  BY <1>22, SameOrderKeeps DEF vars
<1> QED
  BY <1>1, <1>2, <1>3, <1>4, <1>5, <1>6, <1>7, <1>8, <1>9, <1>10, <1>11,
     <1>12, <1>13, <1>14, <1>15, <1>16, <1>17, <1>18, <1>19, <1>20, <1>21,
     <1>22
     DEF Next, ProcStep, Work, Exit, Terminated

-----------------------------------------------------------------------------
(* Theorems. *)

(* The inductive invariant. *)
NInv ==
  /\ TypeOK /\ OneAnswer /\ ConnInv /\ ThreadInv
  /\ SessionsInv /\ EndedIsTold /\ NothingOverlooked /\ InOrder

(* Every state a step leads to satisfies the invariant: connections, the     *)
(* program counters, marks and the queue stay in agreement.                  *)
THEOREM Invariance == Spec => []NInv
<1>1. Init => NInv
  BY TypeInit, AnswersInit, ThreadsInit, MarksInit, OrderInit DEF NInv
<1>2. NInv /\ [Next]_vars => NInv'
  BY TypeNext, AnswersNext, ThreadsNext, SessionsNext, EndedNext, OverlookedNext, OrderNext
     DEF NInv
<1> QED
  BY <1>1, <1>2, PTL DEF Spec

(* Every variable keeps its type; no client is owed two answers. *)
THEOREM TypeCorrect == Spec => []TypeOK
<1>1. NInv => TypeOK
  BY DEF NInv
<1> QED
  BY <1>1, Invariance, PTL

(* A client that asks gets one answer, and its connection is in one place    *)
(* until then, whatever AddRequest, SendAnswer and JoinThread interleave.    *)
THEOREM EachRequestIsAnsweredOnce == Spec => []OneAnswer
<1>1. NInv => OneAnswer
  BY DEF NInv
<1> QED
  BY <1>1, Invariance, PTL

(* No notification is left in the queue with a request nobody will look at.  *)
THEOREM NoNotificationIsOverlooked == Spec => []NothingOverlooked
<1>1. NInv => NothingOverlooked
  BY DEF NInv
<1> QED
  BY <1>1, Invariance, PTL

(* A request of a session that ended while the server runs is marked, or     *)
(* the thread that removes the session will mark it.                         *)
THEOREM EndedSessionsAreTold == Spec => []NoneWaitsForEnded
<1>1. NInv => NoneWaitsForEnded
  BY ToldIsMarked DEF NInv, EndedIsTold, NoneWaitsForEnded
<1> QED
  BY <1>1, Invariance, PTL

(* Notifications are answered once each, in the order they were sent.        *)
THEOREM NotificationsAreInOrder == Spec => []InOrder
<1>1. NInv => InOrder
  BY DEF NInv
<1> QED
  BY <1>1, Invariance, PTL

-----------------------------------------------------------------------------
(* The refinement of NotificationDelivery. *)

(* At exit no session is left, and the request threads have finished.        *)
QuietExit == main # "run" => mapSessions = {} /\ \A p \in Procs : pc[p] = "idle"

(* RemoveAllSessions starts when the request threads are done. *)
LEMMA ExitIsQuiet == Spec => []QuietExit
<1>1. Init => QuietExit
  BY DEF Init, QuietExit
<1>2. TypeOK /\ QuietExit /\ [Next]_vars => QuietExit'
  BY DEF TypeOK, QuietExit, Next, Ask, RemoveSession, AddNotification, ProcStep, AddRequest,
     MarkGroup, NotifyChange, DeleteSession, ExpireSession, Age, Work, WorkTop, WaitOver,
     NextSession, ValidateSession, GetNotifyItems, SendAnswer, HandBack, Sweep,
     RemoveAllSessions, Exit, LockCache, SignalExit, JoinThread, Terminated, vars, Goto,
     groupVars, managerVars, workVars, procVars, clientVars
<1> QED
  BY <1>1, <1>2, TypeCorrect, PTL DEF Spec

(* Nobody waits in a circle, but for the main thread and Work at exit: who   *)
(* has the session map needs nothing else, and the cache lock is taken when  *)
(* the request threads are done.                                             *)
THEOREM HangsOnlyAtExit == Spec => []OnlyTheExitHangs
<1>1. TypeOK /\ QuietExit => OnlyTheExitHangs
  <2> SUFFICES ASSUME TypeOK, QuietExit PROVE OnlyTheExitHangs
    OBVIOUS
  <2>1. SessionMapLocked => \E q \in Procs : pc[q] = "group" /\ ProcReady(q)
    BY DEF SessionMapLocked, ProcReady
  <2>2. ASSUME NEW p \in Procs, pc[p] # "idle", ~SessionMapLocked
        PROVE  ProcReady(p) \/ (RequestsLocked /\ WorkReady)
    <3>1. ~CacheLocked
      BY <2>2 DEF QuietExit, CacheLocked
    <3>2. pc[p] \in ProcPc
      BY DEF TypeOK
    <3> QED
      BY <2>2, <3>1, <3>2 DEF ProcPc, ProcReady, RequestsLocked, WorkReady
  <2>3. npc # "exited" => WorkReady \/ SessionMapLocked \/ (npc = "validate" /\ CacheLocked)
    BY DEF TypeOK, WorkPc, WorkReady
  <2>4. main = "join" => ~SessionMapLocked
    BY DEF QuietExit, SessionMapLocked
  <2> QED
    BY <2>1, <2>2, <2>3, <2>4 DEF OnlyTheExitHangs
<1> QED
  BY <1>1, TypeCorrect, ExitIsQuiet, PTL

(* What Asked tells of a connection, while the invariant holds. *)
AskedIs(c) ==
  /\ Asked[c] \in Sids \cup {None}
  /\ \A s \in Sids : Asked[c] = s <=> Waits(c, s)
  /\ Asked[c] = None <=> c \notin Parked /\ \A p \in Procs : conn[p] # c

AskedAre == \A c \in Conns : AskedIs(c)

(* A client waits for one session at most, so Asked finds it. *)
LEMMA AskedAreTold == NInv => AskedAre
<1> SUFFICES ASSUME NInv, NEW c \in Conns PROVE AskedIs(c)
  BY DEF AskedAre
<1> USE NotificationsAssumption DEF NInv
<1>1. owed[c] = IF c \in Parked \cup {conn[p] : p \in Procs} THEN 1 ELSE 0
  BY DEF OneAnswer
<1>2. c # None
  OBVIOUS
<1>3. c \in Parked <=> \E s \in Sids : mapRequests[s] = c
  BY <1>2 DEF Parked
<1>4. \A p \in Procs : conn[p] = c => sid[p] \in Sids
  BY <1>2 DEF ConnInv, ThreadInv
<1>5. ASSUME NEW s \in Sids, NEW u \in Sids, Waits(c, s), Waits(c, u) PROVE s = u
  <2>1. CASE c \in Parked
    <3>1. mapRequests[s] = c /\ mapRequests[u] = c
      BY <1>5, <2>1 DEF Waits, OneAnswer
    <3> QED
      BY <3>1 DEF OneAnswer
  <2>2. CASE c \notin Parked
    <3>1. PICK p \in Procs : conn[p] = c /\ sid[p] = s
      BY <1>3, <1>5, <2>2 DEF Waits
    <3>2. PICK q \in Procs : conn[q] = c /\ sid[q] = u
      BY <1>3, <1>5, <2>2 DEF Waits
    <3> QED
      BY <1>2, <3>1, <3>2 DEF ConnInv
  <2> QED
    BY <2>1, <2>2
<1>6. (\E s \in Sids : Waits(c, s)) <=> c \in Parked \cup {conn[p] : p \in Procs}
  BY <1>3, <1>4 DEF Waits
<1>7. CASE owed[c] = 0
  <2>1. Asked[c] = None
    BY <1>7 DEF Asked
  <2> QED
    BY <1>1, <1>6, <1>7, <2>1 DEF AskedIs
<1>8. CASE owed[c] # 0
  <2>1. owed[c] = 1 /\ \E s \in Sids : Waits(c, s)
    BY <1>1, <1>6, <1>8
  <2>2. Asked[c] = CHOOSE s \in Sids : Waits(c, s)
    BY <2>1 DEF Asked
  <2>3. Asked[c] \in Sids /\ Waits(c, Asked[c])
    BY <2>1, <2>2
  <2> QED
    BY <1>1, <1>5, <1>8, <2>3 DEF AskedIs
<1> QED
  BY <1>7, <1>8

(* Asked is a function on the connections. *)
LEMMA AskedIsFunction ==
  Asked = [c \in Conns |-> Asked[c]] /\ Asked' = [c \in Conns |-> Asked'[c]]
<1> DEFINE A(c) ==
      IF owed[c] = 0 THEN None
      ELSE IF owed[c] = 1 /\ \E s \in Sids : Waits(c, s)
           THEN CHOOSE s \in Sids : Waits(c, s) ELSE "astray"
<1>1. Asked = [c \in Conns |-> A(c)]
  BY DEF Asked
<1>2. Asked' = [c \in Conns |-> A(c)']
  BY DEF Asked
<1> HIDE DEF A
<1> QED
  BY <1>1, <1>2

(* A client that waits where it did has asked what it had. *)
LEMMA AskedStays ==
  ASSUME AskedAre, AskedAre', NEW c \in Conns,
         \A s \in Sids : Waits(c, s) <=> Waits(c, s)'
  PROVE  Asked'[c] = Asked[c]
<1>1. Asked[c] \in Sids \cup {None} /\ Asked'[c] \in Sids \cup {None}
  BY DEF AskedAre, AskedIs
<1>2. \A s \in Sids : Asked[c] = s <=> Asked'[c] = s
  BY DEF AskedAre, AskedIs
<1> QED
  BY <1>1, <1>2

(* ... and so have all, when no request moves. *)
LEMMA AllAskedStay ==
  ASSUME AskedAre, AskedAre', UNCHANGED mapRequests,
         \A p \in Procs : conn'[p] = conn[p] /\ (conn[p] \in Conns => sid'[p] = sid[p])
  PROVE  Asked' = Asked
<1>1. \A c \in Conns : Asked'[c] = Asked[c]
  BY AskedStays DEF Waits
<1> QED
  BY <1>1, AskedIsFunction

(* One client's request moves. *)
LEMMA OneAsked ==
  ASSUME NEW c \in Conns, \A d \in Conns \ {c} : Asked'[d] = Asked[d]
  PROVE  Asked' = [Asked EXCEPT ![c] = Asked'[c]]
  BY AskedIsFunction

Preparing == IF npc = "answer" THEN mapRequests[cur] ELSE None

(* A step that no client notices. *)
LEMMA NothingDelivered ==
  ASSUME Asked' = Asked, UNCHANGED <<mapSessions, queue, taken, sent, lost>>,
         Preparing' = Preparing
  PROVE  UNCHANGED Delivery!vars
  BY DEF Delivery!vars, Preparing

(* A request is answered. *)
LEMMA AnswerEnds ==
  ASSUME NInv, AskedAre', NEW s \in Sids, mapRequests[s] # None, Answer(mapRequests[s]),
         \A d \in Conns \ {mapRequests[s]} : Asked'[d] = Asked[d],
         mapRequests[s] \notin Parked', \A p \in Procs : conn'[p] # mapRequests[s],
         Asked[mapRequests[s]] # None
  PROVE  Delivery!Answered(mapRequests[s])
<1> DEFINE c == mapRequests[s]
<1>1. c \in Conns
  BY DEF NInv, TypeOK
<1>2. Asked'[c] = None
  BY <1>1 DEF AskedAre, AskedIs
<1>3. Asked' = [Asked EXCEPT ![c] = None]
  BY <1>1, <1>2, OneAsked
<1> QED
  BY <1>3 DEF Delivery!Answered, Answer

(* Every step is one of NotificationDelivery's, or no client notices it.     *)
LEMMA StepDelivers ==
  ASSUME NInv, QuietExit, AskedAre, AskedAre', [Next]_vars
  PROVE  [Delivery!Next]_(Delivery!vars)
<1> USE NotificationsAssumption DEF NInv, TypeOK, ConnInv, ThreadInv, Goto, LeaveGroup,
       groupVars, managerVars, workVars, procVars, clientVars, RequestsLocked, Preparing
<1>1. ASSUME NEW p \in Procs, NEW c \in Conns, NEW s \in Sids, Ask(p, c, s)
      PROVE  Delivery!Next
  <2> USE DEF Ask
  <2>1. Asked[c] = None /\ c \notin lost
    BY <1>1 DEF AskedAre, AskedIs, InUse
  <2>2. Asked'[c] = s
    BY <1>1 DEF AskedAre, AskedIs, Waits
  <2>3. \A d \in Conns \ {c} : Asked'[d] = Asked[d]
    BY <1>1, AskedStays DEF Waits
  <2>4. Asked' = [Asked EXCEPT ![c] = s]
    BY <2>2, <2>3, OneAsked
  <2>5. Delivery!Ask(c, s)
    BY <1>1, <2>1, <2>4 DEF Delivery!Ask
  <2> QED
    BY <2>5 DEF Delivery!Next
<1>2. ASSUME NEW p \in Procs, NEW s \in Sids, RemoveSession(p, s) PROVE Delivery!Next
  <2>1. Asked' = Asked
    BY <1>2, AllAskedStay DEF RemoveSession
  <2>2. Delivery!End({s})
    BY <1>2, <2>1 DEF RemoveSession, Delivery!End
  <2> QED
    BY <2>2 DEF Delivery!Next
<1>3. ASSUME NEW p \in Procs, AddNotification(p) PROVE Delivery!Next
  <2>1. Asked' = Asked
    BY <1>3, AllAskedStay DEF AddNotification
  <2>2. Delivery!Send
    BY <1>3, <2>1 DEF AddNotification, Delivery!Send
  <2> QED
    BY <2>2 DEF Delivery!Next
<1>4. ASSUME NEW p \in Procs, AddRequest(p) PROVE [Delivery!Next]_(Delivery!vars)
  <2> DEFINE s == sid[p]  old == mapRequests[s]  c == conn[p]
  <2> USE DEF AddRequest
  <2>1. s \in Sids /\ c \in Conns /\ c \notin Parked /\ \A q \in Procs : q # p => conn[q] # c
    BY <1>4 DEF OneAnswer
  <2>2. \A d \in Conns, u \in Sids : d = c /\ u = s => Waits(d, u) /\ Waits(d, u)'
    BY <1>4, <2>1 DEF Waits
  <2>3. ASSUME NEW d \in Conns, d # old PROVE Asked'[d] = Asked[d]
    <3>1. ASSUME NEW u \in Sids PROVE Waits(d, u) <=> Waits(d, u)'
      <4>1. CASE d = c
        <5> HIDE DEF NInv, TypeOK, ConnInv, ThreadInv, AddRequest
        <5>1. PICK t \in Sids : t = s
          BY <2>1
        <5>2. AskedIs(d) /\ AskedIs(d)'
          BY DEF AskedAre
        <5>3. Waits(d, t) /\ Waits(d, t)'
          BY <2>2, <4>1, <5>1
        <5>4. Asked[d] = t /\ Asked'[d] = t
          BY <5>2, <5>3 DEF AskedIs
        <5> QED
          BY <5>2, <5>4 DEF AskedIs
      <4>2. CASE d # c
        BY <1>4, <2>1, <2>3, <4>2 DEF Waits
      <4> QED
        BY <4>1, <4>2
    <3> QED
      BY <3>1, AskedStays
  <2>4. CASE old = None
    <3>1. Asked' = Asked
      BY <2>3, <2>4, AskedIsFunction
    <3> QED
      BY <1>4, <2>4, <3>1, NothingDelivered
  <2>5. CASE old # None /\ Answer(old)
    <3>1. old \in Conns /\ old \in Parked /\ old # c /\ \A q \in Procs : conn[q] # old
      BY <2>1, <2>5 DEF Parked, OneAnswer
    <3>2. Asked[old] = s /\ Asked[c] = s
      BY <2>1, <2>2, <3>1 DEF AskedAre, AskedIs, Waits
    <3>3. old \notin Parked' /\ \A q \in Procs : conn'[q] # old
      BY <1>4, <2>1, <3>1 DEF Parked, OneAnswer
    <3>4. Delivery!Answered(old)
      BY <2>1, <2>3, <2>5, <3>2, <3>3, AnswerEnds
    <3>5. Delivery!Displace(old)
      BY <1>4, <2>1, <3>1, <3>2, <3>4 DEF Delivery!Displace
    <3> QED
      BY <3>1, <3>5 DEF Delivery!Next
  <2> QED
    BY <1>4, <2>4, <2>5
<1>5. ASSUME NEW p \in Procs, MarkGroup(p) PROVE UNCHANGED Delivery!vars
  BY <1>5, AllAskedStay, NothingDelivered DEF MarkGroup
<1>6. ASSUME NEW p \in Procs, NotifyChange(p) PROVE UNCHANGED Delivery!vars
  <2>1. conn[p] = None /\ \A q \in Procs : q # p => sid'[q] = sid[q]
    BY <1>6 DEF NotifyChange
  <2>2. Asked' = Asked
    BY <1>6, <2>1, AllAskedStay DEF NotifyChange
  <2> QED
    BY <1>6, <2>2, NothingDelivered DEF NotifyChange
<1>7. ASSUME NEW p \in Procs, DeleteSession(p) PROVE Delivery!Next
  <2>1. Asked' = Asked
    BY <1>7, AllAskedStay DEF DeleteSession
  <2>2. queue' = queue \/ (mapSessions = {} /\ queue' = <<>>)
    BY <1>7 DEF DeleteSession, SessionsInv
  <2>3. Delivery!End({})
    BY <1>7, <2>1, <2>2 DEF DeleteSession, Delivery!End
  <2> QED
    BY <2>3 DEF Delivery!Next
<1>8. ASSUME NEW s \in Sids, ExpireSession(s) PROVE Delivery!Next
  <2>1. Asked' = Asked
    BY <1>8, AllAskedStay DEF ExpireSession
  <2>2. queue' = queue \/ (mapSessions' = {} /\ queue' = <<>>)
    BY <1>8 DEF ExpireSession, SessionsInv
  <2>3. Delivery!End({s})
    BY <1>8, <2>1, <2>2 DEF ExpireSession, Delivery!End
  <2> QED
    BY <2>3 DEF Delivery!Next
<1>9. ASSUME NEW c \in Conns, Age(c) PROVE UNCHANGED Delivery!vars
  BY <1>9, AllAskedStay, NothingDelivered DEF Age
<1>10. CASE WorkTop
  BY <1>10, AllAskedStay, NothingDelivered DEF WorkTop, CopyActive
<1>11. CASE WaitOver
  BY <1>11, AllAskedStay, NothingDelivered DEF WaitOver, CopyActive
<1>12. CASE NextSession
  BY <1>12, AllAskedStay, NothingDelivered DEF NextSession
<1>13. CASE ValidateSession
  <2> USE DEF ValidateSession
  <2>1. Asked' = Asked
    BY <1>13, AllAskedStay
  <2>2. CASE cur \in mapSessions
    BY <1>13, <2>1, <2>2, NothingDelivered
  <2>3. CASE cur \notin mapSessions
    <3> DEFINE c == mapRequests[cur]
    <3>1. c \in Conns /\ Asked[c] = cur /\ cur \in Sids
      BY <1>13 DEF AskedAre, AskedIs, Waits
    <3>2. Delivery!Prepare(c)
      BY <1>13, <2>1, <2>3, <3>1 DEF Delivery!Prepare
    <3> QED
      BY <3>1, <3>2 DEF Delivery!Next
  <2> QED
    BY <2>2, <2>3
<1>14. CASE GetNotifyItems
  <2> USE DEF GetNotifyItems
  <2>1. Asked' = Asked
    BY <1>14, AllAskedStay
  <2>2. CASE npc' = "answer" /\ UNCHANGED cur
    <3> DEFINE c == mapRequests[cur]
    <3>1. c \in Conns /\ Asked[c] = cur /\ cur \in Sids
      BY <1>14 DEF AskedAre, AskedIs, Waits
    <3>2. Delivery!Prepare(c)
      BY <1>14, <2>1, <2>2, <3>1 DEF Delivery!Prepare
    <3> QED
      BY <3>1, <3>2 DEF Delivery!Next
  <2>3. CASE queue = <<>> /\ npc' = "batch"
    <3>1. taken' = taken /\ queue' = queue
      BY <1>14, <2>3
    <3> QED
      BY <1>14, <2>1, <2>3, <3>1, NothingDelivered
  <2> QED
    BY <1>14, <2>2, <2>3
<1>15. CASE SendAnswer
  <2> DEFINE c == mapRequests[cur]
  <2> USE DEF SendAnswer
  <2>1. /\ cur \in Sids /\ c \in Conns /\ c \in Parked /\ Asked[c] = cur
        /\ \A q \in Procs : conn[q] # c
    <3>1. cur \in Sids /\ c # None
      BY <1>15
    <3>2. c \in Conns /\ c \in Parked
      BY <3>1 DEF Parked
    <3>3. Waits(c, cur)
      BY <3>1 DEF Waits
    <3>4. Asked[c] = cur
      <4> HIDE DEF NInv, TypeOK, ConnInv, ThreadInv, SendAnswer
      <4> QED
        BY <3>1, <3>2, <3>3 DEF AskedAre, AskedIs
    <3>5. \A q \in Procs : conn[q] # c
      BY <3>2 DEF OneAnswer
    <3> QED
      BY <3>1, <3>2, <3>4, <3>5
  <2>2. \A d \in Conns \ {c} : Asked'[d] = Asked[d]
    BY <1>15, <2>1, AskedStays DEF Waits
  <2>3. c \notin Parked' /\ \A q \in Procs : conn'[q] # c
    BY <1>15, <2>1 DEF Parked, OneAnswer
  <2>4. Delivery!Answered(c)
    BY <1>15, <2>1, <2>2, <2>3, AnswerEnds
  <2>5. Delivery!Answer(c)
    BY <1>15, <2>1, <2>4 DEF Delivery!Answer
  <2> QED
    BY <2>1, <2>5 DEF Delivery!Next
<1>16. CASE HandBack
  BY <1>16, AllAskedStay, NothingDelivered DEF HandBack
<1>17. CASE Sweep
  BY <1>17, AllAskedStay, NothingDelivered DEF Sweep
<1>18. CASE RemoveAllSessions
  <2>1. Asked' = Asked
    BY <1>18, AllAskedStay DEF RemoveAllSessions
  <2>2. Delivery!End(Sids)
    BY <1>18, <2>1 DEF RemoveAllSessions, Delivery!End
  <2> QED
    BY <2>2 DEF Delivery!Next
<1>19. CASE LockCache
  BY <1>19, AllAskedStay, NothingDelivered DEF LockCache
<1>20. CASE SignalExit
  BY <1>20, AllAskedStay, NothingDelivered DEF SignalExit
<1>21. CASE JoinThread
  <2> USE DEF JoinThread
  <2>1. mapSessions = {} /\ \A p \in Procs : conn[p] = None
    BY <1>21 DEF QuietExit
  <2>2. \A c \in Conns : Asked'[c] = None
    <3>1. \A c \in Conns : c \notin Parked'
      BY <1>21 DEF Parked
    <3> QED
      BY <1>21, <2>1, <3>1 DEF AskedAre, AskedIs
  <2>3. Asked' = [c \in Conns |-> None]
    BY <2>2, AskedIsFunction
  <2>4. Parked = {c \in Conns : Asked[c] # None}
    <3>1. Parked \subseteq Conns
      BY DEF Parked
    <3> QED
      BY <2>1, <3>1 DEF AskedAre, AskedIs
  <2>5. Delivery!Exit
    BY <1>21, <2>1, <2>3, <2>4 DEF Delivery!Exit
  <2> QED
    BY <2>5 DEF Delivery!Next
<1>22. CASE UNCHANGED vars
  BY <1>22, AllAskedStay, NothingDelivered DEF vars
<1> QED
  BY <1>1, <1>2, <1>3, <1>4, <1>5, <1>6, <1>7, <1>8, <1>9, <1>10, <1>11,
     <1>12, <1>13, <1>14, <1>15, <1>16, <1>17, <1>18, <1>19, <1>20, <1>21,
     <1>22
     DEF Next, ProcStep, Work, Exit, Terminated

(* Whatever sessions, requests and the notification thread do, clients see   *)
(* what NotificationDelivery promises.                                       *)
THEOREM NotificationsAreDelivered == Spec => ImplementsDelivery
<1>1. Init => Delivery!Init
  <2> SUFFICES ASSUME Init PROVE Delivery!Init
    OBVIOUS
  <2>1. \A c \in Conns : Asked[c] = None
    BY DEF Init, Asked
  <2> QED
    BY <2>1, AskedIsFunction DEF Init, Delivery!Init
<1>2. NInv /\ NInv' /\ QuietExit /\ [Next]_vars => [Delivery!Next]_(Delivery!vars)
  <2>1. NInv => AskedAre
    BY AskedAreTold
  <2>2. NInv' => AskedAre'
    BY <2>1, PTL
  <2> QED
    BY <2>1, <2>2, StepDelivers
<1> QED
  BY <1>1, <1>2, Invariance, ExitIsQuiet, PTL DEF Spec, ImplementsDelivery, Delivery!Spec
=============================================================================
