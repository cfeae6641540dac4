-------------------------- MODULE MessageImportProofs --------------------------
(* Proofs about MessageImport, for any length of the stream and size of the    *)
(* buffer: an import whose stream is closed implements AtomicImport, and the   *)
(* connection to the database is used by one thread at a time; and, whether or *)
(* not the stream is closed, its two threads never both wait for each other,   *)
(* the files are those of the rows, and an "ok" means that all was imported.   *)
EXTENDS MessageImport, TLAPS

\* what the request thread has done when it is at these labels
Preparing == {"begin", "delete", "create", "open"}
Streaming == {"feed", "write", "close", "join"}
Settling  == {"finish", "files", "commit"}
Failing   == {"undo", "rollback"}
Replied   == {"cleanup", "await", "end", "gone"}

--------------------------------------------------------------------------------
\* A new message has no rows and no file; any other has both.
LEMMA OldAtInit ==
  ASSUME Init
  PROVE  \/ isNew = TRUE /\ oldRows = FALSE /\ oldSeen = FALSE /\ oldFile = FALSE
         \/ isNew = FALSE /\ oldRows = TRUE /\ oldSeen = TRUE /\ oldFile = TRUE
<1>1. isNew \in BOOLEAN /\ oldRows = ~ isNew /\ oldSeen = oldRows /\ oldFile = ~ isNew
  BY DEF Init
<1>2. CASE isNew = TRUE
  BY <1>1, <1>2, Zenon
<1>3. CASE isNew = FALSE
  BY <1>1, <1>3, Zenon
<1> QED
  BY <1>1, <1>2, <1>3

\* The buffer. A thread that waits does so for what the other side has to do.
BufferInv ==
    /\ stored \in 0 .. Capacity
    /\ fed \in 0 .. Units /\ wleft \in 0 .. Units
    /\ rleft \in 0 .. Units /\ size \in 0 .. Units /\ got \in Int
    /\ wwaits \in BOOLEAN /\ rwaits \in BOOLEAN
    /\ wclosed \in BOOLEAN /\ rclosed \in BOOLEAN
    /\ stream \in BOOLEAN /\ filesOpen \in BOOLEAN /\ toDelete \in BOOLEAN
    /\ oldFile \in BOOLEAN /\ newFile \in BOOLEAN
    /\ pool \in {"up", "ending", "down"}
    /\ NoLostWakeup

\* Every step keeps it: who changes the level or closes an end wakes the other.
LEMMA BufferKeepsInv ==
  ASSUME BufferInv, got \in 0 .. Units, [Next]_vars
  PROVE  BufferInv'
<1> USE ImportAssumption
    DEF ImportAssumption, BufferInv, NoLostWakeup, request, fifo, worker, database, storage
<1>1. CASE MTOMWrite
  BY <1>1 DEF MTOMWrite, UpTo, AtMost
<1>2. CASE FifoWrite
  <2> DEFINE n == AtMost(wleft, Capacity - stored)
  <2>1. /\ n \in Nat /\ n <= wleft /\ n <= Capacity - stored
        /\ n = wleft \/ n = Capacity - stored
    BY DEF AtMost
  <2>2. /\ stored' = stored + n /\ wleft' = wleft - n
        /\ rwaits' = IF n > 0 THEN FALSE ELSE rwaits
    BY <1>2 DEF FifoWrite
  <2>3. rwaits' \in BOOLEAN /\ (rwaits' => rwaits /\ n = 0)
    <3>1. CASE n > 0
      BY <2>2, <3>1
    <3>2. CASE n = 0
      BY <2>2, <3>2
    <3> QED
      BY <2>1, <3>1, <3>2
  <2>4. /\ wwaits' \in BOOLEAN
        /\ wwaits' => wleft # n /\ ~ rclosed
    BY <1>2, Zenon DEF FifoWrite
  <2>5. UNCHANGED <<fed, stream, wclosed, rclosed, worker, storage>>
    BY <1>2 DEF FifoWrite
  <2> HIDE DEF n
  <2>6. NoLostWakeup'
    BY <2>1, <2>2, <2>3, <2>4, <2>5
  <2>7. stored' \in 0 .. Capacity /\ wleft' \in 0 .. Units
    BY <2>1, <2>2
  <2>8. UNCHANGED <<rleft, size, got, pool, filesOpen, toDelete, oldFile, newFile>>
    BY <2>5
  <2> QED
    BY <2>3, <2>4, <2>5, <2>6, <2>7, <2>8, Zenon
<1>3. CASE FifoRead
  <2> DEFINE n == AtMost(rleft, stored)
  <2>1. n \in Nat /\ n <= rleft /\ n <= stored /\ (n = rleft \/ n = stored)
    BY DEF AtMost
  <2>2. stored' = stored - n /\ rleft' = rleft - n
    BY <1>3 DEF FifoRead
  <2>3. got' = got \/ got' = got + size
    BY <1>3, Zenon DEF FifoRead, TaskDone
  <2>4. newFile' \in BOOLEAN
    BY <1>3, Zenon DEF FifoRead, TaskDone
  <2>5. /\ wwaits' \in BOOLEAN /\ (wwaits' => wwaits /\ n = 0 /\ rclosed' = rclosed)
        /\ rclosed' \in BOOLEAN /\ rwaits' \in BOOLEAN
        /\ rwaits' => rwaits \/ (rleft # n /\ ~ wclosed)
    BY <1>3, Zenon DEF FifoRead, TaskDone
  <2>6. ~ rwaits /\ UNCHANGED <<fed, wleft, stream, wclosed, size, pool, filesOpen,
                                toDelete, oldFile>>
    BY <1>3 DEF FifoRead
  <2> HIDE DEF n
  <2>7. NoLostWakeup'
    BY <2>1, <2>2, <2>5, <2>6
  <2> QED
    BY <2>1, <2>2, <2>3, <2>4, <2>5, <2>6, <2>7
<1>4. CASE StartRead
  BY <1>4 DEF StartRead, UpTo, AtMost
<1>5. CASE MTOMWriteClose
  BY <1>5 DEF MTOMWriteClose
<1>6. CASE CloseLeftStream
  BY <1>6 DEF CloseLeftStream
<1>7. CASE EndTask \/ FailTask
  BY <1>7 DEF EndTask, FailTask, TaskDone
<1>8. CASE FifoWriteTimeout
  BY <1>8 DEF FifoWriteTimeout
<1>9. CASE EndOfStream
  BY <1>9 DEF EndOfStream
<1>10. CASE Fail
  BY <1>10 DEF Fail
<1>11. CASE Crash
  BY <1>11 DEF Crash
<1>12. CASE Begin
  BY <1>12 DEF Begin
<1>13. CASE DeleteOld
  BY <1>13 DEF DeleteOld
<1>14. CASE Create
  BY <1>14 DEF Create
<1>15. CASE MTOMWriteOpen
  BY <1>15 DEF MTOMWriteOpen
<1>16. CASE JoinTask
  BY <1>16 DEF JoinTask
<1>17. CASE UndoFiles
  BY <1>17 DEF UndoFiles
<1>18. CASE Finish \/ Commit \/ Rollback \/ Reply
  BY <1>18 DEF Finish, Commit, Rollback, Reply
<1>19. ASSUME NEW works \in BOOLEAN, CommitFiles(works) PROVE BufferInv'
  BY <1>19 DEF CommitFiles
<1>20. CASE SessionDone \/ PoolDeleted \/ StartTask \/ EndThread \/ UNCHANGED vars
  BY <1>20 DEF SessionDone, PoolDeleted, StartTask, EndThread, vars
<1> QED
  BY <1>1, <1>2, <1>3, <1>4, <1>5, <1>6, <1>7, <1>8, <1>9, <1>10, <1>11, <1>12,
     <1>13, <1>14, <1>15, <1>16, <1>17, <1>18, <1>19, <1>20
  DEF Next, RequestStep, ClientStep, TaskStep, Failure

\* The buffer is empty at first, and nobody waits.
LEMMA InitBuffer == Init => BufferInv
<1> SUFFICES ASSUME Init PROVE BufferInv
  OBVIOUS
<1>1. /\ stored = 0 /\ fed = 0 /\ wleft = 0 /\ rleft = 0 /\ size = 0 /\ got = 0
      /\ wwaits = FALSE /\ rwaits = FALSE /\ wclosed = FALSE /\ rclosed = FALSE
      /\ stream = FALSE /\ filesOpen = FALSE /\ toDelete = FALSE /\ newFile = FALSE
      /\ pool = "up"
  BY DEF Init
<1>2. oldFile \in BOOLEAN
  BY OldAtInit
<1>3. /\ stored \in 0 .. Capacity /\ fed \in 0 .. Units /\ wleft \in 0 .. Units
      /\ rleft \in 0 .. Units /\ size \in 0 .. Units /\ got \in Int
  BY <1>1, ImportAssumption DEF ImportAssumption
<1> QED
  BY <1>1, <1>2, <1>3, Zenon DEF BufferInv, NoLostWakeup

\* What is read is part of the stream, whatever becomes of the request.
GotInv ==
    /\ got \in 0 .. Units
    /\ task = "reading" => got + size \in 0 .. Units

\* The ends: a task has a writer until the stream is closed, a writer a reader
\* until the task is done, and the pool lives as long as the request.
EndsInv ==
    /\ pc \in Preparing => task = "none" /\ ~ stream
    /\ pc \in {"feed", "write", "close"} => stream /\ task # "none"
    /\ pc = "join" => wclosed /\ task # "none"
    /\ task \in {"queued", "running", "reading"} => stream \/ wclosed
    /\ pc \in {"await", "end", "gone"} => ~ stream
    /\ task = "done" => rclosed
    /\ pool # "up" => pc \in {"end", "gone", "crashed"}
    /\ pc = "end" => pool # "up" /\ task \in {"none", "done"}
    /\ task \in {"none", "queued", "running", "reading", "done"}
    /\ pc \in Preparing \cup Streaming \cup Settling \cup Failing \cup Replied
              \cup {"reply", "crashed"}

\* Every step keeps both.
LEMMA EndsKeepInv ==
  ASSUME BufferInv, GotInv, EndsInv, [Next]_vars
  PROVE  GotInv' /\ EndsInv'
<1> USE ImportAssumption
    DEF ImportAssumption, BufferInv, GotInv, EndsInv, Preparing, Streaming, Settling,
        Failing, Replied, request, fifo, worker, database, storage
<1>1. CASE MTOMWrite
  BY <1>1 DEF MTOMWrite
<1>2. CASE FifoWrite
  BY <1>2 DEF FifoWrite, AfterStream
<1>3. CASE FifoRead
  <2>1. \/ got' \in 0 .. Units /\ task' # "reading"
        \/ UNCHANGED <<got, size, task>>
    BY <1>3 DEF FifoRead, TaskDone
  <2>2. EndsInv'
    BY <1>3 DEF FifoRead, TaskDone
  <2> QED
    BY <2>1, <2>2
<1>4. CASE StartRead
  BY <1>4 DEF StartRead, UpTo, AtMost
<1>5. CASE MTOMWriteClose
  BY <1>5 DEF MTOMWriteClose
<1>6. CASE CloseLeftStream
  BY <1>6 DEF CloseLeftStream
<1>7. CASE EndTask \/ FailTask
  BY <1>7 DEF EndTask, FailTask, TaskDone
<1>8. CASE FifoWriteTimeout
  BY <1>8 DEF FifoWriteTimeout, AfterStream
<1>9. CASE EndOfStream
  BY <1>9 DEF EndOfStream, AfterStream
<1>10. CASE Fail
  BY <1>10 DEF Fail
<1>11. CASE Crash
  BY <1>11 DEF Crash
<1>12. CASE Begin
  BY <1>12 DEF Begin
<1>13. CASE DeleteOld
  BY <1>13 DEF DeleteOld
<1>14. CASE Create
  BY <1>14 DEF Create
<1>15. CASE MTOMWriteOpen
  BY <1>15 DEF MTOMWriteOpen
<1>16. CASE JoinTask
  BY <1>16 DEF JoinTask
<1>17. CASE UndoFiles
  BY <1>17 DEF UndoFiles
<1>18. CASE Finish \/ Commit \/ Rollback \/ Reply
  BY <1>18 DEF Finish, Commit, Rollback, Reply
<1>19. ASSUME NEW works \in BOOLEAN, CommitFiles(works) PROVE GotInv' /\ EndsInv'
  BY <1>19 DEF CommitFiles
<1>20. CASE SessionDone \/ PoolDeleted \/ StartTask \/ EndThread \/ UNCHANGED vars
  BY <1>20 DEF SessionDone, PoolDeleted, StartTask, EndThread, vars
<1> QED
  BY <1>1, <1>2, <1>3, <1>4, <1>5, <1>6, <1>7, <1>8, <1>9, <1>10, <1>11, <1>12,
     <1>13, <1>14, <1>15, <1>16, <1>17, <1>18, <1>19, <1>20
  DEF Next, RequestStep, ClientStep, TaskStep, Failure

\* An import begins without a stream, a task or an end.
LEMMA InitEnds == Init => GotInv /\ EndsInv
  BY ImportAssumption
  DEF ImportAssumption, Init, GotInv, EndsInv, Preparing, Streaming, Settling, Failing, Replied

\* Neither waits for one that waits, or is gone.
LEMMA OneGoesOn == BufferInv /\ EndsInv => NobodyHangs
<1> SUFFICES ASSUME BufferInv, EndsInv, ~ RequestReady, pc \notin {"gone", "crashed"}
             PROVE  TaskReady
  BY DEF NobodyHangs
<1> USE DEF EndsInv, BufferInv, NoLostWakeup, TaskReady, RequestReady
<1>1. CASE pc = "write" /\ wwaits
  <2>1. stored = Capacity /\ ~ rclosed /\ task \in {"queued", "running", "reading"}
    BY <1>1
  <2>2. task = "reading" => ~ rwaits
    BY <2>1, ImportAssumption DEF ImportAssumption
  <2> QED
    BY <1>1, <2>1, <2>2
<1>2. CASE pc \in {"join", "await"} /\ task \in {"queued", "running", "reading"}
  <2>1. wclosed /\ pool = "up"
    BY <1>2
  <2> QED
    BY <1>2, <2>1
<1>3. CASE pc = "end" /\ pool # "down"
  BY <1>3
<1> QED
  BY <1>1, <1>2, <1>3

\* No wakeup is lost, for any size of buffer and stream, and also when gSOAP leaves
\* the stream open: a writer that waits has a full buffer and a reader, and a reader
\* that waits an empty one and a writer.
THEOREM NoWakeupIsLost == Spec => []NoLostWakeup
<1>1. BufferInv /\ GotInv /\ EndsInv /\ [Next]_vars => (BufferInv /\ GotInv /\ EndsInv)'
  BY BufferKeepsInv, EndsKeepInv DEF GotInv
<1>2. BufferInv => NoLostWakeup
  BY DEF BufferInv
<1> QED
  BY <1>1, <1>2, InitBuffer, InitEnds, PTL DEF Spec

\* Until an import is over one of its two threads can go on, for any size of buffer
\* and stream, whatever fails, and also when gSOAP leaves the stream open.
THEOREM NobodyWaitsForever == Spec => []NobodyHangs
<1>1. BufferInv /\ GotInv /\ EndsInv /\ [Next]_vars => (BufferInv /\ GotInv /\ EndsInv)'
  BY BufferKeepsInv, EndsKeepInv DEF GotInv
<1> QED
  BY <1>1, InitBuffer, InitEnds, OneGoesOn, PTL DEF Spec
--------------------------------------------------------------------------------
\* The task may still read from the buffer.
Reading == task \in {"queued", "running", "reading"}

\* What has been fed and is not yet read is in the buffer, or with the thread that
\* writes or reads; who waits to write has something to write.
FlowInv ==
    /\ pc \in Preparing => got = 0 /\ stored = 0 /\ fed = 0 /\ wleft = 0
    /\ task = "reading" => rleft <= size
    /\ Reading => fed = got + (IF task = "reading" THEN size - rleft ELSE 0) + stored + wleft
    /\ (pc = "feed" => wleft = 0) /\ (wwaits => wleft > 0)
    /\ rclosed /\ pc # "crashed" => task = "done"
    /\ newFile => got = Units

\* When gSOAP leaves a stream open its task may go on while the request is undone,
\* answered and ended; it will never have read everything.
LeftInv ==
    Reading /\ pc \notin Streaming =>
        /\ StreamLeftOpen /\ er /\ fed - wleft < Units
        /\ pc \in {"undo", "rollback", "reply", "cleanup", "await"}

\* Every step keeps both.
LEMMA FlowKeepsInv ==
  ASSUME BufferInv, GotInv, EndsInv, FlowInv, LeftInv, [Next]_vars
  PROVE  FlowInv' /\ LeftInv'
<1> USE ImportAssumption
    DEF ImportAssumption, BufferInv, GotInv, EndsInv, FlowInv, LeftInv, Reading, Preparing,
        Streaming, Settling, Failing, Replied, AtMost, request, fifo, worker, database,
        storage
<1>1. CASE MTOMWrite
  BY <1>1 DEF MTOMWrite, UpTo
<1>2. CASE FifoWrite
  BY <1>2 DEF FifoWrite, AfterStream
<1>3. CASE FifoRead
  <2> DEFINE n == AtMost(rleft, stored)
  <2>1. n \in 0 .. rleft /\ n \in 0 .. stored
    OBVIOUS
  <2>2. /\ task = "reading" /\ stored' = stored - n /\ rleft' = rleft - n
        /\ UNCHANGED <<pc, er, fed, wleft, size>> /\ wwaits' \in BOOLEAN /\ (wwaits' => wwaits)
    BY <1>3 DEF FifoRead, TaskDone
  <2>3. CASE rleft = n
    <3>1. /\ task' = "running" /\ got' = got + size /\ UNCHANGED rclosed
      BY <1>3, <2>3 DEF FifoRead
    <3>2. newFile' <=> newFile \/ got + size = Units
      BY <1>3, <2>3, Zenon DEF FifoRead
    <3> QED
      BY <2>1, <2>2, <2>3, <3>1, <3>2
  <2>4. CASE rleft # n
    <3>1. UNCHANGED <<got, newFile>>
      BY <1>3, <2>4 DEF FifoRead
    <3>2. \/ task' = "reading" /\ UNCHANGED rclosed
          \/ task' = "done"
      BY <1>3, <2>2, <2>4 DEF FifoRead, TaskDone
    <3> QED
      BY <2>1, <2>2, <2>4, <3>1, <3>2
  <2> QED
    BY <2>3, <2>4
<1>4. CASE StartRead
  BY <1>4 DEF StartRead, UpTo
<1>5. CASE MTOMWriteClose
  BY <1>5 DEF MTOMWriteClose
<1>6. CASE CloseLeftStream
  BY <1>6 DEF CloseLeftStream
<1>7. CASE EndTask \/ FailTask
  BY <1>7 DEF EndTask, FailTask, TaskDone
<1>8. CASE FifoWriteTimeout
  BY <1>8 DEF FifoWriteTimeout, AfterStream
<1>9. CASE EndOfStream
  BY <1>9 DEF EndOfStream, AfterStream
<1>10. CASE MTOMWriteOpen
  BY <1>10 DEF MTOMWriteOpen
<1>11. CASE JoinTask
  BY <1>11 DEF JoinTask
<1>12. CASE Crash
  BY <1>12 DEF Crash
<1>13. CASE Fail
  BY <1>13 DEF Fail
<1>14. CASE Begin \/ DeleteOld \/ Create
  <2>1. /\ pc \in Preparing /\ pc' \in Preparing
        /\ UNCHANGED <<fed, wleft, stored, wwaits, rclosed, task, got, newFile>>
    BY <1>14 DEF Begin, DeleteOld, Create
  <2> QED
    BY <2>1
<1>15. CASE UndoFiles
  <2>1. newFile' <=> newFile /\ ~ filesOpen
    BY <1>15, Zenon DEF UndoFiles, BufferInv
  <2> QED
    BY <1>15, <2>1 DEF UndoFiles
<1>16. CASE Finish \/ Commit \/ Rollback \/ Reply
  BY <1>16 DEF Finish, Commit, Rollback, Reply
<1>17. ASSUME NEW works \in BOOLEAN, CommitFiles(works) PROVE FlowInv' /\ LeftInv'
  BY <1>17 DEF CommitFiles
<1>18. CASE SessionDone \/ PoolDeleted \/ StartTask \/ EndThread \/ UNCHANGED vars
  BY <1>18 DEF SessionDone, PoolDeleted, StartTask, EndThread, vars
<1> QED
  BY <1>1, <1>2, <1>3, <1>4, <1>5, <1>6, <1>7, <1>8, <1>9, <1>10, <1>11, <1>12,
     <1>13, <1>14, <1>15, <1>16, <1>17, <1>18
  DEF Next, RequestStep, ClientStep, TaskStep, Failure

\* At first nothing flows.
LEMMA InitFlow == Init => FlowInv /\ LeftInv
  BY ImportAssumption
  DEF ImportAssumption, Init, FlowInv, LeftInv, Reading, Preparing

\* What holds of the buffer and its ends, whatever becomes of the request.
Base == BufferInv /\ GotInv /\ EndsInv /\ FlowInv /\ LeftInv

\* It is inductive.
LEMMA BaseKeepsInv == Base /\ [Next]_vars => Base'
  BY BufferKeepsInv, EndsKeepInv, FlowKeepsInv DEF Base, GotInv

\* It holds at first.
LEMMA InitBase == Init => Base
  BY InitBuffer, InitEnds, InitFlow DEF Base
--------------------------------------------------------------------------------
\* The types of what the request and the task do with the database.
TypeInv ==
    /\ pc \in Preparing \cup Streaming \cup Settling \cup Failing \cup Replied
              \cup {"reply", "crashed"}
    /\ er \in BOOLEAN /\ isNew \in BOOLEAN /\ inTransaction \in BOOLEAN
    /\ oldRows \in BOOLEAN /\ oldSeen \in BOOLEAN
    /\ answer \in {None, "ok", "error"} /\ result \in {None, "ok", "error"}
    /\ task \in {"none", "queued", "running", "reading", "done"}
    /\ got \in 0 .. Units /\ newSeen \in 0 .. Complete /\ newRows \in 0 .. Complete

\* The data that is read, in units, is the data that has been written.
TaskInv ==
    /\ task = "reading" => size \in Nat /\ got + size \in 0 .. Units
    /\ task = "done" => result \in {"ok", "error"} /\ (result = "ok" => got = Units)
    /\ pc \in Preparing => task = "none" /\ got = 0

\* What the connection sees at each label; more and more, while a task goes on.
SeenInv ==
    /\ pc \in {"begin", "delete", "create"} => newSeen = 0
    /\ pc \in {"begin", "delete"} => oldSeen = oldRows
    /\ pc = "create" => ~ oldSeen
    /\ pc = "delete" => ~ isNew
    /\ pc = "open" => newSeen = 1 /\ ~ oldSeen
    /\ pc \in Streaming => newSeen = 1 + got /\ ~ oldSeen
    /\ pc \in Settling => newSeen = Complete /\ ~ oldSeen
    /\ Reading /\ pc \in Failing => newSeen <= 1 + got

\* What is committed at each label, and what the thread knows of it. After an error
\* there are new rows only of a task that went on after the rollback, and never all.
CommittedInv ==
    /\ pc \in {"delete", "create", "open"} \cup Streaming \cup Settling => inTransaction
    /\ Reading /\ pc \in Failing => inTransaction
    /\ pc \in Preparing \cup Streaming \cup Settling \cup Failing
         => Before /\ answer = None
    /\ pc = "reply" => answer = None
    /\ answer = "ok" => After /\ (pc = "crashed" \/ ~ er)
    /\ pc \in {"reply"} \cup Replied =>
         IF er THEN /\ oldSeen = oldRows /\ oldRows # isNew /\ ~ inTransaction
                    /\ newSeen = newRows /\ newRows <= got
                    /\ newRows = 0 \/ StreamLeftOpen
         ELSE After
    /\ pc = "crashed" => Before \/ After \/ StreamLeftOpen
    /\ pc \in Settling => ~ er
    /\ pc \in Failing => er

IInv == TypeInv /\ TaskInv /\ SeenInv /\ CommittedInv

\* An import begins in a state of the invariant.
LEMMA InitInv == Init => IInv
<1> SUFFICES ASSUME Init PROVE IInv
  OBVIOUS
<1> USE ImportAssumption DEF ImportAssumption
<1>1. /\ isNew \in BOOLEAN /\ oldRows \in BOOLEAN /\ oldSeen \in BOOLEAN
      /\ oldRows # isNew /\ oldSeen = oldRows
  BY OldAtInit
<1>2. /\ pc = "begin" /\ er = FALSE /\ answer = None /\ task = "none" /\ got = 0
      /\ result = None /\ inTransaction = FALSE /\ newRows = 0 /\ newSeen = 0
  BY DEF Init
<1>3. TypeInv
  <2>1. got \in 0 .. Units /\ newSeen \in 0 .. Complete /\ newRows \in 0 .. Complete
    BY <1>2 DEF Complete
  <2> QED
    BY <1>1, <1>2, <2>1, Zenon DEF TypeInv, Preparing
<1>4. TaskInv /\ SeenInv
  BY <1>1, <1>2
  DEF TaskInv, SeenInv, Reading, Preparing, Streaming, Settling
<1>5. CommittedInv
  BY <1>1, <1>2 DEF CommittedInv, Before, Reading, Preparing, Streaming, Settling, Failing, Replied
<1> QED
  BY <1>3, <1>4, <1>5 DEF IInv

\* Every step of the request thread keeps the invariant.
LEMMA RequestInv ==
  ASSUME IInv, Base, RequestStep
  PROVE  IInv'
<1> USE ImportAssumption
    DEF ImportAssumption, IInv, TypeInv, TaskInv, SeenInv, CommittedInv, Base, LeftInv, EndsInv,
        Reading, Before, After,
        Complete, Preparing, Streaming, Settling, Failing, Replied, AfterStream, See,
        request, fifo, worker, database, storage
<1>1. CASE Begin
  BY <1>1 DEF Begin
<1>2. CASE DeleteOld
  BY <1>2 DEF DeleteOld
<1>3. CASE Create
  BY <1>3 DEF Create
<1>4. CASE MTOMWriteOpen
  BY <1>4 DEF MTOMWriteOpen
<1>5. CASE FifoWrite
  <2>1. /\ pc = "write" /\ UNCHANGED <<isNew, answer, worker, database, storage>>
        /\ \/ pc' \in {"feed", "write", "close"} /\ er' \in BOOLEAN
           \/ pc' = "undo" /\ er' = TRUE
    BY <1>5 DEF FifoWrite
  <2>2. TypeInv' /\ TaskInv'
    BY <2>1
  <2>3. SeenInv'
    BY <2>1
  <2>4. CommittedInv'
    BY <2>1
  <2> QED
    BY <2>2, <2>3, <2>4
<1>6. CASE MTOMWriteClose
  BY <1>6 DEF MTOMWriteClose
<1>7. CASE JoinTask
  BY <1>7 DEF JoinTask
<1>8. CASE Finish
  BY <1>8 DEF Finish
<1>9. ASSUME NEW works \in BOOLEAN, CommitFiles(works) PROVE IInv'
  BY <1>9 DEF CommitFiles
<1>10. CASE Commit
  BY <1>10 DEF Commit
<1>11. CASE UndoFiles
  BY <1>11 DEF UndoFiles
<1>12. CASE Rollback
  <2>1. /\ pc = "rollback" /\ pc' = "reply" /\ er = TRUE /\ newRows = 0 /\ newSeen' = 0
        /\ inTransaction' = FALSE /\ oldSeen' = oldRows
        /\ UNCHANGED <<er, isNew, answer, worker, oldRows, newRows>>
    BY <1>12 DEF Rollback
  <2>2. TypeInv' /\ TaskInv'
    BY <2>1
  <2>3. SeenInv'
    BY <2>1
  <2>4. CommittedInv'
    <3>1. answer' # "ok"
      BY <2>1
    <3>2. /\ oldSeen' = oldRows' /\ oldRows' # isNew' /\ ~ inTransaction'
          /\ newSeen' = newRows' /\ newRows' <= got' /\ newRows' = 0
      BY <2>1
    <3> QED
      BY <2>1, <3>1, <3>2
  <2> QED
    BY <2>2, <2>3, <2>4
<1>13. CASE Reply
  BY <1>13 DEF Reply
<1>14. CASE CloseLeftStream
  BY <1>14 DEF CloseLeftStream
<1>15. CASE SessionDone
  BY <1>15 DEF SessionDone
<1>16. CASE PoolDeleted
  BY <1>16 DEF PoolDeleted
<1> QED
  BY <1>1, <1>2, <1>3, <1>4, <1>5, <1>6, <1>7, <1>8, <1>9, <1>10, <1>11, <1>12,
     <1>13, <1>14, <1>15, <1>16 DEF RequestStep

\* Every step of the task, and the end of the thread it runs in, keeps it.
LEMMA TaskKeepsInv ==
  ASSUME IInv, Base, TaskStep \/ FailTask
  PROVE  IInv'
<1> USE ImportAssumption
    DEF ImportAssumption, IInv, TypeInv, TaskInv, SeenInv, CommittedInv, Base, LeftInv, EndsInv,
        Reading, Before, After,
        Complete, Preparing, Streaming, Settling, Failing, Replied, See, TaskDone, UpTo,
        AtMost, request, fifo, worker, database, storage
<1>1. CASE StartTask
  BY <1>1 DEF StartTask
<1>2. CASE StartRead
  BY <1>2 DEF StartRead
<1>3. CASE FifoRead
  BY <1>3 DEF FifoRead
<1>4. CASE EndTask
  BY <1>4 DEF EndTask
<1>5. CASE EndThread
  BY <1>5 DEF EndThread
<1>6. CASE FailTask
  BY <1>6 DEF FailTask
<1> QED
  BY <1>1, <1>2, <1>3, <1>4, <1>5, <1>6 DEF TaskStep

\* So does every other step.
LEMMA OtherInv ==
  ASSUME IInv, Base,
         ClientStep \/ Fail \/ FifoWriteTimeout \/ Crash \/ UNCHANGED vars
  PROVE  IInv'
<1> USE ImportAssumption
    DEF ImportAssumption, IInv, TypeInv, TaskInv, SeenInv, CommittedInv, Base, LeftInv, EndsInv,
        Reading, Before, After,
        Complete, Preparing, Streaming, Settling, Failing, Replied, AfterStream,
        request, fifo, worker, database, storage
<1>1. CASE MTOMWrite
  BY <1>1 DEF MTOMWrite
<1>2. CASE EndOfStream
  BY <1>2 DEF EndOfStream
<1>3. CASE Fail
  BY <1>3 DEF Fail
<1>4. CASE FifoWriteTimeout
  BY <1>4 DEF FifoWriteTimeout
<1>5. CASE Crash
  BY <1>5 DEF Crash
<1>6. CASE UNCHANGED vars
  BY <1>6 DEF vars
<1> QED
  BY <1>1, <1>2, <1>3, <1>4, <1>5, <1>6 DEF ClientStep

\* The invariant is inductive.
LEMMA NextInv == IInv /\ Base /\ [Next]_vars => IInv'
  BY RequestInv, TaskKeepsInv, OtherInv DEF Next, Failure

\* An import keeps to it, whether or not gSOAP closes the stream.
THEOREM Invariance == Spec => [](IInv /\ Base)
  BY InitInv, InitBase, NextInv, BaseKeepsInv, PTL DEF Spec

\* Two threads have the one connection, and never use it at the same time: the
\* request thread keeps away from it from the moment the task is queued until
\* it has seen the task's end.
THEOREM UsedByOne ==
  ASSUME ~ StreamLeftOpen
  PROVE  Spec => []DatabaseUsedByOne
<1>1. LeftInv => DatabaseUsedByOne
  BY DEF LeftInv, DatabaseUsedByOne, Reading, Streaming
<1> QED
  BY <1>1, Invariance, PTL DEF Base

\* Every variable has its type; that the rows do not exceed those of a message
\* rests on what the connection has seen.
THEOREM TypeCorrect == Spec => []TypeOK
<1>1. IInv /\ Base => TypeOK
  <2> SUFFICES ASSUME IInv, Base PROVE TypeOK
    OBVIOUS
  <2>1. pc \in {"begin", "delete", "create", "open", "feed", "write", "close",
                "join", "finish", "files", "commit", "undo", "rollback", "reply",
                "cleanup", "await", "end", "gone", "crashed"}
    BY DEF IInv, TypeInv, Preparing, Streaming, Settling, Failing, Replied
  <2> QED
    BY <2>1 DEF IInv, TypeInv, Base, BufferInv, TypeOK
<1> QED
  BY <1>1, Invariance, PTL

\* The client is told "ok" only when its message is replaced as a whole, also when
\* a task goes on after the answer: then it was told "error".
THEOREM OkIsTrue == Spec => []OkMeansReplaced
<1>1. IInv => OkMeansReplaced
  BY DEF IInv, CommittedInv, OkMeansReplaced, message
<1> QED
  BY <1>1, Invariance, PTL
--------------------------------------------------------------------------------
\* The labels before the files of the request are committed.
Storing == Streaming \cup {"finish", "files"}
Ending  == {"reply"} \cup Replied

\* The task has not read everything, or has failed.
Unread == Reading \/ result = "error"

\* The old file is noted with the old rows, and removed with the commit of the
\* files; the new file is there once the task has read everything, and goes with
\* the rollback, which finds the transaction of the files open whenever the task
\* has failed or goes on. A task that has not ended has no result.
FilesInv ==
    /\ pc \in {"delete", "create", "open"} \cup Storing => filesOpen
    /\ pc \in Preparing \cup Storing => (oldFile <=> ~ isNew)
    /\ pc \in {"create", "open"} \cup Storing => (toDelete <=> oldFile)
    /\ pc \in Streaming /\ got = Units => newFile
    /\ pc \in Settling => newFile /\ result # "error"
    /\ pc = "commit" => ~ oldFile
    /\ pc \in Ending /\ newRows = Complete => newFile /\ ~ oldFile
    /\ pc # "crashed" /\ task # "done" => result = None
    /\ Unread /\ pc = "undo" => filesOpen /\ (oldFile <=> ~ isNew)
    /\ Unread /\ pc \in {"rollback"} \cup Ending
         => ~ newFile /\ (oldFile <=> ~ isNew)

\* Every step keeps the files and the rows together. What the threads leave alone
\* is written out first: the flags are boolean, and a step sets few of them.
LEMMA FilesKeepInv ==
  ASSUME IInv, Base, FilesInv, [Next]_vars
  PROVE  FilesInv'
<1> USE ImportAssumption
    DEF ImportAssumption, IInv, TypeInv, TaskInv, FilesInv, Unread, Reading, Base,
        LeftInv,
        Preparing, Streaming, Settling, Failing, Replied, Storing, Ending,
        AfterStream, See, TaskDone, request, fifo, worker, database, storage
<1>1. CASE Begin
  <2>1. ~ toDelete' /\ (oldFile <=> ~ isNew)
    BY <1>1 DEF Begin
  <2>2. isNew => ~ oldFile /\ pc' = "create"
    BY <1>1, <2>1 DEF Begin
  <2> QED
    BY <1>1, <2>1, <2>2 DEF Begin, CommittedInv
<1>2. CASE DeleteOld
  <2>1. toDelete' <=> oldFile
    BY <1>2 DEF DeleteOld, BufferInv
  <2> QED
    BY <1>2, <2>1 DEF DeleteOld
<1>3. CASE Create
  BY <1>3 DEF Create
<1>4. CASE MTOMWriteOpen
  BY <1>4 DEF MTOMWriteOpen
<1>5. CASE FifoWrite
  BY <1>5 DEF FifoWrite
<1>6. CASE MTOMWriteClose
  BY <1>6 DEF MTOMWriteClose
<1>7. CASE JoinTask
  BY <1>7 DEF JoinTask
<1>8. CASE Finish
  BY <1>8 DEF Finish
<1>9. CASE Commit
  BY <1>9 DEF Commit
<1>10. CASE UndoFiles
  <2>1. newFile' <=> newFile /\ ~ filesOpen
    BY <1>10, Zenon DEF UndoFiles, BufferInv
  <2> QED
    BY <1>10, <2>1 DEF UndoFiles
<1>11. CASE Rollback
  BY <1>11 DEF Rollback, CommittedInv, Before, Complete
<1>12. CASE Reply
  BY <1>12 DEF Reply
<1>13. CASE CloseLeftStream
  BY <1>13 DEF CloseLeftStream
<1>14. CASE SessionDone
  BY <1>14 DEF SessionDone
<1>15. CASE PoolDeleted
  BY <1>15 DEF PoolDeleted
<1>16. CASE MTOMWrite
  BY <1>16 DEF MTOMWrite
<1>17. CASE EndOfStream
  BY <1>17 DEF EndOfStream
<1>18. CASE StartTask
  BY <1>18 DEF StartTask
<1>19. CASE StartRead
  BY <1>19 DEF StartRead
<1>20. CASE EndTask
  BY <1>20 DEF EndTask
<1>21. CASE EndThread
  BY <1>21 DEF EndThread
<1>22. CASE Fail
  BY <1>22 DEF Fail
<1>23. CASE FifoWriteTimeout
  BY <1>23 DEF FifoWriteTimeout
<1>24. CASE FailTask
  BY <1>24 DEF FailTask
<1>25. CASE Crash
  BY <1>25 DEF Crash
<1>26. ASSUME NEW works \in BOOLEAN, CommitFiles(works) PROVE FilesInv'
  <2>1. CASE works
    <3>1. ~ oldFile'
      BY <1>26, <2>1, Zenon DEF CommitFiles, BufferInv
    <3> QED
      BY <1>26, <2>1, <3>1 DEF CommitFiles
  <2>2. CASE ~ works
    BY <1>26, <2>2 DEF CommitFiles
  <2> QED
    BY <2>1, <2>2
<1>27. CASE FifoRead
  <2>1. /\ task = "reading" /\ pc' = pc
        /\ UNCHANGED <<er, isNew, filesOpen, toDelete, oldFile>>
    BY <1>27 DEF FifoRead
  <2>2. got' = Units => got = Units \/ newFile'
    BY <1>27, Zenon DEF FifoRead
  <2>3. newFile => newFile'
    BY <1>27, Zenon DEF FifoRead
  <2>4. task' # "done" => result' = None
    BY <1>27 DEF FifoRead
  <2>5. CASE pc \in Streaming
    BY <2>1, <2>2, <2>3, <2>4, <2>5
  <2>6. CASE pc \notin Streaming
    <3>1. /\ pc \in {"undo", "rollback", "reply", "cleanup", "await"}
          /\ er /\ fed - wleft < Units
      BY <2>1, <2>6
    <3>2. newFile' => newFile
      <4>1. rleft <= stored => got + size < Units
        BY <2>1, <3>1 DEF FlowInv, BufferInv, GotInv
      <4>2. rleft = AtMost(rleft, stored) => rleft <= stored
        BY DEF AtMost, BufferInv
      <4>3. newFile' => newFile \/ (rleft = AtMost(rleft, stored) /\ got + size = Units)
        BY <1>27, Zenon DEF FifoRead
      <4> QED
        BY <4>1, <4>2, <4>3
    <3>3. pc' \in Ending => newRows' # Complete
      <4>1. IInv'
        BY NextInv
      <4>2. pc' \in Ending => newRows' <= got' /\ got' \in 0 .. Units /\ newRows' \in Nat
        BY <2>1, <3>1, <4>1 DEF CommittedInv, Complete
      <4> QED
        BY <4>2 DEF Complete
    <3> QED
      BY <2>1, <2>4, <3>1, <3>2, <3>3
  <2> QED
    BY <2>5, <2>6
<1>28. CASE UNCHANGED vars
  BY <1>28 DEF vars
<1> QED
  BY <1>1, <1>2, <1>3, <1>4, <1>5, <1>6, <1>7, <1>8, <1>9, <1>10, <1>11, <1>12,
     <1>13, <1>14, <1>15, <1>16, <1>17, <1>18, <1>19, <1>20, <1>21, <1>22,
     <1>23, <1>24, <1>25, <1>26, <1>27, <1>28
  DEF Next, RequestStep, ClientStep, TaskStep, Failure

\* A message has its file when it has its rows.
LEMMA InitFiles == Init => FilesInv
<1> SUFFICES ASSUME Init PROVE FilesInv
  OBVIOUS
<1>1. /\ pc = "begin" /\ result = None /\ got = 0 /\ newRows = 0
  BY DEF Init
<1>2. oldFile <=> ~ isNew
  BY OldAtInit
<1> QED
  BY <1>1, <1>2, ImportAssumption
  DEF ImportAssumption, FilesInv, Unread, Reading, Preparing, Streaming, Settling, Replied, Storing, Ending

\* When the request is over, a message that was replaced has its new file and not
\* the old one, and one whose data could not be read has the old one alone,
\* whatever the size of the data and of the buffer, and wherever the task failed.
THEOREM FilesAreThoseOfRows == Spec => []FilesMatchRows
<1> DEFINE All == IInv /\ Base /\ FilesInv
<1>1. Init => All
  BY InitInv, InitBase, InitFiles
<1>2. All /\ [Next]_vars => All'
  BY NextInv, BaseKeepsInv, FilesKeepInv
<1>3. All => FilesMatchRows
  <2> SUFFICES ASSUME FilesInv, pc = "gone"
               PROVE  /\ newRows = Complete => newFile /\ ~ oldFile
                      /\ result = "error" => ~ newFile /\ oldFile # isNew
    BY DEF FilesMatchRows
  <2>1. newRows = Complete => newFile /\ ~ oldFile
    BY DEF FilesInv, Ending, Replied
  <2>2. result = "error" => ~ newFile /\ (oldFile <=> ~ isNew)
    BY DEF FilesInv, Unread, Ending, Replied
  <2> QED
    BY <2>1, <2>2, Zenon
<1> HIDE DEF All
<1> QED
  BY <1>1, <1>2, <1>3, PTL DEF Spec
--------------------------------------------------------------------------------
\* What the request thread does, and every other step, is an abstract step or
\* leaves alone what the abstract specification speaks of.
LEMMA StepRefines ==
  ASSUME IInv, Base, ~ StreamLeftOpen, [Next]_vars
  PROVE  [Abstract!Next]_<<message, answer>>
<1> USE DEF IInv, request, fifo, worker, database, storage
<1>1. ASSUME NEW works \in BOOLEAN, CommitFiles(works)
      PROVE  Abstract!Damage \/ UNCHANGED <<message, answer>>
  BY <1>1, NextInv, ImportAssumption
  DEF ImportAssumption, CommitFiles, Abstract!Damage, message, Before, After, Complete, TypeInv, CommittedInv,
      Settling, Preparing, Streaming, Failing
<1>2. CASE Commit
  BY <1>2, ImportAssumption
  DEF ImportAssumption, Commit, Abstract!Next, Abstract!Replace, message, Before, After, Complete,
      TypeInv, CommittedInv, SeenInv, Settling, Preparing, Streaming, Failing
<1>3. CASE Reply
  BY <1>3, ImportAssumption
  DEF ImportAssumption, Reply, Abstract!Next, Abstract!Succeed, Abstract!Refuse, message, Before,
      After, Complete, TypeInv, CommittedInv, Settling, Preparing, Streaming, Failing
<1>4. ASSUME UNCHANGED <<isNew, oldRows, newRows, oldFile, answer>>
      PROVE  UNCHANGED <<message, answer>>
  BY <1>4 DEF message, Before, After
<1>5. ASSUME DeleteOld \/ Create \/ FifoRead
      PROVE  UNCHANGED <<isNew, oldRows, newRows, oldFile, answer>>
  BY <1>5 DEF DeleteOld, Create, FifoRead, See, TaskDone, Base, LeftInv, Reading, CommittedInv,
      Streaming
<1>6. ASSUME \/ Begin \/ MTOMWriteOpen \/ FifoWrite \/ MTOMWriteClose \/ JoinTask
             \/ Finish \/ UndoFiles \/ Rollback \/ CloseLeftStream \/ SessionDone
             \/ PoolDeleted
      PROVE  UNCHANGED <<isNew, oldRows, newRows, oldFile, answer>>
  BY <1>6 DEF Begin, MTOMWriteOpen, FifoWrite, MTOMWriteClose, JoinTask, Finish,
      UndoFiles, Rollback, CloseLeftStream, SessionDone, PoolDeleted
<1>7. ASSUME \/ ClientStep \/ StartTask \/ StartRead \/ EndTask \/ EndThread
             \/ Failure \/ UNCHANGED vars
      PROVE  UNCHANGED <<isNew, oldRows, newRows, oldFile, answer>>
  BY <1>7 DEF ClientStep, MTOMWrite, EndOfStream, StartTask, StartRead, EndTask,
      EndThread, TaskDone, Failure, Fail, FifoWriteTimeout, FailTask, Crash, vars
<1> QED
  BY <1>1, <1>2, <1>3, <1>4, <1>5, <1>6, <1>7
  DEF Next, RequestStep, TaskStep, Abstract!Next, Abstract!vars

\* An import implements AtomicImport: the message is replaced as a whole or not
\* at all, whichever thread or commit fails and wherever the process ends, and
\* the client is told "ok" exactly when it was.
THEOREM ImportIsAtomic ==
  ASSUME ~ StreamLeftOpen
  PROVE  Spec => Implements
<1>1. Init => Abstract!Init
  <2> SUFFICES ASSUME Init PROVE message = "old" /\ answer = None
    BY DEF Abstract!Init
  <2>1. newRows = 0 /\ answer = None
    BY DEF Init
  <2>2. ~ After
    BY <2>1, ImportAssumption DEF ImportAssumption, After, Complete
  <2>3. Before /\ (oldFile \/ isNew)
    BY <2>1, OldAtInit DEF Before
  <2> QED
    BY <2>1, <2>2, <2>3 DEF message
<1>2. IInv /\ Base /\ [Next]_vars => [Abstract!Next]_(Abstract!vars)
  BY StepRefines DEF Abstract!vars
<1> QED
  BY <1>1, <1>2, Invariance, PTL DEF Spec, Implements, Abstract!Spec
================================================================================
