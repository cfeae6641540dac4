----------------------------- MODULE MessageImport -----------------------------
(* importMessageFromStream (provider/libserver/ZarafaCmd.cpp) with what it is  *)
(* made of: the FIFO buffer between two threads (common/ECFifoBuffer.cpp), a   *)
(* pool of one thread (common/ECThreadPool.cpp), a database transaction that   *)
(* both threads write in, and the attachment files of the message.             *)
(*                                                                             *)
(* The request thread deletes the message, creates it again and lets gSOAP     *)
(* feed the attached stream to the buffer (MTOMWrite...); a task in the pool   *)
(* reads it and writes the properties. gSOAP is not part of the repository: it *)
(* calls the three functions it is given, and when the client goes away or a   *)
(* function fails it may close the stream or leave it open, which the comment  *)
(* in MTOMSessionDone says it may.                                             *)
(*                                                                             *)
(* The stream is a number of units of data, each of which becomes a row; the   *)
(* last is the data of an attachment. A step is what a thread does with the    *)
(* mutex of the buffer held, or between two such sections.                     *)
EXTENDS Integers

CONSTANTS
    Units,          \* length of the stream
    Capacity,       \* size of the buffer (m_ulMaxSize)
    MaxChunk,       \* the most that one Write or Read asks for
    StreamLeftOpen, \* whether gSOAP may leave a stream open
    None

ASSUME ImportAssumption ==
    /\ Units \in Nat \ {0} /\ Capacity \in Nat \ {0} /\ MaxChunk \in Nat \ {0}
    /\ StreamLeftOpen \in BOOLEAN
    /\ None \notin {"ok", "error"}

VARIABLES
    pc,         \* the request thread
    er,         \* whether it has met an error
    isNew,      \* bIsNew: there is no message to replace
    fed,        \* units that gSOAP has passed to MTOMWrite
    wleft,      \* units that the Write in progress still has to store
    stream,     \* lpCurrentWriteStream is set
    answer,     \* what the client was told
    \* ECFifoBuffer
    stored, wclosed, rclosed,
    wwaits,     \* the writer waits for m_hCondNotFull
    rwaits,     \* the reader waits for m_hCondNotEmpty
    \* the task and the pool
    task,       \* none, queued, running, reading, done
    got,        \* units that the task has read
    rleft,      \* units that the Read in progress still has to return
    size,       \* units it was asked for
    result,     \* how the task ended: None, ok or error
    pool,       \* up, ending or down
    \* the database: whether the connection is in a transaction, and the rows of
    \* the old and of the new message, committed and as the connection sees them
    inTransaction, oldRows, newRows, oldSeen, newSeen,
    \* ECFileAttachment of this request
    filesOpen,  \* m_bTransaction
    toDelete,   \* the old file is in m_setDeletedAttachment
    oldFile, newFile

request  == <<pc, er, isNew, fed, wleft, stream, answer>>
fifo     == <<stored, wclosed, rclosed, wwaits, rwaits>>
worker   == <<task, got, rleft, size, result, pool>>
database == <<inTransaction, oldRows, newRows, oldSeen, newSeen>>
storage  == <<filesOpen, toDelete, oldFile, newFile>>
vars == <<request, fifo, worker, database, storage>>

\* rows of a complete message: one in the hierarchy and one for each unit
Complete == Units + 1
AtMost(m, n) == IF m < n THEN m ELSE n
UpTo(n) == 1 .. AtMost(MaxChunk, n)

TypeOK ==
    /\ pc \in {"begin", "delete", "create", "open", "feed", "write", "close",
               "join", "finish", "files", "commit", "undo", "rollback", "reply",
               "cleanup", "await", "end", "gone", "crashed"}
    /\ {er, isNew, stream, wclosed, rclosed, wwaits, rwaits, inTransaction,
        oldRows, oldSeen, filesOpen, toDelete, oldFile, newFile} \subseteq BOOLEAN
    /\ answer \in {None, "ok", "error"} /\ result \in {None, "ok", "error"}
    /\ fed \in 0 .. Units /\ got \in 0 .. Units
    /\ wleft \in 0 .. Units /\ rleft \in 0 .. Units /\ size \in 0 .. Units
    /\ stored \in 0 .. Capacity
    /\ task \in {"none", "queued", "running", "reading", "done"}
    /\ pool \in {"up", "ending", "down"}
    /\ newRows \in 0 .. Complete /\ newSeen \in 0 .. Complete

Init ==
    /\ pc = "begin" /\ er = FALSE /\ isNew \in BOOLEAN /\ fed = 0 /\ wleft = 0
    /\ stream = FALSE /\ answer = None
    /\ stored = 0 /\ wclosed = FALSE /\ rclosed = FALSE
    /\ wwaits = FALSE /\ rwaits = FALSE
    /\ task = "none" /\ got = 0 /\ rleft = 0 /\ size = 0 /\ result = None /\ pool = "up"
    /\ inTransaction = FALSE /\ oldRows = ~ isNew /\ newRows = 0
    /\ oldSeen = oldRows /\ newSeen = 0
    /\ filesOpen = FALSE /\ toDelete = FALSE
    /\ oldFile = ~ isNew /\ newFile = FALSE

\* the connection now sees these rows: outside a transaction they are committed
See(old, new) ==
    /\ oldSeen' = old /\ newSeen' = new
    /\ IF inTransaction THEN UNCHANGED <<oldRows, newRows>>
                        ELSE oldRows' = old /\ newRows' = new
    /\ UNCHANGED inTransaction
--------------------------------------------------------------------------------
(* The request thread: importMessageFromStream.                                *)

Begin ==
    /\ pc = "begin" /\ pc' = IF isNew THEN "create" ELSE "delete"
    /\ filesOpen' = TRUE /\ toDelete' = FALSE
    /\ inTransaction' = TRUE
    /\ UNCHANGED <<er, isNew, fed, wleft, stream, answer, fifo, worker,
                   oldRows, newRows, oldSeen, newSeen, oldFile, newFile>>

\* DeleteObjectHard: the file is only noted for deletion
DeleteOld ==
    /\ pc = "delete" /\ pc' = "create"
    /\ See(FALSE, newSeen)
    /\ toDelete' = oldFile
    /\ UNCHANGED <<er, isNew, fed, wleft, stream, answer, fifo, worker,
                   filesOpen, oldFile, newFile>>

\* CreateObject, or the entry in the hierarchy again; CheckQuota
Create ==
    /\ pc = "create" /\ pc' = "open"
    /\ See(oldSeen, 1)
    /\ UNCHANGED <<er, isNew, fed, wleft, stream, answer, fifo, worker, storage>>

\* MTOMWriteOpen: a buffer, and a task that reads from it
MTOMWriteOpen ==
    /\ pc = "open" /\ pc' = "feed"
    /\ stream' = TRUE
    /\ task' = "queued"
    /\ UNCHANGED <<er, isNew, fed, wleft, answer, fifo, got, rleft, size, result, pool,
                   database, storage>>

\* after an error gSOAP may return without a call of MTOMWriteClose
AfterStream(error) == {"close"} \cup (IF error /\ StreamLeftOpen THEN {"undo"} ELSE {})

\* the client has sent more data, and gSOAP calls MTOMWrite
MTOMWrite ==
    /\ pc = "feed" /\ fed < Units
    /\ \E n \in UpTo(Units - fed) : wleft' = n /\ fed' = fed + n
    /\ pc' = "write"
    /\ UNCHANGED <<er, isNew, stream, answer, fifo, worker, database, storage>>

\* MUTANT of FifoWrite: it does not signal that there is data
WriteSilently ==
    LET n == AtMost(wleft, Capacity - stored) IN
    /\ pc = "write" /\ ~ wwaits
    /\ stored' = stored + n /\ wleft' = wleft - n
    /\ IF wleft = n THEN pc' = "feed" /\ UNCHANGED <<er, wwaits>>
       ELSE IF rclosed THEN pc' \in AfterStream(TRUE) /\ er' = TRUE /\ UNCHANGED wwaits
       ELSE wwaits' = TRUE /\ UNCHANGED <<pc, er>>
    /\ UNCHANGED <<isNew, fed, stream, answer, wclosed, rclosed, rwaits, worker,
                   database, storage>>

\* MUTANT of FifoWrite: the size of the buffer is not regarded
WriteAll ==
    /\ pc = "write" /\ ~ wwaits
    /\ stored' = stored + wleft /\ wleft' = 0
    /\ rwaits' = FALSE
    /\ pc' = "feed"
    /\ UNCHANGED <<er, isNew, fed, stream, answer, wclosed, rclosed, wwaits, worker,
                   database, storage>>

\* ECFifoBuffer::Write with the mutex: all that fits is stored; when there is
\* more, it fails if the reader is gone and waits otherwise
FifoWrite ==
    LET n == AtMost(wleft, Capacity - stored) IN
    /\ pc = "write" /\ ~ wwaits
    /\ stored' = stored + n /\ wleft' = wleft - n
    /\ rwaits' = IF n > 0 THEN FALSE ELSE rwaits
    /\ IF wleft = n THEN pc' = "feed" /\ UNCHANGED <<er, wwaits>>
       ELSE IF rclosed THEN pc' \in AfterStream(TRUE) /\ er' = TRUE /\ UNCHANGED wwaits
       ELSE wwaits' = TRUE /\ UNCHANGED <<pc, er>>
    /\ UNCHANGED <<isNew, fed, stream, answer, wclosed, rclosed, worker, database, storage>>

FifoWriteTimeout ==
    /\ pc = "write" /\ wwaits
    /\ pc' \in AfterStream(TRUE) /\ er' = TRUE /\ wwaits' = FALSE
    /\ UNCHANGED <<isNew, fed, wleft, stream, answer, stored, wclosed, rclosed, rwaits,
                   worker, database, storage>>

\* the stream is complete, or the client goes away
EndOfStream ==
    /\ pc = "feed"
    /\ er' = (fed < Units) /\ pc' \in AfterStream(er')
    /\ UNCHANGED <<isNew, fed, wleft, stream, answer, fifo, worker, database, storage>>

MTOMWriteClose ==
    /\ pc = "close" /\ pc' = "join"
    /\ stream' = FALSE
    /\ wclosed' = TRUE /\ rwaits' = FALSE
    /\ UNCHANGED <<er, isNew, fed, wleft, answer, stored, rclosed, wwaits, worker,
                   database, storage>>

\* MUTANT of JoinTask: the result of the task is not looked at
JoinWithoutResult ==
    /\ pc = "join" /\ task = "done"
    /\ pc' = IF er THEN "undo" ELSE "finish"
    /\ UNCHANGED <<er, isNew, fed, wleft, stream, answer, fifo, worker, database, storage>>

\* MUTANT of JoinTask: the task is not waited for after an error
JoinUnlessError ==
    /\ pc = "join" /\ (er \/ task = "done")
    /\ er' = (er \/ result = "error")
    /\ pc' = IF er' THEN "undo" ELSE "finish"
    /\ UNCHANGED <<isNew, fed, wleft, stream, answer, fifo, worker, database, storage>>

\* it waits for the task, and takes its result
JoinTask ==
    /\ pc = "join" /\ task = "done"
    /\ er' = (er \/ result = "error")
    /\ pc' = IF er' THEN "undo" ELSE "finish"
    /\ UNCHANGED <<isNew, fed, wleft, stream, answer, fifo, worker, database, storage>>

\* the change log, folder counters, submit flag and deferred updates
Finish ==
    /\ pc = "finish" /\ pc' = "files"
    /\ UNCHANGED <<er, isNew, fed, wleft, stream, answer, fifo, worker, database, storage>>

\* lpAttachmentStorage->Commit(): the old file is unlinked, or that fails
CommitFiles(works) ==
    /\ pc = "files"
    /\ filesOpen' = FALSE /\ toDelete' = FALSE
    /\ oldFile' = (oldFile /\ ~ (toDelete /\ works))
    /\ works = FALSE => toDelete
    /\ er' = ~ works
    /\ pc' = IF works THEN "commit" ELSE "undo"
    /\ UNCHANGED <<isNew, fed, wleft, stream, answer, fifo, worker, database, newFile>>

\* lpDatabase->Commit()
Commit ==
    /\ pc = "commit" /\ pc' = "reply"
    /\ oldRows' = oldSeen /\ newRows' = newSeen
    /\ inTransaction' = FALSE
    /\ UNCHANGED <<er, isNew, fed, wleft, stream, answer, fifo, worker,
                   oldSeen, newSeen, storage>>

\* any of the calls may fail: the database, the quota, a missing object
Fail ==
    /\ pc \in {"begin", "delete", "create", "open", "finish", "commit"}
    /\ er' = TRUE /\ pc' = "undo"
    /\ UNCHANGED <<isNew, fed, wleft, stream, answer, fifo, worker, database, storage>>

\* MUTANT of UndoFiles: the rollback of the files is forgotten
UndoNothing ==
    /\ pc = "undo" /\ pc' = "rollback"
    /\ UNCHANGED <<er, isNew, fed, wleft, stream, answer, fifo, worker, database, storage>>

\* lpAttachmentStorage->Rollback(), if its transaction is still open
UndoFiles ==
    /\ pc = "undo" /\ pc' = "rollback"
    /\ filesOpen' = FALSE /\ toDelete' = FALSE
    /\ newFile' = (newFile /\ ~ filesOpen)
    /\ UNCHANGED <<er, isNew, fed, wleft, stream, answer, fifo, worker, database, oldFile>>

\* ROLLBACK_ON_ERROR
Rollback ==
    /\ pc = "rollback" /\ pc' = "reply"
    /\ oldSeen' = oldRows /\ newSeen' = newRows
    /\ inTransaction' = FALSE
    /\ UNCHANGED <<er, isNew, fed, wleft, stream, answer, fifo, worker,
                   oldRows, newRows, storage>>

Reply ==
    /\ pc = "reply" /\ pc' = "cleanup"
    /\ answer' = IF er THEN "error" ELSE "ok"
    /\ UNCHANGED <<er, isNew, fed, wleft, stream, fifo, worker, database, storage>>

\* MTOMSessionDone, after the response: a stream that gSOAP left open is closed
\* and its task awaited, then the pool is deleted
CloseLeftStream ==
    /\ pc = "cleanup" /\ pc' = "await"
    /\ stream' = FALSE
    /\ wclosed' = (wclosed \/ stream) /\ rwaits' = (rwaits /\ ~ stream)
    /\ UNCHANGED <<er, isNew, fed, wleft, answer, stored, rclosed, wwaits, worker,
                   database, storage>>

SessionDone ==
    /\ pc = "await" /\ task \in {"none", "done"}
    /\ pc' = "end" /\ pool' = "ending"
    /\ UNCHANGED <<er, isNew, fed, wleft, stream, answer, fifo, task, got, rleft, size,
                   result, database, storage>>

PoolDeleted ==
    /\ pc = "end" /\ pool = "down" /\ pc' = "gone"
    /\ UNCHANGED <<er, isNew, fed, wleft, stream, answer, fifo, worker, database, storage>>
--------------------------------------------------------------------------------
(* The thread of the pool, which runs DeserializeObject.                       *)

\* MUTANT of TaskDone: the buffer is not closed for reading
TaskDoneOpen(res) ==
    /\ task' = "done" /\ result' = res
    /\ UNCHANGED <<rclosed, wwaits>>
    /\ rwaits' = FALSE

TaskDone(res) ==
    /\ task' = "done" /\ result' = res
    /\ rclosed' = TRUE /\ wwaits' = FALSE       \* ~ECFifoSerializer
    /\ rwaits' = FALSE

\* getNextTask: a request to end the thread comes before the tasks
StartTask ==
    /\ task = "queued" /\ pool = "up" /\ task' = "running"
    /\ UNCHANGED <<request, fifo, got, rleft, size, result, pool, database, storage>>

EndThread ==
    /\ pool = "ending" /\ task \notin {"running", "reading"} /\ pool' = "down"
    /\ UNCHANGED <<request, fifo, task, got, rleft, size, result, database, storage>>

\* ECFifoSerializer::Read of some units that the message must still have
StartRead ==
    /\ task = "running" /\ got < Units /\ task' = "reading"
    /\ \E n \in UpTo(Units - got) : rleft' = n /\ size' = n
    /\ UNCHANGED <<request, fifo, got, result, pool, database, storage>>

\* ECFifoBuffer::Read with the mutex: what is there is taken; when that is not
\* all, the end of the stream ends the read, which the serializer does not
\* accept, and else it waits
FifoRead ==
    LET n == AtMost(rleft, stored) IN
    /\ task = "reading" /\ ~ rwaits
    /\ stored' = stored - n /\ rleft' = rleft - n
    /\ IF rleft = n
       THEN /\ task' = "running" /\ got' = got + size
            /\ wwaits' = (wwaits /\ n = 0)
            /\ See(oldSeen, newSeen + size)
            /\ newFile' = (newFile \/ got + size = Units)
            /\ UNCHANGED <<rwaits, rclosed, result>>
       ELSE /\ IF wclosed THEN TaskDone("error")
               ELSE /\ rwaits' = TRUE /\ wwaits' = (wwaits /\ n = 0)
                    /\ UNCHANGED <<task, result, rclosed>>
            /\ UNCHANGED <<got, newFile, database>>
    /\ UNCHANGED <<request, wclosed, size, pool, filesOpen, toDelete, oldFile>>

\* the read times out, or the database or the disk fails
FailTask ==
    /\ \/ task = "reading" /\ rwaits
       \/ task = "running"
    /\ TaskDone("error")
    /\ UNCHANGED <<request, stored, wclosed, got, rleft, size, pool, database, storage>>

EndTask ==
    /\ task = "running" /\ got = Units
    /\ TaskDone("ok")
    /\ UNCHANGED <<request, stored, wclosed, got, rleft, size, pool, database, storage>>
--------------------------------------------------------------------------------
\* The process ends: the database rolls back, the files stay as they are.
Crash ==
    /\ pc \notin {"gone", "crashed"} /\ pc' = "crashed"
    /\ task' = "none" /\ pool' = "down"
    /\ wwaits' = FALSE /\ rwaits' = FALSE
    /\ oldSeen' = oldRows /\ newSeen' = newRows /\ inTransaction' = FALSE
    /\ UNCHANGED <<er, isNew, fed, wleft, stream, answer, stored, wclosed, rclosed,
                   got, rleft, size, result, oldRows, newRows, storage>>

RequestStep ==
    \/ Begin \/ DeleteOld \/ Create \/ MTOMWriteOpen
    \/ FifoWrite \/ MTOMWriteClose \/ JoinTask
    \/ Finish \/ (\E works \in BOOLEAN : CommitFiles(works)) \/ Commit
    \/ UndoFiles \/ Rollback \/ Reply
    \/ CloseLeftStream \/ SessionDone \/ PoolDeleted

ClientStep == MTOMWrite \/ EndOfStream

TaskStep == StartTask \/ StartRead \/ FifoRead \/ EndTask \/ EndThread

Failure == Fail \/ FifoWriteTimeout \/ FailTask \/ Crash

Next == RequestStep \/ ClientStep \/ TaskStep \/ Failure

Spec == Init /\ [][Next]_vars

\* Both threads run, and gSOAP comes to the end of the attachment: the client
\* sends it or the receive timeout of the socket ends it. Nothing needs to fail,
\* and no timeout of the buffer needs to expire.
FairSpec ==
    /\ Spec
    /\ WF_vars(RequestStep) /\ WF_vars(ClientStep) /\ WF_vars(TaskStep)
--------------------------------------------------------------------------------
(* Refinement: what another connection would find in the database.             *)
Before == newRows = 0 /\ oldRows # isNew
After  == newRows = Complete /\ ~ oldRows

message == IF After THEN "new"
           ELSE IF ~ Before THEN "partial"
           ELSE IF oldFile \/ isNew THEN "old" ELSE "damaged"

Abstract == INSTANCE AtomicImport WITH message <- message, answer <- answer

\* With streams that gSOAP closes, an import replaces the message as a whole or
\* not at all and tells the client which: although two threads write through one
\* connection, nothing of it is committed on its own and no reader ever finds
\* the message partly there.
Implements == Abstract!Spec
--------------------------------------------------------------------------------
\* A thread waits on the buffer only for what the other side still has to do:
\* the writer while it is full and has a reader, the reader while it is empty
\* and has a writer. A signal that is lost, or sent before the state changes,
\* would leave it waiting for the timeout.
NoLostWakeup ==
    /\ wwaits => stored = Capacity /\ ~ rclosed
    /\ rwaits => stored = 0 /\ ~ wclosed

\* The request thread is not waiting: for room in the buffer, for its task, or for
\* the thread of the pool. The end of the stream comes, at "feed", with the data or
\* with the receive timeout of the socket ...
RequestReady ==
    /\ pc \notin {"gone", "crashed"}
    /\ pc = "write" => ~ wwaits
    /\ pc = "join" => task = "done"
    /\ pc = "await" => task \in {"none", "done"}
    /\ pc = "end" => pool = "down"

\* ... nor the thread of the pool: for a task, for data, or for the end
TaskReady ==
    \/ task = "queued" /\ pool = "up"
    \/ task = "running"
    \/ task = "reading" /\ ~ rwaits
    \/ pool = "ending" /\ task \notin {"running", "reading"}

\* Before an import is over, one of its two threads can go on, though each waits
\* for the other at two places; no timeout of the buffer is needed for that.
NobodyHangs == pc \in {"gone", "crashed"} \/ RequestReady \/ TaskReady

\* The connection to the database is not safe for two threads: while the task
\* may use it, the request thread does not.
DatabaseUsedByOne ==
    task \in {"queued", "running", "reading"} =>
        pc \in {"feed", "write", "close", "join"}

\* When the request is over, the files are those of the rows: the new file and
\* not the old one when the message was replaced, the old one alone when the
\* data could not be read. (When one of the two commits fails it is not so.)
FilesMatchRows ==
    pc = "gone" =>
        /\ newRows = Complete => newFile /\ ~ oldFile
        /\ result = "error" => ~ newFile /\ oldFile # isNew

\* A client that is told "ok" has its message replaced as a whole, even if gSOAP
\* left the stream open and a task goes on writing rows after the answer.
OkMeansReplaced == answer = "ok" => message = "new"

\* Every import ends, and the thread and the session with it, whatever fails:
\* the writer does not wait for a task that is gone, nor the task for a client.
ImportEnds == <>(pc \in {"gone", "crashed"})
================================================================================
