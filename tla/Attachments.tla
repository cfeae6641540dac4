------------------------------ MODULE Attachments ------------------------------
(* Attachments kept as files (provider/libserver/ECAttachmentStorage.cpp,      *)
(* class ECFileAttachment). A row of the table singleinstances says which      *)
(* instance, that is which file, holds the data of an object; several objects  *)
(* may share an instance, and the file goes with the last row. The rows change *)
(* in a database transaction. Files cannot, so a request remembers the files   *)
(* it made, those to delete and those it renamed aside, and settles them just  *)
(* before the database commits or rolls back.                                  *)
(*                                                                             *)
(* The database is MySQL with InnoDB at its default isolation: a plain SELECT  *)
(* reads a snapshot taken at the first one of the transaction; a statement     *)
(* that writes, and INSERT ... SELECT, read what is committed and lock it until*)
(* the transaction ends. The lock on an object stands for the row locks on its *)
(* properties and on its row in singleinstances, which every operation takes   *)
(* before it looks for orphans. Between taking that lock and the end of the    *)
(* operation a request touches only locked rows, its snapshot and files nobody *)
(* else knows of, so that each operation of the storage is one action.         *)
EXTENDS Integers, FiniteSets

CONSTANTS
    Requests,       \* the threads that serve requests
    Objects,        \* objects that can have attachment data
    Folders,        \* folders that hold them
    Folder,         \* Folder[o]: the folder whose counters a save of o locks
    MaxInstance,    \* bound on the instance ids that are given out
    MaxOps,         \* bound on the operations in one transaction
    MaxTransactions,\* bound on the transactions
    Faults,         \* the faults that may happen
    None

ASSUME AttachmentsAssumption ==
    /\ MaxInstance \in Nat \ {0}
    /\ MaxOps \in Nat \ {0} /\ MaxTransactions \in Nat
    /\ Folder \in [Objects -> Folders]
    /\ Faults \subseteq {"crash", "disk", "database", "unlink"}

Instances == 1 .. MaxInstance
NoRow == 0

VARIABLES
    rows,       \* committed singleinstances: object -> instance or NoRow
    files,      \* instance -> the file of that name: none, part or whole
    marked,     \* the same for the name with .deleted
    next,       \* the next instance id
    known,      \* instances that clients have seen the id of
    req,        \* per request: its transaction and where it is
    left,       \* transactions that may still begin
    spoiled     \* history: <<instance, reason>>

vars == <<rows, files, marked, next, known, req, left, spoiled>>

(* Why an instance may have been lost or left behind:                          *)
(*   crash     the process ended in the middle of a transaction on it          *)
(*   commit    its file was settled, then the transaction failed               *)
(*   stale     a request looked for its last row by an outdated snapshot, or   *)
(*             while another transaction was changing a row of it              *)
(*   linked    a request made a row for it from its id alone, while a request  *)
(*             was removing its last row                                       *)
Reasons == {"crash", "commit", "stale", "linked"}

Idle == [pc |-> "idle", kind |-> None, folder |-> None, ops |-> 0,
         seen |-> FALSE, view |-> [o \in Objects |-> NoRow],
         wrote |-> [o \in {} |-> NoRow], shared |-> {},
         new |-> {}, deleted |-> {}, mark |-> {}, failed |-> {},
         obj |-> None, inst |-> NoRow, unknown |-> {}]

TypeOK ==
    /\ rows \in [Objects -> Instances \cup {NoRow}]
    /\ files \in [Instances -> {"none", "part", "whole"}]
    /\ marked \in [Instances -> {"none", "part", "whole"}]
    /\ next \in 1 .. MaxInstance + 1
    /\ known \subseteq 1 .. next - 1
    /\ left \in 0 .. MaxTransactions
    /\ spoiled \subseteq Instances \X Reasons
    /\ \A r \in Requests :
        LET q == req[r] IN
        /\ q.pc \in {"idle", "ops", "linking", "marked", "database", "undo",
                     "restore", "rollback"}
        /\ q.kind \in {"save", "copy", "delete", None}
        /\ q.ops \in 0 .. MaxOps
        /\ q.view \in [Objects -> Instances \cup {NoRow}]
        /\ DOMAIN q.wrote \cup q.shared \cup q.unknown \subseteq Objects
        /\ \A o \in DOMAIN q.wrote : q.wrote[o] \in 0 .. next - 1
        /\ q.new \cup q.deleted \cup q.mark \cup q.failed \subseteq 1 .. next - 1
        /\ q.pc = "idle" => q = Idle

\* before the first request: objects without data and objects that share data
Init ==
    /\ rows \in [Objects -> {NoRow, 1}]
    /\ files = [i \in Instances |-> IF \E o \in Objects : rows[o] = i
                                    THEN "whole" ELSE "none"]
    /\ marked = [i \in Instances |-> "none"]
    /\ next = 2
    /\ known = {1}
    /\ req = [r \in Requests |-> Idle]
    /\ left = MaxTransactions
    /\ spoiled = {}
--------------------------------------------------------------------------------
Running == {r \in Requests : req[r].pc # "idle"}
Others(r) == Running \ {r}

\* what a plain SELECT of r sees: its own writes over its snapshot, which it
\* takes now unless it has one
Snapshot(r) == IF req[r].seen THEN req[r].view ELSE rows
Over(base, wrote) == [o \in Objects |-> IF o \in DOMAIN wrote THEN wrote[o] ELSE base[o]]
RefersTo(f, i) == \E o \in Objects : f[o] = i
Put(wrote, S, i) == [o \in DOMAIN wrote \cup S |-> IF o \in S THEN i ELSE wrote[o]]

\* r gets the locks on the objects of S, for writing
CanLock(r, S) ==
    \A q \in Others(r) : S \cap (DOMAIN req[q].wrote \cup req[q].shared) = {}

Set(r, rec) == req' = [req EXCEPT ![r] = rec]

\* IsOrphanedSingleInstance, GetOrphanedSingleInstances: of the instances in I,
\* those without a row, seen after r wrote what it wrote
Orphans(r, wrote, I) == {i \in I : ~ RefersTo(Over(Snapshot(r), wrote), i)}

\* the reasons to doubt the answer about i: rows that r does not see, or that
\* others are changing; and a request that has checked the file of i already
Doubts(r, wrote, I, gone) ==
    {<<i, "stale">> : i \in {i \in I :
        \/ \E o \in Objects : (Over(Snapshot(r), wrote)[o] = i) # (Over(rows, wrote)[o] = i)
        \/ \E q \in Others(r) : \E o \in DOMAIN req[q].wrote :
               i \in {req[q].wrote[o], rows[o]}}}
    \cup {<<i, "linked">> : i \in {i \in gone :
              \E q \in Others(r) : req[q].pc = "linking" /\ req[q].inst = i}}
--------------------------------------------------------------------------------
(* A request begins its transaction: it saves messages of one folder, whose    *)
(* counters it locks first, copies messages, or deletes messages.              *)
Begin(r, kind, f) ==
    /\ req[r].pc = "idle"
    /\ left > 0 /\ left' = left - 1
    /\ kind = "save" => \A q \in Others(r) : req[q].folder # f
    /\ kind # "save" => f = None
    /\ Set(r, [Idle EXCEPT !.pc = "ops", !.kind = kind, !.folder = f])
    /\ UNCHANGED <<rows, files, marked, next, known, spoiled>>

\* one of the many SELECTs of a save that come before its attachments
TakeSnapshot(r) ==
    /\ req[r].pc = "ops" /\ req[r].kind = "save" /\ ~ req[r].seen
    /\ Set(r, [req[r] EXCEPT !.seen = TRUE, !.view = rows])
    /\ UNCHANGED <<rows, files, marked, next, known, spoiled, left>>

\* r may do one more operation, on objects that it has not changed yet; a save
\* names objects by ids that it had when it began
MayDo(r, kinds, S) ==
    /\ req[r].pc = "ops" /\ req[r].kind \in kinds
    /\ req[r].ops < IF req[r].kind = "delete" THEN 1 ELSE MaxOps
    /\ S \cap DOMAIN req[r].wrote = {} /\ CanLock(r, S)
    /\ req[r].kind = "save" => /\ \A o \in S : Folder[o] = req[r].folder
                               /\ S \cap req[r].unknown = {}

\* DeleteAttachment(ulObjId, ulPropId, true) inside a transaction: the row goes,
\* and the file is renamed aside when that was the last row
Replaced(r, o) ==
    LET old  == Over(Snapshot(r), req[r].wrote)[o]
        gone == IF old = NoRow THEN {}
                ELSE Orphans(r, Put(req[r].wrote, {o}, NoRow), {old})
    IN  [old |-> {old} \ {NoRow}, gone |-> gone,
         aside |-> {i \in gone : files[i] # "none"}]
MarkAside(aside) ==
    /\ files' = [i \in Instances |-> IF i \in aside THEN "none" ELSE files[i]]
    /\ marked' = [i \in Instances |-> IF i \in aside THEN files[i] ELSE marked[i]]

\* mutant: the id comes from a counter that was not moved on
SaveUnderOldId(r, o, written) ==
    LET repl == Replaced(r, o) IN
    /\ MayDo(r, {"save"}, {o})
    /\ written = "whole" /\ MarkAside(repl.aside)
    /\ Set(r, [req[r] EXCEPT !.ops = @ + 1, !.wrote = Put(@, {o}, next)])
    /\ UNCHANGED <<rows, next, known, spoiled, left>>

\* mutant: a file cut short by a full disk is not remembered as new
SaveForgetsPart(r, o, written) ==
    LET repl == Replaced(r, o) IN
    /\ MayDo(r, {"save"}, {o})
    /\ next \in Instances
    /\ written # "whole" => "disk" \in Faults
    /\ next' = next + 1
    /\ files' = [i \in Instances |-> IF i \in repl.aside THEN "none"
                                     ELSE IF i = next THEN written ELSE files[i]]
    /\ marked' = [i \in Instances |-> IF i \in repl.aside THEN files[i] ELSE marked[i]]
    /\ Set(r, [req[r] EXCEPT !.pc = IF written = "whole" THEN "ops" ELSE "undo",
                             !.ops = @ + 1, !.seen = TRUE, !.view = Snapshot(r),
                             !.wrote = Put(@, {o}, next),
                             !.new = IF written = "whole" THEN @ \cup {next} ELSE @,
                             !.mark = @ \cup repl.aside])
    /\ spoiled' = spoiled \cup Doubts(r, Put(req[r].wrote, {o}, NoRow), repl.old, repl.gone)
    /\ UNCHANGED <<rows, known, left>>

(* SaveAttachment from data or from a stream: the old data goes, a row with a  *)
(* new instance id is inserted, and the file is written; the disk may be full. *)
SaveAttachment(r, o, written) ==
    LET repl == Replaced(r, o) IN
    /\ MayDo(r, {"save"}, {o})
    /\ next \in Instances
    /\ written # "whole" => "disk" \in Faults
    /\ next' = next + 1
    /\ files' = [i \in Instances |-> IF i \in repl.aside THEN "none"
                                     ELSE IF i = next THEN written ELSE files[i]]
    /\ marked' = [i \in Instances |-> IF i \in repl.aside THEN files[i] ELSE marked[i]]
    /\ Set(r, [req[r] EXCEPT !.pc = IF written = "whole" THEN "ops" ELSE "undo",
                             !.ops = @ + 1, !.seen = TRUE, !.view = Snapshot(r),
                             !.wrote = Put(@, {o}, next),
                             !.new = IF written = "none" THEN @ ELSE @ \cup {next},
                             !.mark = @ \cup repl.aside])
    /\ spoiled' = spoiled \cup Doubts(r, Put(req[r].wrote, {o}, NoRow), repl.old, repl.gone)
    /\ UNCHANGED <<rows, known, left>>

(* WriteProps with an instance id from the client: the file must exist, and    *)
(* the user must see a row of it or be an administrator.                       *)
ExistAttachmentInstance(r, o, i, admin) ==
    /\ MayDo(r, {"save"}, {o})
    /\ i \in known
    /\ IF files[i] # "none" /\ (admin \/ RefersTo(Over(Snapshot(r), req[r].wrote), i))
       THEN /\ Set(r, [req[r] EXCEPT !.pc = "linking", !.obj = o, !.inst = i,
                                     !.seen = TRUE, !.view = Snapshot(r)])
            /\ spoiled' = spoiled \cup {<<j, "linked">> : j \in {i} \cap
                                        UNION {req[q].deleted : q \in Requests}}
       ELSE Set(r, [req[r] EXCEPT !.pc = "undo"]) /\ UNCHANGED spoiled
    /\ UNCHANGED <<rows, files, marked, next, known, left>>

(* SaveAttachment with an instance id: nothing to do when the object has that  *)
(* instance; otherwise the old data goes and, if the file still exists, the    *)
(* row is written.                                                             *)
SaveInstance(r) ==
    LET o == req[r].obj
        i == req[r].inst
        repl == Replaced(r, o)
        done == [req[r] EXCEPT !.pc = "ops", !.ops = @ + 1, !.obj = None, !.inst = NoRow]
    IN
    /\ req[r].pc = "linking" /\ CanLock(r, {o})
    /\ IF i \in repl.old
       THEN Set(r, done) /\ UNCHANGED <<files, marked, spoiled>>
       ELSE /\ MarkAside(repl.aside)
            /\ spoiled' = spoiled \cup
                   Doubts(r, Put(req[r].wrote, {o}, NoRow), repl.old, repl.gone)
            /\ IF files[i] # "none"
               THEN Set(r, [done EXCEPT !.wrote = Put(@, {o}, i),
                                        !.mark = @ \cup repl.aside])
               ELSE Set(r, [done EXCEPT !.pc = "undo", !.wrote = Put(@, {o}, NoRow),
                                        !.mark = @ \cup repl.aside])
    /\ UNCHANGED <<rows, next, known, left>>

(* CopyAttachment: the object to gets the instance of the object o, by INSERT  *)
(* ... SELECT. The object to is created for the copy, in its transaction:      *)
(* nobody else knows its id yet (ZarafaCmd.cpp:8191).                          *)
CopyAttachment(r, o, to) ==
    /\ MayDo(r, {"copy"}, {to})
    /\ rows[to] = NoRow /\ o # to
    /\ \A q \in Others(r) : o \notin DOMAIN req[q].wrote /\ req[q].obj # to
    /\ Set(r, [req[r] EXCEPT !.ops = @ + 1, !.shared = @ \cup {o},
                             !.wrote = Put(@, {to}, Over(rows, @)[o])])
    /\ UNCHANGED <<rows, files, marked, next, known, spoiled, left>>

(* DeleteAttachments: the rows of the objects go; the files whose last row     *)
(* that was are deleted when the transaction is committed.                     *)
DeleteAttachments(r, S) ==
    LET sees  == Over(Snapshot(r), req[r].wrote)
        ids   == {sees[o] : o \in S} \ {NoRow}
        wrote == IF ids = {} THEN Put(req[r].wrote, {}, NoRow)
                 ELSE Put(req[r].wrote, S, NoRow)
        gone  == Orphans(r, wrote, ids)
    IN
    /\ MayDo(r, {"save", "delete"}, S)
    /\ Set(r, [req[r] EXCEPT !.ops = @ + 1, !.seen = TRUE, !.view = Snapshot(r),
                             !.wrote = wrote, !.deleted = @ \cup gone])
    /\ spoiled' = spoiled \cup Doubts(r, wrote, ids, gone)
    /\ UNCHANGED <<rows, files, marked, next, known, left>>

(* The request fails, for a reason of its own, a database error, or a lock     *)
(* that it waits for too long.                                                 *)
Fail(r) ==
    /\ req[r].pc \in {"ops", "linking"}
    /\ Set(r, [req[r] EXCEPT !.pc = "undo"])
    /\ UNCHANGED <<rows, files, marked, next, known, spoiled, left>>
--------------------------------------------------------------------------------
Settled(r) == req[r].new \cup req[r].deleted \cup req[r].mark

(* ECFileAttachment::Commit, its first loop: the files to delete are unlinked; *)
(* some unlink may fail.                                                       *)
Commit(r, failed) ==
    /\ req[r].pc = "ops"
    /\ failed \subseteq req[r].deleted
    /\ failed # {} => "unlink" \in Faults
    /\ files' = [i \in Instances |-> IF i \in req[r].deleted \ failed
                                     THEN "none" ELSE files[i]]
    /\ Set(r, [req[r] EXCEPT !.pc = "marked", !.failed = failed])
    /\ UNCHANGED <<rows, marked, next, known, spoiled, left>>

\* its second loop: the files renamed aside are unlinked
DeleteMarkedAttachments(r) ==
    /\ req[r].pc = "marked"
    /\ marked' = [i \in Instances |-> IF i \in req[r].mark THEN "none" ELSE marked[i]]
    /\ IF req[r].failed = {}
       THEN Set(r, [req[r] EXCEPT !.pc = "database"]) /\ UNCHANGED spoiled
       ELSE /\ Set(r, [req[r] EXCEPT !.pc = "rollback"])
            /\ spoiled' = spoiled \cup {<<i, "commit">> : i \in Settled(r)}
    /\ UNCHANGED <<rows, files, next, known, left>>

(* The database commits, or does not: then the storage is asked to roll back   *)
(* too, but its transaction is over already. The ids of objects that a copy    *)
(* made are not known to requests that began before.                           *)
DatabaseCommit(r) ==
    /\ req[r].pc = "database"
    /\ rows' = Over(rows, req[r].wrote)
    /\ known' = known \cup ({req[r].wrote[o] : o \in DOMAIN req[r].wrote} \ {NoRow})
    /\ req' = [q \in Requests |->
          IF q = r THEN Idle
          ELSE IF req[r].kind = "copy" /\ q \in Running
               THEN [req[q] EXCEPT !.unknown = @ \cup DOMAIN req[r].wrote]
               ELSE req[q]]
    /\ UNCHANGED <<files, marked, next, spoiled, left>>

DatabaseCommitFails(r) ==
    /\ req[r].pc = "database" /\ "database" \in Faults
    /\ Set(r, [req[r] EXCEPT !.pc = "rollback"])
    /\ spoiled' = spoiled \cup {<<i, "commit">> : i \in Settled(r)}
    /\ UNCHANGED <<rows, files, marked, next, known, left>>

(* ECFileAttachment::Rollback: the new files are unlinked, then those renamed  *)
(* aside get their names back.                                                 *)
Rollback(r) ==
    /\ req[r].pc = "undo"
    /\ files' = [i \in Instances |-> IF i \in req[r].new THEN "none" ELSE files[i]]
    /\ Set(r, [req[r] EXCEPT !.pc = "restore", !.deleted = {}])
    /\ UNCHANGED <<rows, marked, next, known, spoiled, left>>

\* mutant: files that were renamed aside stay aside
RestoreNothing(r) ==
    /\ req[r].pc = "restore"
    /\ Set(r, [req[r] EXCEPT !.pc = "rollback"])
    /\ UNCHANGED <<rows, files, marked, next, known, spoiled, left>>

RestoreMarkedAttachments(r) ==
    LET back == {i \in req[r].mark : marked[i] # "none"} IN
    /\ req[r].pc = "restore"
    /\ files' = [i \in Instances |-> IF i \in back THEN marked[i] ELSE files[i]]
    /\ marked' = [i \in Instances |-> IF i \in back THEN "none" ELSE marked[i]]
    /\ Set(r, [req[r] EXCEPT !.pc = "rollback"])
    /\ UNCHANGED <<rows, next, known, spoiled, left>>

DatabaseRollback(r) ==
    /\ req[r].pc = "rollback"
    /\ Set(r, Idle)
    /\ UNCHANGED <<rows, files, marked, next, known, spoiled, left>>

(* The process ends. The database rolls its transactions back; the files stay. *)
Crash ==
    /\ "crash" \in Faults /\ Running # {}
    /\ req' = [r \in Requests |-> Idle]
    /\ spoiled' = spoiled \cup {<<i, "crash">> : i \in UNION {Settled(r) : r \in Running}}
    /\ UNCHANGED <<rows, files, marked, next, known, left>>

Next ==
    \/ \E r \in Requests :
        \/ \E kind \in {"save", "copy", "delete"}, f \in Folders \cup {None} :
               Begin(r, kind, f)
        \/ TakeSnapshot(r)
        \/ \E o \in Objects :
            \/ \E written \in {"none", "part", "whole"} : SaveAttachment(r, o, written)
            \/ \E i \in Instances, admin \in BOOLEAN : ExistAttachmentInstance(r, o, i, admin)
            \/ \E to \in Objects : CopyAttachment(r, o, to)
        \/ SaveInstance(r)
        \/ \E S \in SUBSET Objects \ {{}} : DeleteAttachments(r, S)
        \/ Fail(r)
        \/ \E failed \in SUBSET Instances : Commit(r, failed)
        \/ DeleteMarkedAttachments(r)
        \/ DatabaseCommit(r) \/ DatabaseCommitFails(r)
        \/ Rollback(r) \/ RestoreMarkedAttachments(r) \/ DatabaseRollback(r)
    \/ Crash

Spec == Init /\ [][Next]_vars
--------------------------------------------------------------------------------
Spoiled == {s[1] : s \in spoiled}

(* The data of a committed row can be read, or comes back when the transaction *)
(* that renamed it aside fails: it is missing only in the moment between the   *)
(* last unlink and the commit of the transaction that removes the row, and for *)
(* the reasons above (ECAttachmentStorage.cpp:1690, 1792, 1933).               *)
ReferencesHaveData ==
    \A o \in Objects :
        LET i == rows[o] IN
        i # NoRow /\ i \notin Spoiled =>
            \/ files[i] = "whole"
            \/ \E r \in Requests : i \in req[r].mark /\ marked[i] = "whole"
            \/ \E r \in Requests : /\ o \in DOMAIN req[r].wrote /\ req[r].wrote[o] # i
                                  /\ req[r].pc \in {"marked", "database"}
                                  /\ i \in req[r].deleted \cup req[r].mark

(* Nothing is left behind: a file has a committed row, or a request that is    *)
(* still running will delete it, rename it or commit a row for it; and only    *)
(* a running request has files renamed aside (ECAttachmentStorage.cpp:1973).   *)
NothingLeftBehind ==
    \A i \in Instances \ Spoiled :
        /\ files[i] # "none" => \/ \E o \in Objects : rows[o] = i
                                \/ \E r \in Requests : i \in req[r].new
        /\ marked[i] # "none" => \E r \in Requests : i \in req[r].mark
================================================================================
