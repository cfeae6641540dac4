-------------------------- MODULE AttachmentsProofs ---------------------------
(* Proofs about Attachments, for any sets of requests, objects, folders and    *)
(* faults and any number of instances: every variable has its type, the data   *)
(* of a committed row is there or comes back, and no file is left behind, but  *)
(* for the instances and the reasons that the history names.                   *)
EXTENDS Attachments, TLAPS

\* A request has these fields.
Fields == {"pc", "kind", "folder", "ops", "seen", "view", "wrote", "shared", "new",
           "deleted", "mark", "failed", "obj", "inst", "unknown"}
Shape == /\ req = [r \in Requests |-> req[r]]
         /\ \A r \in Requests : req[r] = [x \in Fields |-> req[r][x]]

\* A step leaves alone all fields of r but those in F, and the other requests.
Keeps(r, F) == \A x \in Fields \ F : req'[r][x] = req[r][x]
Alone(r) == \A q \in Requests : q # r => req'[q] = req[q]

\* A transaction that can still commit, and one that has its files to settle
Acting  == {"ops", "linking", "marked", "database"}
Holding == Acting \cup {"undo", "restore"}

W(r) == DOMAIN req[r].wrote
Gone(r) == req[r].deleted \cup req[r].mark
Sound == Instances \ Spoiled

\* r removes the row that o has of instance i.
Removes(r, o, i) == o \in W(r) /\ rows[o] = i /\ req[r].wrote[o] # i
--------------------------------------------------------------------------------
(* The parts of the inductive invariant.                                       *)

\* What a transaction does by its kind, and that an object keeps what a save has
\* seen of it unless it is deleted: a save has its folder locked, and the objects
\* of copies are unknown to it.
KindInv ==
    \A r \in Requests :
        /\ req[r].pc # "idle" => req[r].kind \in {"save", "copy", "delete"}
        /\ req[r].kind = "save" => \A o \in W(r) : Folder[o] = req[r].folder
        /\ req[r].kind = "delete" => /\ \A o \in W(r) : req[r].wrote[o] = NoRow
                                     /\ req[r].ops = 0 => ~ req[r].seen
        /\ req[r].kind = "copy" => Gone(r) = {} /\ req[r].new = {}
        /\ req[r].pc = "linking" => /\ req[r].kind = "save" /\ req[r].obj \in Objects
                                    /\ Folder[req[r].obj] = req[r].folder
                                    /\ req[r].obj \notin req[r].unknown \cup W(r)
                                    /\ req[r].ops < MaxOps
PairInv ==
    \A q, r \in Requests : q # r =>
        /\ W(q) \cap W(r) = {}
        /\ /\ req[q].pc # "idle" /\ req[r].pc # "idle"
           /\ req[q].kind = "save" /\ req[r].kind = "save"
           => req[q].folder # req[r].folder
        /\ req[q].pc = "linking" /\ req[r].kind = "copy" => req[q].obj \notin W(r)
SeenInv ==
    \A r \in Requests, o \in Objects :
        /\ req[r].kind = "save" /\ req[r].seen /\ Folder[o] = req[r].folder
        /\ o \notin req[r].unknown \cup W(r)
        => rows[o] \in {req[r].view[o], NoRow}

\* Which ids are known, and that the files of known ids are not cut short.
KnownInv ==
    /\ \A o \in Objects : rows[o] \in known \cup {NoRow}
    /\ \A i \in known : files[i] # "part" /\ marked[i] # "part"
    /\ \A r \in Requests :
        /\ Gone(r) \subseteq known
        /\ \A o \in Objects : req[r].view[o] \in known \cup {NoRow}
        /\ req[r].pc = "linking" => req[r].inst \in known
        /\ req[r].pc \in Acting =>
            \A o \in W(r) : req[r].wrote[o] \in known \cup req[r].new \cup {NoRow}
NewInv ==
    /\ \A i \in Instances : i >= next => files[i] = "none" /\ marked[i] = "none"
    /\ \A r \in Requests :
        /\ req[r].new \cap known = {}
        /\ req[r].pc \in Acting => \A i \in req[r].new :
            /\ \E o \in W(r) : req[r].wrote[o] = i
            /\ files[i] # "part" /\ marked[i] # "part"
    /\ \A q, r \in Requests : q # r => req[q].new \cap req[r].new = {}

\* What is gone is gone: its rows are removed by the request that found it without
\* rows, and nobody is making a row for it.
GoneInv ==
    \A r \in Requests, i \in Sound : req[r].pc \in Holding /\ i \in Gone(r) =>
        /\ \A o \in Objects : rows[o] = i => o \in W(r)
        /\ \A q \in Requests : \A o \in W(q) : req[q].wrote[o] # i
        /\ \A q \in Requests : req[q].pc = "linking" => req[q].inst # i

\* Where the files of these instances are.
MarkInv ==
    \A r \in Requests, i \in Sound : req[r].pc \in Holding /\ i \in req[r].mark =>
        /\ \E o \in Objects : rows[o] = i
        /\ files[i] = "none"
        /\ req[r].pc # "database" => marked[i] = "whole"
        /\ req[r].pc = "database" => marked[i] = "none"
DeletedInv ==
    \A r \in Requests :
        /\ req[r].pc = "database" => req[r].failed = {}
        /\ req[r].pc \in {"marked", "database"} =>
            \A i \in Sound \cap req[r].deleted : i \notin req[r].failed => files[i] = "none"

\* A row is removed together with its file, or another row is left; and only one
\* request removes rows of an instance.
LastInv ==
    \A r \in Requests, i \in Sound, o \in Objects :
        req[r].pc \in Acting /\ Removes(r, o, i) =>
            \/ i \in Gone(r)
            \/ \E p \in Objects : \/ p \notin W(r) /\ rows[p] = i
                                  \/ p \in W(r) /\ req[r].wrote[p] = i
SoleInv ==
    \A q, r \in Requests, i \in Sound, o, p \in Objects :
        q # r /\ req[q].pc \in Acting /\ req[r].pc \in Acting
        => ~ (Removes(q, o, i) /\ Removes(r, p, i))

\* The properties, as they are kept.
LeftInv ==
    \A i \in Sound :
        /\ files[i] # "none" =>
            \/ \E o \in Objects : rows[o] = i
            \/ \E r \in Requests : i \in req[r].new /\ req[r].pc \in Acting \cup {"undo"}
        /\ marked[i] # "none" =>
            \E r \in Requests : i \in req[r].mark /\ req[r].pc \in Holding \ {"database"}
RowInv ==
    \A i \in Sound, o \in Objects : rows[o] = i =>
        \/ files[i] = "whole"
        \/ \E r \in Requests : i \in req[r].mark /\ req[r].pc \in Holding
        \/ \E r \in Requests : i \in req[r].deleted /\ req[r].pc \in {"marked", "database"}
WroteInv ==
    \A i \in Sound, r \in Requests : \A o \in W(r) :
        req[r].pc \in Acting /\ req[r].wrote[o] = i => files[i] = "whole"

TypeInv == TypeOK /\ Shape
AInv == /\ TypeInv /\ KindInv /\ PairInv /\ SeenInv /\ KnownInv /\ NewInv
        /\ GoneInv /\ MarkInv /\ DeletedInv /\ LastInv /\ SoleInv
        /\ LeftInv /\ RowInv /\ WroteInv
--------------------------------------------------------------------------------
(* What the actions do to the fields of a request.                             *)

\* An idle request has nothing.
LEMMA IdleFacts ==
  ASSUME TypeInv, NEW r \in Requests, req[r].pc = "idle"
  PROVE  /\ req[r] = Idle /\ W(r) = {} /\ Gone(r) = {} /\ req[r].new = {}
         /\ req[r].deleted = {} /\ req[r].mark = {} /\ req[r].unknown = {}
         /\ ~ req[r].seen /\ req[r].kind = None /\ req[r].folder = None
         /\ req[r].ops = 0 /\ req[r].failed = {}
         /\ \A o \in Objects : req[r].view[o] = NoRow
<1>1. req[r] = Idle
  BY DEF TypeInv, TypeOK
<1> QED
  BY <1>1 DEF Idle, W, Gone

\* The same of a request that becomes idle.
LEMMA IdleAfter ==
  ASSUME NEW r \in Requests, req'[r] = Idle
  PROVE  /\ req'[r].pc = "idle" /\ W(r)' = {} /\ Gone(r)' = {} /\ req'[r].new = {}
         /\ req'[r].deleted = {} /\ req'[r].mark = {} /\ req'[r].unknown = {}
         /\ req'[r].failed = {} /\ req'[r].kind = None
         /\ ~ req'[r].seen /\ \A o \in Objects : req'[r].view[o] = NoRow
BY DEF Idle, W, Gone

\* Setting one request keeps the shape of all.
LEMMA SetSets ==
  ASSUME Shape, NEW r \in Requests, NEW rec, Set(r, rec)
  PROVE  /\ req'[r] = rec /\ Alone(r)
         /\ rec = [x \in Fields |-> rec[x]] => Shape'
BY DEF Shape, Set, Alone

\* A request begins its transaction.
LEMMA BeginEffect ==
  ASSUME TypeInv, NEW r \in Requests, NEW kind \in {"save", "copy", "delete"},
         NEW f \in Folders \cup {None}, Begin(r, kind, f)
  PROVE  /\ Shape' /\ Alone(r) /\ req[r].pc = "idle"
         /\ Keeps(r, {"pc", "kind", "folder"})
         /\ req'[r].pc = "ops" /\ req'[r].kind = kind /\ req'[r].folder = f
         /\ UNCHANGED <<rows, files, marked, next, known, spoiled>>
<1>1. /\ Set(r, [Idle EXCEPT !.pc = "ops", !.kind = kind, !.folder = f])
      /\ req[r].pc = "idle" /\ UNCHANGED <<rows, files, marked, next, known, spoiled>>
  BY DEF Begin
<1>2. req[r] = Idle /\ req[r] = [x \in Fields |-> req[r][x]]
  BY <1>1, IdleFacts DEF TypeInv, Shape
<1> DEFINE rec == [req[r] EXCEPT !.pc = "ops", !.kind = kind, !.folder = f]
<1>3. rec = [x \in Fields |-> rec[x]]
  BY <1>2
<1>4. req'[r] = rec /\ Alone(r) /\ Shape'
  <2>1. Set(r, rec)
    BY <1>1, <1>2
  <2> HIDE DEF rec
  <2> QED
    BY <1>3, <2>1, SetSets DEF TypeInv
<1>5. /\ req'[r].pc = "ops" /\ req'[r].kind = kind /\ req'[r].folder = f
      /\ Keeps(r, {"pc", "kind", "folder"})
  BY <1>2, <1>4 DEF Keeps, Fields
<1> QED
  BY <1>1, <1>4, <1>5

\* A save takes its snapshot.
LEMMA SnapshotEffect ==
  ASSUME TypeInv, NEW r \in Requests, TakeSnapshot(r)
  PROVE  /\ Shape' /\ Alone(r) /\ Keeps(r, {"seen", "view"})
         /\ req[r].pc = "ops" /\ req[r].kind = "save" /\ ~ req[r].seen
         /\ req'[r].seen /\ req'[r].view = rows
         /\ UNCHANGED <<rows, files, marked, next, known, spoiled>>
<1>1. /\ Set(r, [req[r] EXCEPT !.seen = TRUE, !.view = rows])
      /\ req[r].pc = "ops" /\ req[r].kind = "save" /\ ~ req[r].seen
      /\ UNCHANGED <<rows, files, marked, next, known, spoiled>>
  BY DEF TakeSnapshot
<1>2. req[r] = [x \in Fields |-> req[r][x]]
  BY DEF TypeInv, Shape
<1> DEFINE rec == [req[r] EXCEPT !.seen = TRUE, !.view = rows]
<1>3. rec = [x \in Fields |-> rec[x]]
  BY <1>2
<1>4. req'[r] = rec /\ Alone(r) /\ Shape'
  <2>1. Set(r, rec)
    BY <1>1, <1>2
  <2> HIDE DEF rec
  <2> QED
    BY <1>3, <2>1, SetSets DEF TypeInv
<1>5. req'[r].seen /\ req'[r].view = rows /\ Keeps(r, {"seen", "view"})
  BY <1>2, <1>4 DEF Keeps, Fields
<1> QED
  BY <1>1, <1>4, <1>5

\* A request fails.
LEMMA FailEffect ==
  ASSUME TypeInv, NEW r \in Requests, Fail(r)
  PROVE  /\ Shape' /\ Alone(r) /\ Keeps(r, {"pc"})
         /\ req[r].pc \in {"ops", "linking"} /\ req'[r].pc = "undo"
         /\ UNCHANGED <<rows, files, marked, next, known, spoiled>>
<1>1. /\ Set(r, [req[r] EXCEPT !.pc = "undo"]) /\ req[r].pc \in {"ops", "linking"}
      /\ UNCHANGED <<rows, files, marked, next, known, spoiled>>
  BY DEF Fail
<1>2. req[r] = [x \in Fields |-> req[r][x]]
  BY DEF TypeInv, Shape
<1> QED
  BY <1>1, <1>2, SetSets DEF TypeInv, Fields, Keeps

\* A save refuses the instance that it is given, or is about to link it.
LEMMA ExistEffect ==
  ASSUME TypeInv, NEW r \in Requests, NEW o \in Objects, NEW i \in Instances,
         NEW admin \in BOOLEAN, ExistAttachmentInstance(r, o, i, admin)
  PROVE  /\ Shape' /\ Alone(r) /\ i \in known /\ MayDo(r, {"save"}, {o})
         /\ spoiled \subseteq spoiled'
         /\ UNCHANGED <<rows, files, marked, next, known>>
         /\ \/ /\ Keeps(r, {"pc"}) /\ req'[r].pc = "undo" /\ UNCHANGED spoiled
            \/ /\ Keeps(r, {"pc", "obj", "inst", "seen", "view"}) /\ req'[r].pc = "linking"
               /\ req'[r].obj = o /\ req'[r].inst = i
               /\ req'[r].seen /\ req'[r].view = Snapshot(r)
               /\ files[i] # "none"
               /\ i \in UNION {req[q].deleted : q \in Requests}
                    => <<i, "linked">> \in spoiled'
<1>1. req[r] = [x \in Fields |-> req[r][x]]
  BY DEF TypeInv, Shape
<1>2. /\ i \in known /\ MayDo(r, {"save"}, {o})
      /\ UNCHANGED <<rows, files, marked, next, known>>
  BY DEF ExistAttachmentInstance
<1>3. CASE /\ Set(r, [req[r] EXCEPT !.pc = "linking", !.obj = o, !.inst = i,
                                    !.seen = TRUE, !.view = Snapshot(r)])
           /\ files[i] # "none"
           /\ spoiled' = spoiled \cup {<<j, "linked">> : j \in {i} \cap
                                       UNION {req[q].deleted : q \in Requests}}
  <2> DEFINE rec == [req[r] EXCEPT !.pc = "linking", !.obj = o, !.inst = i,
                                 !.seen = TRUE, !.view = Snapshot(r)]
  <2>1. rec = [x \in Fields |-> rec[x]]
    BY <1>1
  <2>2. req'[r] = rec /\ Alone(r) /\ Shape'
    <3>1. Set(r, rec)
      BY <1>3
    <3> HIDE DEF rec
    <3> QED
      BY <2>1, <3>1, SetSets DEF TypeInv
  <2>3. /\ req'[r].pc = "linking" /\ req'[r].obj = o /\ req'[r].inst = i
        /\ req'[r].seen /\ req'[r].view = Snapshot(r)
        /\ Keeps(r, {"pc", "obj", "inst", "seen", "view"})
    BY <1>1, <2>2 DEF Keeps, Fields
  <2> QED
    BY <1>2, <1>3, <2>2, <2>3
<1>4. CASE Set(r, [req[r] EXCEPT !.pc = "undo"]) /\ UNCHANGED spoiled
  BY <1>1, <1>2, <1>4, SetSets DEF TypeInv, Fields, Keeps
<1> QED
  BY <1>3, <1>4 DEF ExistAttachmentInstance

\* A copy writes the row of its object and locks that of the other.
LEMMA CopyEffect ==
  ASSUME TypeInv, NEW r \in Requests, NEW o \in Objects, NEW to \in Objects,
         CopyAttachment(r, o, to)
  PROVE  /\ Shape' /\ Alone(r) /\ MayDo(r, {"copy"}, {to})
         /\ Keeps(r, {"ops", "shared", "wrote"})
         /\ req'[r].ops = req[r].ops + 1 /\ req'[r].shared = req[r].shared \cup {o}
         /\ req'[r].wrote = Put(req[r].wrote, {to}, Over(rows, req[r].wrote)[o])
         /\ rows[to] = NoRow /\ o # to
         /\ \A q \in Others(r) : o \notin W(q) /\ req[q].obj # to
         /\ UNCHANGED <<rows, files, marked, next, known, spoiled>>
<1>1. req[r] = [x \in Fields |-> req[r][x]]
  BY DEF TypeInv, Shape
<1>2. /\ Set(r, [req[r] EXCEPT !.ops = @ + 1, !.shared = @ \cup {o},
                               !.wrote = Put(@, {to}, Over(rows, @)[o])])
      /\ MayDo(r, {"copy"}, {to}) /\ rows[to] = NoRow /\ o # to
      /\ \A q \in Others(r) : o \notin W(q) /\ req[q].obj # to
      /\ UNCHANGED <<rows, files, marked, next, known, spoiled>>
  BY DEF CopyAttachment, W
<1> DEFINE rec == [req[r] EXCEPT !.ops = @ + 1, !.shared = @ \cup {o},
                                 !.wrote = Put(@, {to}, Over(rows, @)[o])]
<1>3. rec = [x \in Fields |-> rec[x]]
  BY <1>1
<1>4. req'[r] = rec /\ Alone(r) /\ Shape'
  <2>1. Set(r, rec)
    BY <1>1, <1>2
  <2> HIDE DEF rec
  <2> QED
    BY <1>3, <2>1, SetSets DEF TypeInv
<1>5. /\ req'[r].ops = req[r].ops + 1 /\ req'[r].shared = req[r].shared \cup {o}
      /\ req'[r].wrote = Put(req[r].wrote, {to}, Over(rows, req[r].wrote)[o])
      /\ Keeps(r, {"ops", "shared", "wrote"})
  BY <1>1, <1>4 DEF Keeps, Fields
<1> QED
  BY <1>2, <1>4, <1>5

\* The files of deleted instances are unlinked, but for those that cannot be.
LEMMA CommitEffect ==
  ASSUME TypeInv, NEW r \in Requests, NEW failed \in SUBSET Instances, Commit(r, failed)
  PROVE  /\ Shape' /\ Alone(r) /\ Keeps(r, {"pc", "failed"})
         /\ req[r].pc = "ops" /\ req'[r].pc = "marked" /\ req'[r].failed = failed
         /\ failed \subseteq req[r].deleted
         /\ files' = [i \in Instances |-> IF i \in req[r].deleted \ failed
                                          THEN "none" ELSE files[i]]
         /\ UNCHANGED <<rows, marked, next, known, spoiled>>
<1>1. req[r] = [x \in Fields |-> req[r][x]]
  BY DEF TypeInv, Shape
<1>2. Set(r, [req[r] EXCEPT !.pc = "marked", !.failed = failed])
  BY DEF Commit
<1> DEFINE rec == [req[r] EXCEPT !.pc = "marked", !.failed = failed]
<1>3. rec = [x \in Fields |-> rec[x]]
  BY <1>1
<1>4. req'[r] = rec /\ Alone(r) /\ Shape'
  <2>1. Set(r, rec)
    BY <1>1, <1>2
  <2> HIDE DEF rec
  <2> QED
    BY <1>3, <2>1, SetSets DEF TypeInv
<1>5. /\ req'[r].pc = "marked" /\ req'[r].failed = failed
      /\ Keeps(r, {"pc", "failed"})
  BY <1>1, <1>4 DEF Keeps, Fields
<1> QED
  BY <1>4, <1>5 DEF Commit

\* The files renamed aside are unlinked.
LEMMA DeleteMarkedEffect ==
  ASSUME TypeInv, NEW r \in Requests, DeleteMarkedAttachments(r)
  PROVE  /\ Shape' /\ Alone(r) /\ Keeps(r, {"pc"}) /\ req[r].pc = "marked"
         /\ marked' = [i \in Instances |-> IF i \in req[r].mark THEN "none" ELSE marked[i]]
         /\ \/ req[r].failed = {} /\ req'[r].pc = "database" /\ UNCHANGED spoiled
            \/ /\ req'[r].pc = "rollback"
               /\ spoiled' = spoiled \cup {<<i, "commit">> : i \in Settled(r)}
         /\ UNCHANGED <<rows, files, next, known>>
<1>1. req[r] = [x \in Fields |-> req[r][x]]
  BY DEF TypeInv, Shape
<1>2. CASE /\ Set(r, [req[r] EXCEPT !.pc = "database"]) /\ UNCHANGED spoiled
           /\ req[r].failed = {}
  BY <1>1, <1>2, SetSets DEF TypeInv, Fields, Keeps, DeleteMarkedAttachments
<1>3. CASE /\ Set(r, [req[r] EXCEPT !.pc = "rollback"])
           /\ spoiled' = spoiled \cup {<<i, "commit">> : i \in Settled(r)}
  BY <1>1, <1>3, SetSets DEF TypeInv, Fields, Keeps, DeleteMarkedAttachments
<1> QED
  BY <1>2, <1>3 DEF DeleteMarkedAttachments

\* The database commits: the request is over, and others do not know what a copy made.
LEMMA DatabaseCommitEffect ==
  ASSUME TypeInv, NEW r \in Requests, DatabaseCommit(r)
  PROVE  /\ Shape' /\ req[r].pc = "database" /\ req'[r] = Idle
         /\ \A q \in Requests : q # r =>
              /\ Keeps(q, {"unknown"})
              /\ req'[q].unknown \in {req[q].unknown, req[q].unknown \cup W(r)}
              /\ req[q].pc # "idle" /\ req[r].kind = "copy"
                   => req'[q].unknown = req[q].unknown \cup W(r)
              /\ req[q].pc = "idle" => req'[q] = req[q]
         /\ rows' = Over(rows, req[r].wrote)
         /\ known' = known \cup ({req[r].wrote[o] : o \in W(r)} \ {NoRow})
         /\ UNCHANGED <<files, marked, next, spoiled>>
<1>1. \A q \in Requests : req[q] = [x \in Fields |-> req[q][x]]
  BY DEF TypeInv, Shape
<1>2. /\ req[r].pc = "database" /\ rows' = Over(rows, req[r].wrote)
      /\ known' = known \cup ({req[r].wrote[o] : o \in W(r)} \ {NoRow})
      /\ UNCHANGED <<files, marked, next, spoiled>>
  BY DEF DatabaseCommit, W
<1>3. req' = [q \in Requests |->
         IF q = r THEN Idle
         ELSE IF req[r].kind = "copy" /\ q \in Running
              THEN [req[q] EXCEPT !.unknown = @ \cup W(r)]
              ELSE req[q]]
  BY DEF DatabaseCommit, W
<1>4. Idle = [x \in Fields |-> Idle[x]]
  BY DEF Idle, Fields
<1>5. Shape'
  <2>1. ASSUME NEW q \in Requests PROVE req'[q] = [x \in Fields |-> req'[q][x]]
    <3>1. CASE q = r
      BY <1>3, <1>4, <3>1
    <3>2. CASE q # r /\ req[r].kind = "copy" /\ q \in Running
      BY <1>1, <1>3, <3>2
    <3>3. CASE q # r /\ ~ (req[r].kind = "copy" /\ q \in Running)
      BY <1>1, <1>3, <3>3
    <3> QED
      BY <3>1, <3>2, <3>3
  <2> QED
    BY <1>3, <2>1 DEF Shape
<1>6. ASSUME NEW q \in Requests, q # r
      PROVE  /\ Keeps(q, {"unknown"})
             /\ req'[q].unknown \in {req[q].unknown, req[q].unknown \cup W(r)}
             /\ req[q].pc # "idle" /\ req[r].kind = "copy"
                  => req'[q].unknown = req[q].unknown \cup W(r)
             /\ req[q].pc = "idle" => req'[q] = req[q]
  <2>1. CASE req[r].kind = "copy" /\ q \in Running
    <3>1. req'[q] = [req[q] EXCEPT !.unknown = @ \cup W(r)]
      BY <1>3, <1>6, <2>1
    <3> QED
      BY <1>1, <2>1, <3>1 DEF Keeps, Fields, Running
  <2>2. CASE ~ (req[r].kind = "copy" /\ q \in Running)
    <3>1. req'[q] = req[q]
      BY <1>3, <1>6, <2>2
    <3> QED
      BY <2>2, <3>1 DEF Keeps, Running
  <2> QED
    BY <2>1, <2>2
<1> QED
  BY <1>2, <1>3, <1>5, <1>6

\* The database does not commit.
LEMMA CommitFailsEffect ==
  ASSUME TypeInv, NEW r \in Requests, DatabaseCommitFails(r)
  PROVE  /\ Shape' /\ Alone(r) /\ Keeps(r, {"pc"}) /\ req[r].pc = "database"
         /\ req'[r].pc = "rollback"
         /\ spoiled' = spoiled \cup {<<i, "commit">> : i \in Settled(r)}
         /\ UNCHANGED <<rows, files, marked, next, known>>
<1>1. req[r] = [x \in Fields |-> req[r][x]]
  BY DEF TypeInv, Shape
<1>2. Set(r, [req[r] EXCEPT !.pc = "rollback"])
  BY DEF DatabaseCommitFails
<1> QED
  BY <1>1, <1>2, SetSets DEF TypeInv, Fields, Keeps, DatabaseCommitFails

\* The new files are unlinked.
LEMMA RollbackEffect ==
  ASSUME TypeInv, NEW r \in Requests, Rollback(r)
  PROVE  /\ Shape' /\ Alone(r) /\ Keeps(r, {"pc", "deleted"}) /\ req[r].pc = "undo"
         /\ req'[r].pc = "restore" /\ req'[r].deleted = {}
         /\ files' = [i \in Instances |-> IF i \in req[r].new THEN "none" ELSE files[i]]
         /\ UNCHANGED <<rows, marked, next, known, spoiled>>
<1>1. req[r] = [x \in Fields |-> req[r][x]]
  BY DEF TypeInv, Shape
<1>2. Set(r, [req[r] EXCEPT !.pc = "restore", !.deleted = {}])
  BY DEF Rollback
<1> DEFINE rec == [req[r] EXCEPT !.pc = "restore", !.deleted = {}]
<1>3. rec = [x \in Fields |-> rec[x]]
  BY <1>1
<1>4. req'[r] = rec /\ Alone(r) /\ Shape'
  <2>1. Set(r, rec)
    BY <1>1, <1>2
  <2> HIDE DEF rec
  <2> QED
    BY <1>3, <2>1, SetSets DEF TypeInv
<1>5. /\ req'[r].pc = "restore" /\ req'[r].deleted = {}
      /\ Keeps(r, {"pc", "deleted"})
  BY <1>1, <1>4 DEF Keeps, Fields
<1> QED
  BY <1>4, <1>5 DEF Rollback

\* The files renamed aside get their names back.
LEMMA RestoreEffect ==
  ASSUME TypeInv, NEW r \in Requests, RestoreMarkedAttachments(r)
  PROVE  /\ Shape' /\ Alone(r) /\ Keeps(r, {"pc"}) /\ req[r].pc = "restore"
         /\ req'[r].pc = "rollback"
         /\ \A i \in Instances :
              IF i \in req[r].mark /\ marked[i] # "none"
              THEN files'[i] = marked[i] /\ marked'[i] = "none"
              ELSE files'[i] = files[i] /\ marked'[i] = marked[i]
         /\ UNCHANGED <<rows, next, known, spoiled>>
<1>1. req[r] = [x \in Fields |-> req[r][x]]
  BY DEF TypeInv, Shape
<1>2. Set(r, [req[r] EXCEPT !.pc = "rollback"])
  BY DEF RestoreMarkedAttachments
<1>3. \A i \in Instances :
         IF i \in req[r].mark /\ marked[i] # "none"
         THEN files'[i] = marked[i] /\ marked'[i] = "none"
         ELSE files'[i] = files[i] /\ marked'[i] = marked[i]
  BY DEF RestoreMarkedAttachments
<1> QED
  BY <1>1, <1>2, <1>3, SetSets DEF TypeInv, Fields, Keeps, RestoreMarkedAttachments

\* The transaction is rolled back, and the request is over.
LEMMA EndEffect ==
  ASSUME TypeInv, NEW r \in Requests, DatabaseRollback(r)
  PROVE  /\ Shape' /\ Alone(r) /\ req[r].pc = "rollback" /\ req'[r] = Idle
         /\ UNCHANGED <<rows, files, marked, next, known, spoiled>>
<1>1. Set(r, Idle)
  BY DEF DatabaseRollback
<1>2. Idle = [x \in Fields |-> Idle[x]]
  BY DEF Idle, Fields
<1> QED
  BY <1>1, <1>2, SetSets DEF TypeInv, DatabaseRollback

\* The process ends.
LEMMA CrashEffect ==
  ASSUME TypeInv, Crash
  PROVE  /\ Shape' /\ \A r \in Requests : req'[r] = Idle
         /\ spoiled \subseteq spoiled'
         /\ \A r \in Requests : req[r].pc # "idle" =>
              \A i \in Settled(r) : <<i, "crash">> \in spoiled'
         /\ UNCHANGED <<rows, files, marked, next, known>>
<1>1. Idle = [x \in Fields |-> Idle[x]]
  BY DEF Idle, Fields
<1>2. req' = [r \in Requests |-> Idle]
  BY DEF Crash
<1>3. \A r \in Requests : req[r].pc # "idle" =>
        \A i \in Settled(r) : <<i, "crash">> \in spoiled'
  BY DEF Crash, Running
<1> QED
  BY <1>1, <1>2, <1>3 DEF Shape, Crash
--------------------------------------------------------------------------------
(* An operation replaces or removes rows.                                      *)

\* What is spoiled stays spoiled.
LEMMA Grows ==
  /\ spoiled \subseteq spoiled' => Sound' \subseteq Sound
  /\ \A i, x : <<i, x>> \in spoiled' => i \notin Sound'
BY DEF Sound, Spoiled

\* The instances that r sees at the objects of S, which it has not changed, and
\* those that it sees no rows of when these are gone.
Olds(r, S) == {Snapshot(r)[o] : o \in S} \ {NoRow}
Lost(r, S) == Orphans(r, Put(req[r].wrote, S, NoRow), Olds(r, S))

\* r writes v in the rows of the objects in S. Of the lost instances, the files of
\* A are renamed and those of D noted for deletion.
Op(r, S, v, A, D) ==
    /\ Alone(r) /\ Shape' /\ UNCHANGED <<rows, known, left>>
    /\ files' \in [Instances -> {"none", "part", "whole"}]
    /\ marked' \in [Instances -> {"none", "part", "whole"}]
    /\ spoiled' \subseteq Instances \X Reasons
    /\ req[r].pc \in {"ops", "linking"} /\ req'[r].pc \in {"ops", "undo"}
    /\ Keeps(r, {"pc", "ops", "seen", "view", "wrote", "new", "mark", "deleted", "obj",
                 "inst"})
    /\ req[r].kind \in {"save", "delete"} /\ req'[r].ops \in 1 .. MaxOps
    /\ req[r].kind = "save" => \A o \in S : Folder[o] = req[r].folder
    /\ req[r].kind = "delete" => v = NoRow
    /\ req[r].seen => req[r].kind = "save" /\ S \cap req[r].unknown = {}
    /\ \/ req'[r].view = req[r].view /\ (req'[r].seen <=> req[r].seen)
       \/ req'[r].view = Snapshot(r)
    /\ S \subseteq Objects /\ \A q \in Requests : S \cap W(q) = {}
    /\ W(r)' = W(r) \cup S
    /\ \A o \in W(r) : req'[r].wrote[o] = req[r].wrote[o]
    /\ \A o \in S : req'[r].wrote[o] = v
    /\ v \in {NoRow, next} \/ (req[r].pc = "linking" /\ v = req[r].inst)
    /\ v \notin Olds(r, S)
    /\ A \cup D \subseteq Lost(r, S)
    /\ \A i \in A : files[i] # "none"
    /\ \A i \in Lost(r, S) : files[i] # "none" => i \in A \cup D
    /\ req'[r].mark = req[r].mark \cup A /\ req'[r].deleted = req[r].deleted \cup D
    /\ \A i \in Instances :
         /\ i \in A => files'[i] = "none" /\ marked'[i] = files[i]
         /\ i \notin A /\ i # next => files'[i] = files[i]
         /\ i \notin A => marked'[i] = marked[i]
    /\ spoiled \subseteq spoiled'
    /\ Doubts(r, Put(req[r].wrote, S, NoRow), Olds(r, S), Lost(r, S)) \subseteq spoiled'

\* What r can rely on, unless it is spoiled: it has seen the rows it removes; what
\* is lost has no other rows, and nobody is making one; what is not lost has one;
\* and nobody else has changed a row of these instances.
LEMMA OpFacts ==
  ASSUME TypeInv, KindInv, SeenInv, KnownInv,
         NEW r \in Requests, NEW S, NEW v, NEW A, NEW D, Op(r, S, v, A, D)
  PROVE  /\ Lost(r, S) \subseteq Olds(r, S) /\ Olds(r, S) \subseteq known
         /\ \A o \in S : rows[o] = NoRow \/ rows[o] \in Olds(r, S)
         /\ \A i \in Lost(r, S) \cap Sound' :
              /\ \A o \in Objects : rows[o] = i => o \in W(r) \cup S
              /\ \A o \in W(r) : req[r].wrote[o] # i
              /\ \A q \in Requests : q # r /\ req[q].pc = "linking" => req[q].inst # i
         /\ \A i \in Olds(r, S) \cap Sound' : i \notin Lost(r, S) =>
              \E o \in Objects : \/ o \notin W(r) \cup S /\ rows[o] = i
                                 \/ o \in W(r) /\ req[r].wrote[o] = i
         /\ \A i \in Olds(r, S) \cap Sound', q \in Requests : \A o \in W(q) :
              q # r => req[q].wrote[o] # i /\ rows[o] # i
<1> DEFINE wrote == Put(req[r].wrote, S, NoRow)
<1>0. /\ S \subseteq Objects /\ S \cap W(r) = {}
      /\ \A q \in Requests : W(q) \subseteq Objects
  BY DEF Op, TypeInv, TypeOK, W
<1>1. /\ DOMAIN wrote = W(r) \cup S
      /\ \A o \in S : wrote[o] = NoRow
      /\ \A o \in W(r) : wrote[o] = req[r].wrote[o]
  BY <1>0 DEF Put, W
<1>2. \A f : \A o \in Objects :
        /\ o \in W(r) => Over(f, wrote)[o] = req[r].wrote[o]
        /\ o \in S => Over(f, wrote)[o] = NoRow
        /\ o \notin W(r) \cup S => Over(f, wrote)[o] = f[o]
  <2> HIDE DEF wrote
  <2> QED
    BY <1>0, <1>1 DEF Over
<1> HIDE DEF wrote
<1>3. Lost(r, S) = {i \in Olds(r, S) : ~ \E o \in Objects : Over(Snapshot(r), wrote)[o] = i}
  BY DEF Lost, Orphans, RefersTo, wrote
<1>4. \A o \in Objects : Snapshot(r)[o] \in known \cup {NoRow}
  BY DEF KnownInv, Snapshot
<1>5. Olds(r, S) \subseteq known /\ NoRow \notin Olds(r, S)
  BY <1>0, <1>4 DEF Olds
<1>6. \A o \in S : rows[o] = NoRow \/ rows[o] \in Olds(r, S)
  <2>1. \A o \in S : rows[o] \in {Snapshot(r)[o], NoRow}
    BY <1>0 DEF Op, SeenInv, Snapshot
  <2> QED
    BY <2>1 DEF Olds
<1>7. ASSUME NEW i \in Olds(r, S), i \in Sound'
      PROVE  \A o \in Objects :
               (Over(Snapshot(r), wrote)[o] = i) <=> (Over(rows, wrote)[o] = i)
  <2> SUFFICES ASSUME NEW o \in Objects,
                      ~ ((Over(Snapshot(r), wrote)[o] = i) <=> (Over(rows, wrote)[o] = i))
               PROVE  FALSE
    OBVIOUS
  <2>1. <<i, "stale">> \in Doubts(r, wrote, Olds(r, S), Lost(r, S))
    <3>1. (Over(Snapshot(r), wrote)[o] = i) # (Over(rows, wrote)[o] = i)
      BY Zenon
    <3> QED
      BY <3>1, Zenon DEF Doubts
  <2>2. <<i, "stale">> \in spoiled'
    BY <2>1 DEF Op, wrote
  <2> QED
    BY <1>7, <2>2, Grows
<1>8. ASSUME NEW i \in Olds(r, S), i \in Sound', NEW q \in Requests, q # r,
             NEW o \in W(q)
      PROVE  req[q].wrote[o] # i /\ rows[o] # i
  <2> SUFFICES ASSUME i \in {req[q].wrote[o], rows[o]} PROVE FALSE
    OBVIOUS
  <2>1. q \in Others(r)
    BY <1>8, IdleFacts DEF Others, Running
  <2>2. <<i, "stale">> \in Doubts(r, wrote, Olds(r, S), Lost(r, S))
    BY <2>1, Zenon DEF Doubts, W
  <2>3. <<i, "stale">> \in spoiled'
    BY <2>2 DEF Op, wrote
  <2> QED
    BY <1>8, <2>3, Grows
<1>9. ASSUME NEW i \in Lost(r, S), i \in Sound', NEW q \in Requests, q # r,
             req[q].pc = "linking", req[q].inst = i
      PROVE  FALSE
  <2>1. q \in Others(r)
    BY <1>9 DEF Others, Running
  <2>2. <<i, "linked">> \in Doubts(r, wrote, Olds(r, S), Lost(r, S))
    BY <1>9, <2>1, Zenon DEF Doubts
  <2>3. <<i, "linked">> \in spoiled'
    BY <2>2 DEF Op, wrote
  <2> QED
    BY <1>9, <2>3, Grows
<1>10. ASSUME NEW i \in Lost(r, S), i \in Sound'
       PROVE  /\ \A o \in Objects : rows[o] = i => o \in W(r) \cup S
              /\ \A o \in W(r) : req[r].wrote[o] # i
  BY <1>0, <1>2, <1>3, <1>7, <1>10
<1>11. ASSUME NEW i \in Olds(r, S), i \in Sound', i \notin Lost(r, S)
       PROVE  \E o \in Objects : \/ o \notin W(r) \cup S /\ rows[o] = i
                                 \/ o \in W(r) /\ req[r].wrote[o] = i
  <2>1. PICK o \in Objects : Over(Snapshot(r), wrote)[o] = i
    BY <1>3, <1>11
  <2>2. Over(rows, wrote)[o] = i
    BY <1>7, <1>11, <2>1
  <2> QED
    BY <1>2, <1>5, <2>2
<1> QED
  BY <1>3, <1>5, <1>6, <1>8, <1>9, <1>10, <1>11
\* The three operations: a new file, a row for an existing one, and rows that go.
Stored(r, v) ==
    /\ v = next /\ next \in Instances /\ next' = next + 1
    /\ files'[next] \in {"none", "part", "whole"}
    /\ \E o \in DOMAIN req'[r].wrote : req'[r].wrote[o] = next
    /\ req'[r].pc = "ops" <=> files'[next] = "whole"
    /\ files'[next] = "none" => req'[r].new = req[r].new
    /\ files'[next] # "none" => req'[r].new = req[r].new \cup {next}
Linked(r, v) ==
    /\ v \in {NoRow, req[r].inst} /\ req[r].pc = "linking" /\ next' = next
    /\ v # NoRow => files[v] # "none"
    /\ next \in Instances => files'[next] = files[next]
    /\ req'[r].new = req[r].new
Removed(r, v) ==
    /\ v = NoRow /\ next' = next /\ files' = files /\ req'[r].new = req[r].new

\* The rows that r sees of objects that it has not changed are those of its snapshot.
LEMMA SeesSnapshot ==
  ASSUME TypeInv, NEW r \in Requests, NEW o \in Objects, o \notin W(r)
  PROVE  Over(Snapshot(r), req[r].wrote)[o] = Snapshot(r)[o]
BY DEF Over, W

\* The locks are free: nobody has changed these objects.
LEMMA Locked ==
  ASSUME TypeInv, NEW r \in Requests, NEW S, CanLock(r, S)
  PROVE  \A q \in Requests : q # r => S \cap W(q) = {}
<1>1. ASSUME NEW q \in Requests, q # r PROVE S \cap W(q) = {}
  <2>1. CASE req[q].pc = "idle"
    BY <2>1, IdleFacts
  <2>2. CASE req[q].pc # "idle"
    BY <1>1, <2>2 DEF CanLock, Others, Running, W
  <2> QED
    BY <2>1, <2>2
<1> QED
  BY <1>1

\* What is replaced, in the words above.
LEMMA ReplacedFacts ==
  ASSUME TypeInv, NEW r \in Requests, NEW o \in Objects, o \notin W(r)
  PROVE  /\ Replaced(r, o).old = Olds(r, {o}) /\ Replaced(r, o).gone = Lost(r, {o})
         /\ Replaced(r, o).aside = {i \in Lost(r, {o}) : files[i] # "none"}
<1> DEFINE old == Over(Snapshot(r), req[r].wrote)[o]
<1>1. Olds(r, {o}) = {old} \ {NoRow}
  BY SeesSnapshot DEF Olds
<1>2. CASE old = NoRow
  <2>1. Olds(r, {o}) = {} /\ Lost(r, {o}) = {}
    BY <1>1, <1>2 DEF Lost, Orphans
  <2> QED
    BY <1>1, <1>2, <2>1 DEF Replaced
<1>3. CASE old # NoRow
  <2>1. Olds(r, {o}) = {old}
    BY <1>1, <1>3
  <2>2. Lost(r, {o}) = Orphans(r, Put(req[r].wrote, {o}, NoRow), {old})
    BY <2>1 DEF Lost
  <2> QED
    BY <1>1, <1>3, <2>2 DEF Replaced
<1> QED
  BY <1>2, <1>3

\* Old instances are known, and so not new.
LEMMA OldsKnown ==
  ASSUME TypeInv, KnownInv, NEW r \in Requests, NEW S \in SUBSET Objects
  PROVE  /\ Olds(r, S) \subseteq known /\ NoRow \notin Olds(r, S) /\ next \notin known
         /\ Lost(r, S) \subseteq Olds(r, S)
<1>1. \A o \in Objects : Snapshot(r)[o] \in known \cup {NoRow}
  BY DEF KnownInv, Snapshot
<1>2. Olds(r, S) \subseteq known /\ NoRow \notin Olds(r, S)
  BY <1>1 DEF Olds
<1>3. next \notin known
  BY DEF TypeInv, TypeOK
<1> QED
  BY <1>2, <1>3 DEF Lost, Orphans

\* The history names instances and reasons.
LEMMA DoubtsType ==
  ASSUME TypeInv, KnownInv, NEW r \in Requests, NEW S \in SUBSET Objects, NEW wrote
  PROVE  spoiled \cup Doubts(r, wrote, Olds(r, S), Lost(r, S)) \subseteq Instances \X Reasons
<1>1. known \subseteq Instances
  BY AttachmentsAssumption DEF TypeInv, TypeOK, Instances
<1>2. Olds(r, S) \subseteq Instances /\ Lost(r, S) \subseteq Instances
  BY <1>1, OldsKnown
<1>3. Doubts(r, wrote, Olds(r, S), Lost(r, S)) \subseteq Instances \X Reasons
  BY <1>2 DEF Doubts, Reasons
<1> QED
  BY <1>3 DEF TypeInv, TypeOK

\* A save of data is such an operation, with a new instance.
LEMMA SaveEffect ==
  ASSUME TypeInv, KindInv, KnownInv, NEW r \in Requests, NEW o \in Objects,
         NEW written \in {"none", "part", "whole"}, SaveAttachment(r, o, written)
  PROVE  \E A : Op(r, {o}, next, A, {}) /\ Stored(r, next)
<1>1. req[r] = [x \in Fields |-> req[r][x]]
  BY DEF TypeInv, Shape
<1>2. MayDo(r, {"save"}, {o})
  BY DEF SaveAttachment
<1>3. /\ req[r].pc = "ops" /\ req[r].kind = "save" /\ o \notin W(r)
      /\ Folder[o] = req[r].folder /\ o \notin req[r].unknown
      /\ \A q \in Requests : q # r => {o} \cap W(q) = {}
  BY <1>2, Locked DEF MayDo, W
<1> DEFINE A == {i \in Lost(r, {o}) : files[i] # "none"}
           rec == [req[r] EXCEPT !.pc = IF written = "whole" THEN "ops" ELSE "undo",
                             !.ops = @ + 1, !.seen = TRUE, !.view = Snapshot(r),
                             !.wrote = Put(@, {o}, next),
                             !.new = IF written = "none" THEN @ ELSE @ \cup {next},
                             !.mark = @ \cup A]
<1>4. /\ next \in Instances /\ next' = next + 1
      /\ files' = [i \in Instances |-> IF i \in A THEN "none"
                                     ELSE IF i = next THEN written ELSE files[i]]
      /\ marked' = [i \in Instances |-> IF i \in A THEN files[i] ELSE marked[i]]
      /\ Set(r, rec)
      /\ spoiled' = spoiled \cup
            Doubts(r, Put(req[r].wrote, {o}, NoRow), Olds(r, {o}), Lost(r, {o}))
      /\ UNCHANGED <<rows, known, left>>
  BY <1>3, ReplacedFacts DEF SaveAttachment
<1>5. rec = [x \in Fields |-> rec[x]]
  BY <1>1
<1>6. req'[r] = rec /\ Alone(r) /\ Shape'
  <2> HIDE DEF rec
  <2> QED
    BY <1>4, <1>5, SetSets DEF TypeInv
<1> HIDE DEF A
<1>7. /\ req'[r].pc = IF written = "whole" THEN "ops" ELSE "undo"
      /\ req'[r].ops = req[r].ops + 1 /\ req'[r].view = Snapshot(r)
      /\ req'[r].wrote = Put(req[r].wrote, {o}, next)
      /\ req'[r].new = IF written = "none" THEN req[r].new ELSE req[r].new \cup {next}
      /\ req'[r].mark = req[r].mark \cup A /\ req'[r].deleted = req[r].deleted
      /\ Keeps(r, {"pc", "ops", "seen", "view", "wrote", "new", "mark"})
  BY <1>1, <1>6 DEF Keeps, Fields
<1>8. req[r].ops < MaxOps
  BY <1>2, <1>3 DEF MayDo
<1>9. req'[r].ops \in 1 .. MaxOps
  BY <1>7, <1>8, AttachmentsAssumption DEF TypeInv, TypeOK
<1>10. A \subseteq known /\ next \notin A /\ next \notin Olds(r, {o})
       /\ next \in Nat
  BY <1>4, OldsKnown DEF A, TypeInv, TypeOK, Instances
<1>11. /\ W(r)' = W(r) \cup {o} /\ \A p \in W(r) : req'[r].wrote[p] = req[r].wrote[p]
       /\ req'[r].wrote[o] = next
  BY <1>3, <1>7, Zenon DEF W, Put
<1>12. Keeps(r, {"pc", "ops", "seen", "view", "wrote", "new", "mark", "deleted", "obj",
                 "inst"})
  BY <1>7 DEF Keeps
<1>13. Stored(r, next)
  BY <1>4, <1>7, <1>10, <1>11 DEF Stored, W
<1>14. \A i \in Instances :
         /\ i \in A => files'[i] = "none" /\ marked'[i] = files[i]
         /\ i \notin A /\ i # next => files'[i] = files[i]
         /\ i \notin A => marked'[i] = marked[i]
  BY <1>4
<1>15. /\ A \subseteq Lost(r, {o}) /\ \A i \in A : files[i] # "none"
       /\ \A i \in Lost(r, {o}) : files[i] # "none" => i \in A
  BY DEF A
<1>16. Op(r, {o}, next, A, {})
  <2>1. /\ req[r].pc \in {"ops", "linking"} /\ req'[r].pc \in {"ops", "undo"}
        /\ req[r].kind \in {"save", "delete"} /\ req[r].kind # "delete"
        /\ req[r].kind = "save" => \A p \in {o} : Folder[p] = req[r].folder
        /\ req[r].seen => req[r].kind = "save" /\ {o} \cap req[r].unknown = {}
        /\ {o} \subseteq Objects /\ \A q \in Requests : {o} \cap W(q) = {}
    BY <1>3, <1>7
  <2>2. A \cup {} = A /\ req'[r].deleted = req[r].deleted \cup {}
    BY <1>7
  <2>3. /\ spoiled \subseteq spoiled' /\ UNCHANGED <<rows, known>>
        /\ Doubts(r, Put(req[r].wrote, {o}, NoRow), Olds(r, {o}), Lost(r, {o}))
             \subseteq spoiled'
    BY <1>4
  <2>4. \A p \in {o} : req'[r].wrote[p] = next
    BY <1>11
  <2>5. /\ files' \in [Instances -> {"none", "part", "whole"}]
        /\ marked' \in [Instances -> {"none", "part", "whole"}] /\ left' = left
    BY <1>4 DEF TypeInv, TypeOK
  <2>6. spoiled' \subseteq Instances \X Reasons
    BY <1>4, DoubtsType
  <2> HIDE DEF rec
  <2> QED
    BY <1>6, <1>7, <1>9, <1>10, <1>11, <1>12, <1>14, <1>15, <2>1, <2>2, <2>3, <2>4, <2>5, <2>6,
       Zenon DEF Op
<1> QED
  BY <1>13, <1>16

\* So is a save of an instance, unless the object has it already.
LEMMA InstanceEffect ==
  ASSUME TypeInv, KindInv, KnownInv, NEW r \in Requests, SaveInstance(r)
  PROVE  \/ /\ Shape' /\ Alone(r) /\ Keeps(r, {"pc", "ops", "obj", "inst"})
            /\ req[r].pc = "linking" /\ req'[r].pc = "ops" /\ req[r].kind = "save"
            /\ req'[r].ops \in 1 .. MaxOps
            /\ UNCHANGED <<rows, files, marked, next, known, left, spoiled>>
         \/ \E S, v, A : Op(r, S, v, A, {}) /\ Linked(r, v)
<1>1. req[r] = [x \in Fields |-> req[r][x]]
  BY DEF TypeInv, Shape
<1> DEFINE o == req[r].obj
           i == req[r].inst
           done == [req[r] EXCEPT !.pc = "ops", !.ops = @ + 1, !.obj = None, !.inst = NoRow]
<1>2. req[r].pc = "linking" /\ CanLock(r, {o}) /\ UNCHANGED <<rows, next, known, left>>
  BY DEF SaveInstance
<1>3. /\ req[r].kind = "save" /\ o \in Objects /\ o \notin W(r) /\ i \in known
      /\ Folder[o] = req[r].folder /\ o \notin req[r].unknown
      /\ \A q \in Requests : q # r => {o} \cap W(q) = {}
  BY <1>2, Locked DEF KindInv, KnownInv
<1>4. /\ done = [x \in Fields |-> done[x]]
      /\ \A x \in Fields \ {"pc", "ops", "obj", "inst"} : done[x] = req[r][x]
      /\ done.pc = "ops" /\ done.ops = req[r].ops + 1
  BY <1>1 DEF Fields
<1>8. req[r].ops + 1 \in 1 .. MaxOps
  BY <1>2, AttachmentsAssumption DEF KindInv, TypeInv, TypeOK
<1> DEFINE A == {j \in Lost(r, {o}) : files[j] # "none"}
<1>5. SaveInstance(r) =>
        IF i \in Olds(r, {o})
        THEN Set(r, done) /\ UNCHANGED <<files, marked, spoiled>>
        ELSE /\ MarkAside(A)
             /\ spoiled' = spoiled \cup
                    Doubts(r, Put(req[r].wrote, {o}, NoRow), Olds(r, {o}), Lost(r, {o}))
             /\ IF files[i] # "none"
                THEN Set(r, [done EXCEPT !.wrote = Put(@, {o}, i), !.mark = @ \cup A])
                ELSE Set(r, [done EXCEPT !.pc = "undo", !.wrote = Put(@, {o}, NoRow),
                                         !.mark = @ \cup A])
  BY <1>3, ReplacedFacts, Zenon DEF SaveInstance
<1> HIDE DEF done
<1>6. CASE i \in Olds(r, {o})
  <2>1. Set(r, done) /\ UNCHANGED <<files, marked, spoiled>>
    BY <1>5, <1>6
  <2>2. req'[r] = done /\ Alone(r) /\ Shape'
    BY <1>4, <2>1, SetSets DEF TypeInv
  <2> QED
    BY <1>2, <1>3, <1>4, <1>8, <2>1, <2>2 DEF Keeps
<1>7. CASE i \notin Olds(r, {o})
  <2>1. /\ MarkAside(A)
        /\ spoiled' = spoiled \cup
               Doubts(r, Put(req[r].wrote, {o}, NoRow), Olds(r, {o}), Lost(r, {o}))
    BY <1>5, <1>7
  <2>2. PICK v, pc :
          /\ \/ v = i /\ pc = "ops" /\ files[i] # "none"
             \/ v = NoRow /\ pc = "undo"
          /\ Set(r, [done EXCEPT !.pc = pc, !.wrote = Put(@, {o}, v), !.mark = @ \cup A])
    <3>1. [done EXCEPT !.wrote = Put(@, {o}, i), !.mark = @ \cup A]
          = [done EXCEPT !.pc = "ops", !.wrote = Put(@, {o}, i), !.mark = @ \cup A]
      BY <1>4
    <3>2. CASE files[i] # "none"
      BY <1>5, <1>7, <3>1, <3>2
    <3>3. CASE files[i] = "none"
      BY <1>5, <1>7, <3>3
    <3> QED
      BY <3>2, <3>3
  <2> DEFINE rec == [done EXCEPT !.pc = pc, !.wrote = Put(@, {o}, v), !.mark = @ \cup A]
  <2>3. rec = [x \in Fields |-> rec[x]]
    BY <1>4
  <2>4. req'[r] = rec /\ Alone(r) /\ Shape'
    <3>1. Set(r, rec)
      BY <2>2
    <3> HIDE DEF rec
    <3> QED
      BY <2>3, <3>1, SetSets DEF TypeInv
  <2>5. /\ req'[r].pc = pc /\ req'[r].ops = req[r].ops + 1
        /\ req'[r].wrote = Put(req[r].wrote, {o}, v) /\ req'[r].mark = req[r].mark \cup A
        /\ Keeps(r, {"pc", "ops", "wrote", "mark", "obj", "inst"})
    <3> HIDE DEF A
    <3>1. /\ rec.pc = pc /\ rec.ops = req[r].ops + 1
          /\ rec.wrote = Put(req[r].wrote, {o}, v) /\ rec.mark = req[r].mark \cup A
          /\ \A x \in Fields \ {"pc", "ops", "wrote", "mark", "obj", "inst"} :
               rec[x] = req[r][x]
      BY <1>4 DEF Fields
    <3> QED
      BY <2>4, <3>1 DEF Keeps
  <2> HIDE DEF A
  <2>6. /\ req'[r].ops \in 1 .. MaxOps /\ req'[r].view = req[r].view /\ (req'[r].seen <=> req[r].seen)
        /\ req'[r].new = req[r].new /\ req'[r].deleted = req[r].deleted
    BY <1>8, <2>5 DEF TypeInv, TypeOK, Keeps, Fields
  <2>7. /\ A \subseteq Lost(r, {o}) /\ \A j \in A : files[j] # "none"
        /\ \A j \in Lost(r, {o}) : files[j] # "none" => j \in A
    BY DEF A
  <2>8. A \subseteq known /\ next \notin A /\ v \notin Olds(r, {o})
    BY <1>3, <1>7, <2>2, <2>7, OldsKnown
  <2>9. /\ W(r)' = W(r) \cup {o} /\ \A p \in W(r) : req'[r].wrote[p] = req[r].wrote[p]
        /\ req'[r].wrote[o] = v
    BY <1>3, <2>5, Zenon DEF W, Put
  <2>10. Keeps(r, {"pc", "ops", "seen", "view", "wrote", "new", "mark", "deleted", "obj",
                   "inst"})
    BY <2>5 DEF Keeps
  <2>11. \A j \in Instances :
           /\ j \in A => files'[j] = "none" /\ marked'[j] = files[j]
           /\ j \notin A => files'[j] = files[j]
           /\ j \notin A => marked'[j] = marked[j]
    BY <2>1 DEF MarkAside
  <2>12. Linked(r, v)
    BY <1>2, <2>2, <2>6, <2>8, <2>11 DEF Linked
  <2>13. /\ spoiled \subseteq spoiled'
         /\ Doubts(r, Put(req[r].wrote, {o}, NoRow), Olds(r, {o}), Lost(r, {o}))
              \subseteq spoiled'
         /\ req'[r].pc \in {"ops", "undo"}
         /\ v \in {NoRow, next} \/ (req[r].pc = "linking" /\ v = req[r].inst)
    BY <1>2, <2>1, <2>2, <2>5
  <2>14. Op(r, {o}, v, A, {})
    <3>1. /\ req[r].pc \in {"ops", "linking"} /\ UNCHANGED <<rows, known, left>>
          /\ req[r].kind \in {"save", "delete"} /\ req[r].kind # "delete"
          /\ req[r].kind = "save" => \A p \in {o} : Folder[p] = req[r].folder
          /\ req[r].seen => req[r].kind = "save" /\ {o} \cap req[r].unknown = {}
          /\ {o} \subseteq Objects /\ \A q \in Requests : {o} \cap W(q) = {}
      BY <1>2, <1>3
    <3>2. A \cup {} = A /\ req'[r].deleted = req[r].deleted \cup {}
      BY <2>6
    <3>3. \A p \in {o} : req'[r].wrote[p] = v
      BY <2>9
    <3>4. /\ files' \in [Instances -> {"none", "part", "whole"}]
          /\ marked' \in [Instances -> {"none", "part", "whole"}]
      BY <2>1 DEF MarkAside, TypeInv, TypeOK
    <3>5. spoiled' \subseteq Instances \X Reasons
      BY <1>3, <2>1, DoubtsType
    <3> HIDE DEF rec
    <3> QED
      BY <2>4, <2>5, <2>6, <2>7, <2>8, <2>9, <2>10, <2>11, <2>13, <3>1, <3>2, <3>3,
         <3>4, <3>5, Zenon DEF Op
  <2> QED
    BY <2>12, <2>14
<1> QED
  BY <1>6, <1>7

\* So is a deletion, of the objects that r sees rows of.
LEMMA DeleteEffect ==
  ASSUME TypeInv, KindInv, KnownInv, NEW r \in Requests,
         NEW S \in SUBSET Objects, DeleteAttachments(r, S)
  PROVE  \E T, D : Op(r, T, NoRow, {}, D) /\ Removed(r, NoRow)
<1>1. req[r] = [x \in Fields |-> req[r][x]]
  BY DEF TypeInv, Shape
<1>2. MayDo(r, {"save", "delete"}, S)
  BY DEF DeleteAttachments
<1>3. /\ req[r].pc = "ops" /\ req[r].kind \in {"save", "delete"} /\ S \cap W(r) = {}
      /\ req[r].kind = "save" => \A o \in S : Folder[o] = req[r].folder
      /\ req[r].kind = "save" => S \cap req[r].unknown = {}
      /\ req[r].kind = "delete" => req[r].ops = 0
      /\ \A q \in Requests : q # r => S \cap W(q) = {}
  <2>1. req[r].kind = "delete" => req[r].ops < 1
    BY <1>2 DEF MayDo
  <2>2. req[r].ops \in Nat
    BY DEF TypeInv, TypeOK
  <2> QED
    BY <1>2, <2>1, <2>2, Locked DEF MayDo, W
<1>4. req[r].seen => req[r].kind = "save" /\ S \cap req[r].unknown = {}
  BY <1>3 DEF KindInv
<1> DEFINE T == IF Olds(r, S) = {} THEN {} ELSE S
           wrote == Put(req[r].wrote, T, NoRow)
           gone == Lost(r, T)
           rec == [req[r] EXCEPT !.ops = @ + 1, !.seen = TRUE, !.view = Snapshot(r),
                                 !.wrote = wrote, !.deleted = @ \cup gone]
<1>5. /\ Set(r, rec)
      /\ spoiled' = spoiled \cup Doubts(r, wrote, Olds(r, T), gone)
      /\ UNCHANGED <<rows, files, marked, next, known, left>>
  <2> DEFINE sees == Over(Snapshot(r), req[r].wrote)
  <2>1. {sees[o] : o \in S} \ {NoRow} = Olds(r, S)
    BY <1>3, SeesSnapshot DEF Olds
  <2>2. CASE Olds(r, S) = {}
    <3>1. T = {} /\ Olds(r, T) = {}
      BY <2>2 DEF Olds
    <3> QED
      BY <2>1, <2>2, <3>1 DEF DeleteAttachments, Lost
  <2>3. CASE Olds(r, S) # {}
    <3>1. T = S
      BY <2>3
    <3> QED
      BY <2>1, <2>3, <3>1 DEF DeleteAttachments, Lost
  <2> QED
    BY <2>2, <2>3
<1>6. rec = [x \in Fields |-> rec[x]]
  BY <1>1
<1>7. req'[r] = rec /\ Alone(r) /\ Shape'
  <2> HIDE DEF rec
  <2> QED
    BY <1>5, <1>6, SetSets DEF TypeInv
<1>8. T \subseteq S
  OBVIOUS
<1> HIDE DEF T, gone
<1>9. /\ req'[r].pc = "ops" /\ req'[r].ops = req[r].ops + 1 /\ req'[r].view = Snapshot(r)
      /\ req'[r].wrote = Put(req[r].wrote, T, NoRow)
      /\ req'[r].new = req[r].new /\ req'[r].mark = req[r].mark \cup {}
      /\ req'[r].deleted = req[r].deleted \cup gone
      /\ Keeps(r, {"ops", "seen", "view", "wrote", "deleted"})
  BY <1>1, <1>3, <1>7 DEF Keeps, Fields
<1>10. req'[r].ops \in 1 .. MaxOps /\ req'[r].pc \in {"ops", "undo"}
  <2>1. req[r].ops < MaxOps
    BY <1>2, <1>3, AttachmentsAssumption DEF MayDo
  <2> QED
    BY <1>9, <2>1, AttachmentsAssumption DEF TypeInv, TypeOK
<1>11. /\ W(r)' = W(r) \cup T /\ \A p \in W(r) : req'[r].wrote[p] = req[r].wrote[p]
       /\ \A p \in T : req'[r].wrote[p] = NoRow
  BY <1>3, <1>8, <1>9, Zenon DEF W, Put
<1>12. Keeps(r, {"pc", "ops", "seen", "view", "wrote", "new", "mark", "deleted", "obj",
                 "inst"})
  BY <1>9 DEF Keeps
<1>13. Removed(r, NoRow)
  BY <1>5, <1>9 DEF Removed
<1>14. NoRow \notin Olds(r, T)
  BY DEF Olds
<1>15. /\ req[r].kind = "save" => \A o \in T : Folder[o] = req[r].folder
       /\ req[r].seen => req[r].kind = "save" /\ T \cap req[r].unknown = {}
       /\ T \subseteq Objects /\ \A q \in Requests : T \cap W(q) = {}
  BY <1>3, <1>4, <1>8
<1>16. Op(r, T, NoRow, {}, gone)
  <2>1. /\ files' \in [Instances -> {"none", "part", "whole"}]
        /\ marked' \in [Instances -> {"none", "part", "whole"}]
    BY <1>5 DEF TypeInv, TypeOK
  <2>2. spoiled' \subseteq Instances \X Reasons
    BY <1>5, <1>15, DoubtsType DEF gone
  <2> QED
    BY <1>3, <1>5, <1>7, <1>9, <1>10, <1>11, <1>12, <1>14, <1>15, <2>1, <2>2 DEF Op, gone
<1> QED
  BY <1>13, <1>16
\* An operation that replaces or removes rows.
Writes(r, S, v, A, D) ==
    Op(r, S, v, A, D) /\ (Stored(r, v) \/ Linked(r, v) \/ Removed(r, v))

\* Ids are instances, and those given out are below next.
LEMMA Ids ==
  ASSUME TypeInv
  PROVE  /\ known \subseteq Instances /\ NoRow \notin Instances /\ next \notin known
         /\ next \in Nat /\ next # NoRow
         /\ \A r \in Requests : /\ next \notin req[r].new \cup req[r].deleted \cup req[r].mark
                               /\ \A o \in W(r) : req[r].wrote[o] # next
         /\ \A r \in Requests : W(r) \subseteq Objects
BY AttachmentsAssumption DEF TypeInv, TypeOK, Instances, NoRow, W

\* Ids given out stay below the next id.
LEMMA Below ==
  ASSUME NEW m \in Nat, NEW n \in Nat, m <= n
  PROVE  /\ 1 .. m - 1 \subseteq 1 .. n - 1 /\ 0 .. m - 1 \subseteq 0 .. n - 1
         /\ 1 .. n - 1 \subseteq 0 .. n - 1 /\ (n >= 1 => 0 \in 0 .. n - 1)
         /\ n = m + 1 => /\ m \in 0 .. n - 1
                          /\ m >= 1 => m \in 1 .. n - 1
OBVIOUS

\* What such a step does to what the invariant speaks of.
LEMMA WritesFrame ==
  ASSUME AInv, NEW r \in Requests, NEW S, NEW v, NEW A, NEW D, Writes(r, S, v, A, D)
  PROVE  /\ A \cup D \subseteq Olds(r, S) /\ Olds(r, S) \subseteq known
         /\ Sound' \subseteq Sound /\ Sound' \subseteq Instances
         /\ \A q \in Requests : q # r =>
              req'[q] = req[q] /\ W(q)' = W(q) /\ Gone(q)' = Gone(q)
         /\ W(r)' = W(r) \cup S /\ Gone(r)' = Gone(r) \cup A \cup D
         /\ req'[r].kind = req[r].kind /\ req'[r].folder = req[r].folder
         /\ req'[r].unknown = req[r].unknown /\ req'[r].shared = req[r].shared
         /\ req'[r].failed = req[r].failed
         /\ req[r].new \subseteq req'[r].new /\ req'[r].new \subseteq req[r].new \cup {next}
         /\ \A i \in Instances : i \notin A /\ i # next =>
              files'[i] = files[i] /\ marked'[i] = marked[i]
         /\ \A i \in A : files'[i] = "none" /\ marked'[i] = files[i]
         /\ \/ v = NoRow
            \/ v = next /\ Stored(r, v)
            \/ v \in known /\ v = req[r].inst /\ req[r].pc = "linking" /\ files[v] # "none"
<1>1. TypeInv /\ KindInv /\ SeenInv /\ KnownInv
  BY DEF AInv
<1>2. Op(r, S, v, A, D)
  BY DEF Writes
<1>3. /\ Alone(r) /\ spoiled \subseteq spoiled' /\ A \cup D \subseteq Lost(r, S)
      /\ Keeps(r, {"pc", "ops", "seen", "view", "wrote", "new", "mark", "deleted", "obj",
                   "inst"})
      /\ W(r)' = W(r) \cup S
      /\ req'[r].mark = req[r].mark \cup A /\ req'[r].deleted = req[r].deleted \cup D
      /\ \A i \in Instances :
           /\ i \in A => files'[i] = "none" /\ marked'[i] = files[i]
           /\ i \notin A /\ i # next => files'[i] = files[i]
           /\ i \notin A => marked'[i] = marked[i]
  BY <1>2 DEF Op
<1>4. Lost(r, S) \subseteq Olds(r, S) /\ Olds(r, S) \subseteq known
  BY <1>1, <1>2, OpFacts
<1>5. Sound' \subseteq Sound /\ Sound' \subseteq Instances
  BY <1>3, Grows DEF Sound
<1>6. \A q \in Requests : q # r =>
        req'[q] = req[q] /\ W(q)' = W(q) /\ Gone(q)' = Gone(q)
  BY <1>3 DEF Alone, W, Gone
<1>7. Gone(r)' = Gone(r) \cup A \cup D
  BY <1>3 DEF Gone
<1>8. /\ req'[r].kind = req[r].kind /\ req'[r].folder = req[r].folder
      /\ req'[r].unknown = req[r].unknown /\ req'[r].shared = req[r].shared
      /\ req'[r].failed = req[r].failed
  BY <1>3 DEF Keeps, Fields
<1>9. req[r].new \subseteq req'[r].new /\ req'[r].new \subseteq req[r].new \cup {next}
  BY DEF Writes, Stored, Linked, Removed
<1>10. known \subseteq Instances
  BY <1>1, Ids
<1>11. \/ v = NoRow
       \/ v = next /\ Stored(r, v)
       \/ v \in known /\ v = req[r].inst /\ req[r].pc = "linking" /\ files[v] # "none"
  BY <1>1 DEF Writes, Linked, Removed, Stored, KnownInv
<1> QED
  BY <1>3, <1>4, <1>5, <1>6, <1>7, <1>8, <1>9, <1>10, <1>11

\* Each part of the invariant holds after the step.
LEMMA WritesType ==
  ASSUME AInv, NEW r \in Requests, NEW S, NEW v, NEW A, NEW D, Writes(r, S, v, A, D)
  PROVE  TypeInv'
<1>1. TypeInv /\ KnownInv /\ TypeOK
  BY DEF AInv, TypeInv
<1>2. /\ Shape' /\ UNCHANGED <<rows, known, left>>
      /\ files' \in [Instances -> {"none", "part", "whole"}]
      /\ marked' \in [Instances -> {"none", "part", "whole"}]
      /\ spoiled' \subseteq Instances \X Reasons
      /\ req'[r].pc \in {"ops", "undo"} /\ req'[r].ops \in 1 .. MaxOps
      /\ req'[r].view = req[r].view \/ req'[r].view = Snapshot(r)
      /\ S \subseteq Objects /\ req[r].kind \in {"save", "delete"}
      /\ \A o \in W(r) : req'[r].wrote[o] = req[r].wrote[o]
      /\ \A o \in S : req'[r].wrote[o] = v
      /\ req'[r].mark = req[r].mark \cup A /\ req'[r].deleted = req[r].deleted \cup D
  BY DEF Writes, Op
<1>3. /\ next' \in 1 .. MaxInstance + 1 /\ next' \in Nat /\ next \in Nat /\ next <= next'
      /\ next' >= 1
      /\ v = next => next' = next + 1
      /\ req'[r].new # req[r].new => next' = next + 1
  <2>1. CASE Stored(r, v)
    BY <1>1, <2>1, AttachmentsAssumption DEF Stored, Instances, TypeOK
  <2>2. CASE next' = next /\ req'[r].new = req[r].new /\ v # next
    BY <1>1, <2>2, AttachmentsAssumption DEF TypeOK
  <2>3. Linked(r, v) \/ Removed(r, v) => v # next
    BY <1>1, Ids DEF Linked, Removed, KnownInv
  <2> QED
    BY <2>1, <2>2, <2>3 DEF Writes, Linked, Removed
<1>5. known \subseteq 1 .. next' - 1
  BY <1>1, <1>3, Below DEF TypeOK
<1>4. ASSUME NEW q \in Requests
      PROVE  /\ req'[q].pc \in {"idle", "ops", "linking", "marked", "database", "undo",
                                "restore", "rollback"}
             /\ req'[q].kind \in {"save", "copy", "delete", None}
             /\ req'[q].ops \in 0 .. MaxOps
             /\ req'[q].view \in [Objects -> Instances \cup {NoRow}]
             /\ DOMAIN req'[q].wrote \cup req'[q].shared \cup req'[q].unknown \subseteq Objects
             /\ \A o \in DOMAIN req'[q].wrote : req'[q].wrote[o] \in 0 .. next' - 1
             /\ req'[q].new \cup req'[q].deleted \cup req'[q].mark \cup req'[q].failed
                  \subseteq 1 .. next' - 1
             /\ req'[q].pc = "idle" => req'[q] = Idle
  <2>1. CASE q # r
    BY <1>1, <1>3, <2>1, WritesFrame DEF TypeOK
  <2>2. CASE q = r
    <3>1. /\ req'[r].kind \in {"save", "delete"} /\ req'[r].shared \cup W(r) \subseteq Objects
          /\ req'[r].unknown \subseteq Objects /\ W(r)' = W(r) \cup S
      BY <1>1, <1>2, WritesFrame DEF TypeOK, W
    <3>2. req'[r].view \in [Objects -> Instances \cup {NoRow}]
      BY <1>1, <1>2 DEF TypeOK, Snapshot
    <3>3. \A o \in W(r) \cup S : req'[r].wrote[o] \in 0 .. next' - 1
      <4>1. \A o \in W(r) : req[r].wrote[o] \in 0 .. next' - 1
        BY <1>1, <1>3 DEF TypeOK, W
      <4>2. v \in 0 .. next' - 1
        <5>1. v = NoRow \/ v = next \/ v \in known
          BY WritesFrame
        <5>2. 0 \in 0 .. next' - 1 /\ \A i \in 1 .. next' - 1 : i \in 0 .. next' - 1
          BY <1>3, Below
        <5>3. v = next => v \in 0 .. next' - 1
          BY <1>3, Below
        <5> QED
          BY <1>5, <5>1, <5>2, <5>3 DEF NoRow
      <4> QED
        BY <1>2, <4>1, <4>2
    <3>4. req'[r].new \cup req'[r].deleted \cup req'[r].mark \cup req'[r].failed
            \subseteq 1 .. next' - 1
      <4>1. /\ A \cup D \subseteq known /\ req'[r].failed = req[r].failed
            /\ req'[r].new \subseteq req[r].new \cup {next}
        BY WritesFrame
      <4>2. A \cup D \subseteq 1 .. next' - 1
        BY <1>5, <4>1
      <4>3. req[r].new \cup req[r].deleted \cup req[r].mark \cup req[r].failed
              \subseteq 1 .. next' - 1
        BY <1>1, <1>3 DEF TypeOK
      <4>4. req'[r].new \subseteq 1 .. next' - 1
        BY <1>1, <1>3, <4>1, <4>3 DEF TypeOK
      <4> QED
        BY <1>2, <4>1, <4>2, <4>3, <4>4
    <3> QED
      BY <1>2, <2>2, <3>1, <3>2, <3>3, <3>4 DEF W
  <2> QED
    BY <2>1, <2>2
<1>6. TypeOK'
  BY <1>1, <1>2, <1>3, <1>4, <1>5 DEF TypeOK
<1> QED
  BY <1>2, <1>6 DEF TypeInv

\* Folders and kinds keep rows apart, and what r has seen is still so.
LEMMA WritesKind ==
  ASSUME AInv, NEW r \in Requests, NEW S, NEW v, NEW A, NEW D, Writes(r, S, v, A, D)
  PROVE  KindInv' /\ PairInv' /\ SeenInv'
<1>1. KindInv /\ PairInv /\ SeenInv
  BY DEF AInv
<1>2. /\ UNCHANGED <<rows, known, left>>
      /\ req[r].pc \in {"ops", "linking"} /\ req'[r].pc \in {"ops", "undo"}
      /\ req[r].kind \in {"save", "delete"} /\ req'[r].ops \in 1 .. MaxOps
      /\ req[r].kind = "save" => \A o \in S : Folder[o] = req[r].folder
      /\ req[r].kind = "delete" => v = NoRow
      /\ \/ req'[r].view = req[r].view /\ (req'[r].seen <=> req[r].seen)
         \/ req'[r].view = Snapshot(r)
      /\ S \subseteq Objects /\ \A q \in Requests : S \cap W(q) = {}
      /\ \A o \in W(r) : req'[r].wrote[o] = req[r].wrote[o]
      /\ \A o \in S : req'[r].wrote[o] = v
  BY DEF Writes, Op
<1>3. /\ \A q \in Requests : q # r =>
              req'[q] = req[q] /\ W(q)' = W(q) /\ Gone(q)' = Gone(q)
      /\ W(r)' = W(r) \cup S
      /\ req'[r].kind = req[r].kind /\ req'[r].folder = req[r].folder
      /\ req'[r].unknown = req[r].unknown
  BY WritesFrame
<1>4. KindInv'
  <2> SUFFICES ASSUME NEW q \in Requests
               PROVE  /\ req'[q].pc # "idle" => req'[q].kind \in {"save", "copy", "delete"}
                      /\ req'[q].kind = "save" => \A o \in W(q)' : Folder[o] = req'[q].folder
                      /\ req'[q].kind = "delete" => /\ \A o \in W(q)' : req'[q].wrote[o] = NoRow
                                                    /\ req'[q].ops = 0 => ~ req'[q].seen
                      /\ req'[q].kind = "copy" => Gone(q)' = {} /\ req'[q].new = {}
                      /\ req'[q].pc = "linking" =>
                           /\ req'[q].kind = "save" /\ req'[q].obj \in Objects
                           /\ Folder[req'[q].obj] = req'[q].folder
                           /\ req'[q].obj \notin req'[q].unknown \cup W(q)'
                           /\ req'[q].ops < MaxOps
    BY DEF KindInv
  <2>1. CASE q # r
    BY <1>1, <1>3, <2>1 DEF KindInv
  <2>2. CASE q = r
    BY <1>1, <1>2, <1>3, <2>2 DEF KindInv
  <2> QED
    BY <2>1, <2>2
<1>5. PairInv'
  BY <1>1, <1>2, <1>3 DEF PairInv
<1>6. SeenInv'
  <2> SUFFICES ASSUME NEW q \in Requests, NEW o \in Objects,
                      req'[q].kind = "save", req'[q].seen, Folder[o] = req'[q].folder,
                      o \notin req'[q].unknown \cup W(q)'
               PROVE  rows[o] \in {req'[q].view[o], NoRow}
    BY <1>2 DEF SeenInv
  <2>1. CASE q # r
    BY <1>1, <1>3, <2>1 DEF SeenInv
  <2>2. CASE q = r
    BY <1>1, <1>2, <1>3, <2>2 DEF SeenInv, Snapshot
  <2> QED
    BY <2>1, <2>2
<1> QED
  BY <1>4, <1>5, <1>6

\* Ids: what is gone was known, and what is new is not.
LEMMA WritesKnown ==
  ASSUME AInv, NEW r \in Requests, NEW S, NEW v, NEW A, NEW D, Writes(r, S, v, A, D)
  PROVE  KnownInv' /\ NewInv'
<1>1. TypeInv /\ KnownInv /\ NewInv
  BY DEF AInv
<1>2. /\ UNCHANGED <<rows, known, left>>
      /\ req[r].pc \in {"ops", "linking"} /\ req'[r].pc \in {"ops", "undo"}
      /\ \/ req'[r].view = req[r].view \/ req'[r].view = Snapshot(r)
      /\ \A o \in W(r) : req'[r].wrote[o] = req[r].wrote[o]
      /\ \A o \in S : req'[r].wrote[o] = v
  BY DEF Writes, Op
<1>3. /\ A \cup D \subseteq known
      /\ \A q \in Requests : q # r =>
              req'[q] = req[q] /\ W(q)' = W(q) /\ Gone(q)' = Gone(q)
      /\ W(r)' = W(r) \cup S /\ Gone(r)' = Gone(r) \cup A \cup D
      /\ req[r].new \subseteq req'[r].new /\ req'[r].new \subseteq req[r].new \cup {next}
      /\ \A i \in Instances : i \notin A /\ i # next =>
           files'[i] = files[i] /\ marked'[i] = marked[i]
      /\ \A i \in A : files'[i] = "none" /\ marked'[i] = files[i]
      /\ v = NoRow \/ (v = next /\ Stored(r, v)) \/ v \in known
  BY WritesFrame
<1>4. /\ known \subseteq Instances /\ next \notin known
      /\ \A q \in Requests : next \notin req[q].new
      /\ next \in Nat
  BY <1>1, Ids
<1>5. req'[r].new # req[r].new =>
        /\ Stored(r, v) /\ next' = next + 1 /\ next \in Instances
        /\ \E o \in W(r)' : req'[r].wrote[o] = next
        /\ req'[r].pc = "ops" <=> files'[next] = "whole"
  BY <1>2 DEF Writes, Stored, Linked, Removed, W
<1>6. \A i \in Instances : i >= next' =>
        files'[i] = "none" /\ marked'[i] = "none"
  <2> SUFFICES ASSUME NEW i \in Instances, i >= next'
               PROVE  files'[i] = "none" /\ marked'[i] = "none"
    OBVIOUS
  <2>1. i \in Int
    BY AttachmentsAssumption DEF Instances
  <2>2. i >= next /\ i \notin known
    <3>1. i >= next
      BY <1>4, <2>1 DEF Writes, Stored, Linked, Removed
    <3> QED
      BY <1>1, <2>1, <3>1 DEF TypeInv, TypeOK
  <2>3. files[i] = "none" /\ marked[i] = "none" /\ i \notin A
    BY <1>1, <1>3, <2>2 DEF NewInv
  <2>4. CASE i # next
    BY <1>3, <2>3, <2>4
  <2>5. CASE i = next
    <3>1. ~ Stored(r, v)
      BY <1>4, <2>5 DEF Stored
    <3>2. files'[i] = files[i]
      BY <2>5, <3>1 DEF Writes, Linked, Removed
    <3>3. marked'[i] = marked[i]
      BY <2>3 DEF Writes, Op
    <3> QED
      BY <2>3, <3>2, <3>3
  <2> QED
    BY <2>4, <2>5
<1>7. ASSUME NEW i \in known PROVE files'[i] # "part" /\ marked'[i] # "part"
  <2>1. i \in Instances /\ i # next /\ files[i] # "part" /\ marked[i] # "part"
    BY <1>1, <1>4 DEF KnownInv
  <2> QED
    BY <1>3, <2>1
<1>8. ASSUME NEW q \in Requests
      PROVE  /\ Gone(q)' \subseteq known
             /\ \A o \in Objects : req'[q].view[o] \in known \cup {NoRow}
             /\ req'[q].pc = "linking" => req'[q].inst \in known
             /\ req'[q].pc \in Acting =>
                 \A o \in W(q)' : req'[q].wrote[o] \in known \cup req'[q].new \cup {NoRow}
  <2>1. CASE q # r
    BY <1>1, <1>3, <2>1 DEF KnownInv
  <2>2. CASE q = r
    <3>1. Gone(r)' \subseteq known
      BY <1>1, <1>3 DEF KnownInv
    <3>2. \A o \in Objects : req'[r].view[o] \in known \cup {NoRow}
      BY <1>1, <1>2 DEF KnownInv, Snapshot
    <3>3. ASSUME req'[r].pc \in Acting, NEW o \in W(r)'
          PROVE  req'[r].wrote[o] \in known \cup req'[r].new \cup {NoRow}
      <4>1. CASE o \in W(r)
        BY <1>1, <1>2, <1>3, <4>1 DEF KnownInv, Acting
      <4>2. CASE o \in S
        <5>1. CASE v = next /\ Stored(r, v)
          <6>1. req'[r].pc = "ops"
            BY <1>2, <3>3 DEF Acting
          <6> QED
            BY <1>2, <4>2, <5>1, <6>1 DEF Stored
        <5> QED
          BY <1>2, <1>3, <4>2, <5>1
      <4> QED
        BY <1>3, <3>3, <4>1, <4>2
    <3> QED
      BY <1>2, <2>2, <3>1, <3>2, <3>3
  <2> QED
    BY <2>1, <2>2
<1>9. ASSUME NEW q \in Requests
      PROVE  /\ req'[q].new \cap known = {}
             /\ req'[q].pc \in Acting => \A i \in req'[q].new :
                  /\ \E o \in W(q)' : req'[q].wrote[o] = i
                  /\ files'[i] # "part" /\ marked'[i] # "part"
  <2>1. req'[q].new \cap known = {}
    BY <1>1, <1>3, <1>4 DEF NewInv
  <2>2. ASSUME req'[q].pc \in Acting, NEW i \in req'[q].new, i # next
        PROVE  /\ \E o \in W(q)' : req'[q].wrote[o] = i
               /\ files'[i] # "part" /\ marked'[i] # "part"
    <3>1. i \in req[q].new /\ req[q].pc \in Acting
      BY <1>2, <1>3, <2>2 DEF Acting
    <3>2. /\ \E o \in W(q) : req[q].wrote[o] = i
          /\ files[i] # "part" /\ marked[i] # "part" /\ i \notin known
      BY <1>1, <3>1 DEF NewInv
    <3>3. \E o \in W(q)' : req'[q].wrote[o] = i
      BY <1>2, <1>3, <3>2
    <3>4. i \in Instances
      BY <1>1, <3>1, AttachmentsAssumption DEF TypeInv, TypeOK, Instances
    <3> QED
      BY <1>3, <2>2, <3>2, <3>3, <3>4
  <2>3. ASSUME req'[q].pc \in Acting, next \in req'[q].new
        PROVE  /\ \E o \in W(q)' : req'[q].wrote[o] = next
               /\ files'[next] # "part" /\ marked'[next] # "part"
    <3>1. q = r /\ req'[r].new # req[r].new
      BY <1>3, <1>4, <2>3
    <3>2. files'[next] = "whole"
      BY <1>2, <1>5, <2>3, <3>1 DEF Acting
    <3>3. marked'[next] = marked[next] /\ marked[next] = "none"
      BY <1>1, <1>3, <1>4, <1>5, <3>1 DEF Writes, Op, NewInv
    <3> QED
      BY <1>5, <3>1, <3>2, <3>3
  <2> QED
    BY <2>1, <2>2, <2>3
<1>10. \A p, q \in Requests : p # q => req'[p].new \cap req'[q].new = {}
  BY <1>1, <1>3, <1>4 DEF NewInv
<1>11. KnownInv'
  BY <1>1, <1>2, <1>7, <1>8 DEF KnownInv
<1>12. NewInv'
  BY <1>2, <1>6, <1>9, <1>10 DEF NewInv
<1> QED
  BY <1>11, <1>12
\* Files are renamed or noted for deletion only with their last row.
LEMMA WritesGone ==
  ASSUME AInv, NEW r \in Requests, NEW S, NEW v, NEW A, NEW D, Writes(r, S, v, A, D)
  PROVE  GoneInv' /\ MarkInv' /\ DeletedInv'
<1>1. /\ TypeInv /\ KindInv /\ SeenInv /\ KnownInv /\ NewInv /\ GoneInv /\ MarkInv
      /\ DeletedInv /\ LeftInv
  BY DEF AInv
<1>2. /\ UNCHANGED <<rows, known, left>>
      /\ req[r].pc \in {"ops", "linking"} /\ req'[r].pc \in {"ops", "undo"}
      /\ \A o \in W(r) : req'[r].wrote[o] = req[r].wrote[o]
      /\ \A o \in S : req'[r].wrote[o] = v
      /\ v \notin Olds(r, S) /\ \A i \in A : files[i] # "none"
      /\ req'[r].mark = req[r].mark \cup A /\ req'[r].deleted = req[r].deleted \cup D
      /\ A \cup D \subseteq Lost(r, S)
      /\ files \in [Instances -> {"none", "part", "whole"}]
  BY <1>1 DEF Writes, Op, TypeInv, TypeOK
<1>3. /\ A \cup D \subseteq Olds(r, S) /\ Olds(r, S) \subseteq known
      /\ Sound' \subseteq Sound /\ Sound' \subseteq Instances
      /\ \A q \in Requests : q # r =>
              req'[q] = req[q] /\ W(q)' = W(q) /\ Gone(q)' = Gone(q)
      /\ W(r)' = W(r) \cup S /\ Gone(r)' = Gone(r) \cup A \cup D
      /\ \A i \in Instances : i \notin A /\ i # next =>
           files'[i] = files[i] /\ marked'[i] = marked[i]
      /\ \A i \in A : files'[i] = "none" /\ marked'[i] = files[i]
      /\ \/ v = NoRow
         \/ v = next /\ Stored(r, v)
         \/ v \in known /\ v = req[r].inst /\ req[r].pc = "linking" /\ files[v] # "none"
  BY WritesFrame
<1>4. /\ NoRow \notin Instances /\ next \notin known
      /\ \A q \in Requests : next \notin Gone(q) /\ Gone(q) \subseteq known
  BY <1>1, Ids DEF KnownInv
<1>5. ASSUME NEW i \in A \cup D, i \in Sound'
      PROVE  /\ \A o \in Objects : rows[o] = i => o \in W(r) \cup S
             /\ \A q \in Requests : \A o \in W(q) : req[q].wrote[o] # i
             /\ \A q \in Requests : q # r /\ req[q].pc = "linking" => req[q].inst # i
  <2>1. Op(r, S, v, A, D) /\ i \in Lost(r, S)
    BY <1>2, <1>5 DEF Writes
  <2> QED
    BY <1>1, <1>5, <2>1, OpFacts
<1>6. GoneInv'
  <2> SUFFICES ASSUME NEW q \in Requests, NEW i \in Sound', req'[q].pc \in Holding,
                      i \in Gone(q)'
               PROVE  /\ \A o \in Objects : rows[o] = i => o \in W(q)'
                      /\ \A p \in Requests : \A o \in W(p)' : req'[p].wrote[o] # i
                      /\ \A p \in Requests : req'[p].pc = "linking" => req'[p].inst # i
    BY <1>2 DEF GoneInv
  <2>1. \A o \in W(r)' : req'[r].wrote[o] = IF o \in S THEN v ELSE req[r].wrote[o]
    BY <1>2, <1>3 DEF Writes, Op
  <2>2. CASE i \in Gone(q)
    <3>1. /\ \A o \in Objects : rows[o] = i => o \in W(q)
          /\ \A p \in Requests : \A o \in W(p) : req[p].wrote[o] # i
          /\ \A p \in Requests : req[p].pc = "linking" => req[p].inst # i
      <4>1. req[q].pc \in Holding
        BY <1>2, <1>3 DEF Holding, Acting
      <4> QED
        BY <1>1, <1>3, <2>2, <4>1 DEF GoneInv
    <3>2. v # i
      BY <1>3, <1>4, <2>2, <3>1
    <3>3. W(q) \subseteq W(q)'
      BY <1>3
    <3>4. \A p \in Requests : \A o \in W(p)' : req'[p].wrote[o] # i
      BY <1>3, <2>1, <3>1, <3>2
    <3>5. \A p \in Requests : req'[p].pc = "linking" => req'[p].inst # i
      BY <1>2, <1>3, <3>1
    <3> QED
      BY <3>1, <3>3, <3>4, <3>5
  <2>3. CASE i \notin Gone(q)
    <3>1. q = r /\ i \in A \cup D /\ i \in Olds(r, S)
      BY <1>3, <2>3
    <3>2. /\ \A o \in Objects : rows[o] = i => o \in W(r) \cup S
          /\ \A p \in Requests : \A o \in W(p) : req[p].wrote[o] # i
          /\ \A p \in Requests : p # r /\ req[p].pc = "linking" => req[p].inst # i
      BY <1>5, <3>1
    <3>3. v # i
      BY <1>2, <3>1
    <3>4. \A p \in Requests : \A o \in W(p)' : req'[p].wrote[o] # i
      BY <1>3, <2>1, <3>2, <3>3
    <3>5. \A p \in Requests : req'[p].pc = "linking" => req'[p].inst # i
      BY <1>2, <1>3, <3>2
    <3> QED
      BY <1>3, <3>1, <3>2, <3>4, <3>5
  <2> QED
    BY <2>2, <2>3
<1>7. MarkInv'
  <2> SUFFICES ASSUME NEW q \in Requests, NEW i \in Sound', req'[q].pc \in Holding,
                      i \in req'[q].mark
               PROVE  /\ \E o \in Objects : rows[o] = i
                      /\ files'[i] = "none"
                      /\ req'[q].pc # "database" => marked'[i] = "whole"
                      /\ req'[q].pc = "database" => marked'[i] = "none"
    BY <1>2 DEF MarkInv
  <2>1. CASE i \in req[q].mark
    <3>1. req[q].pc \in Holding /\ (req[q].pc = "database" <=> req'[q].pc = "database")
      BY <1>2, <1>3 DEF Holding, Acting
    <3>2. /\ \E o \in Objects : rows[o] = i
          /\ files[i] = "none"
          /\ req[q].pc # "database" => marked[i] = "whole"
          /\ req[q].pc = "database" => marked[i] = "none"
      BY <1>1, <1>3, <2>1, <3>1 DEF MarkInv
    <3>3. i \notin A /\ i # next /\ i \in Instances
      BY <1>2, <1>3, <1>4, <2>1, <3>2 DEF Gone
    <3> QED
      BY <1>3, <3>1, <3>2, <3>3
  <2>2. CASE i \notin req[q].mark
    <3>1. q = r /\ i \in A
      BY <1>2, <1>3, <2>2
    <3>2. files[i] = "whole"
      BY <1>1, <1>2, <1>3, <3>1 DEF KnownInv
    <3>3. \E o \in Objects : rows[o] = i
      BY <1>1, <1>3, <3>1, <3>2 DEF LeftInv, NewInv
    <3> QED
      BY <1>2, <1>3, <3>1, <3>2, <3>3
  <2> QED
    BY <2>1, <2>2
<1>8. DeletedInv'
  <2> SUFFICES ASSUME NEW q \in Requests
               PROVE  /\ req'[q].pc = "database" => req'[q].failed = {}
                      /\ req'[q].pc \in {"marked", "database"} =>
                          \A i \in Sound' \cap req'[q].deleted :
                            i \notin req'[q].failed => files'[i] = "none"
    BY DEF DeletedInv
  <2>1. CASE q = r
    BY <1>2, <2>1
  <2>2. ASSUME q # r, req[q].pc \in {"marked", "database"},
               NEW i \in Sound' \cap req[q].deleted, i \notin req[q].failed
        PROVE  files'[i] = "none"
    <3>1. files[i] = "none" /\ i # next /\ i \in Instances
      BY <1>1, <1>3, <1>4, <2>2 DEF DeletedInv, Gone
    <3> QED
      BY <1>3, <3>1
  <2> QED
    BY <1>1, <1>3, <2>1, <2>2 DEF DeletedInv
<1> QED
  BY <1>6, <1>7, <1>8

\* Rows go with their file, or leave another row; one request removes them.
LEMMA WritesLast ==
  ASSUME AInv, NEW r \in Requests, NEW S, NEW v, NEW A, NEW D, Writes(r, S, v, A, D)
  PROVE  LastInv' /\ SoleInv'
<1>1. /\ TypeInv /\ KindInv /\ SeenInv /\ KnownInv /\ GoneInv /\ LastInv /\ SoleInv
      /\ RowInv
  BY DEF AInv
<1>2. /\ UNCHANGED <<rows, known, left>> /\ Op(r, S, v, A, D)
      /\ req[r].pc \in {"ops", "linking"} /\ req'[r].pc \in {"ops", "undo"}
      /\ \A o \in W(r) : req'[r].wrote[o] = req[r].wrote[o]
      /\ \A o \in S : req'[r].wrote[o] = v
      /\ \A i \in Lost(r, S) : files[i] # "none" => i \in A \cup D
      /\ \A q \in Requests : S \cap W(q) = {}
  BY <1>1 DEF Writes, Op
<1>3. /\ Sound' \subseteq Sound /\ Sound' \subseteq Instances /\ NoRow \notin Instances
      /\ \A q \in Requests : q # r =>
              req'[q] = req[q] /\ W(q)' = W(q) /\ Gone(q)' = Gone(q)
      /\ W(r)' = W(r) \cup S /\ Gone(r)' = Gone(r) \cup A \cup D
  BY <1>1, WritesFrame, Ids
<1>4. ASSUME NEW o \in S, NEW i \in Sound', rows[o] = i
      PROVE  i \in Olds(r, S)
  BY <1>1, <1>2, <1>3, <1>4, OpFacts
<1>5. ASSUME NEW i \in Sound', i \in Olds(r, S), NEW o \in Objects, rows[o] = i
      PROVE  \/ i \in Gone(r)'
             \/ \E p \in Objects : \/ p \notin W(r)' /\ rows[p] = i
                                   \/ p \in W(r)' /\ req'[r].wrote[p] = i
  <2>1. CASE i \notin Lost(r, S)
    <3>1. PICK p \in Objects : \/ p \notin W(r) \cup S /\ rows[p] = i
                               \/ p \in W(r) /\ req[r].wrote[p] = i
      BY <1>1, <1>2, <1>5, <2>1, OpFacts
    <3> QED
      BY <1>2, <1>3, <3>1
  <2>2. CASE i \in Lost(r, S) /\ files[i] # "none"
    BY <1>2, <1>3, <2>2
  <2>3. CASE files[i] = "none"
    <3>1. PICK q \in Requests : i \in Gone(q) /\ req[q].pc \in Holding
      BY <1>1, <1>3, <1>5, <2>3 DEF RowInv, Gone, Holding, Acting
    <3>2. o \in W(q)
      BY <1>1, <1>3, <1>5, <3>1 DEF GoneInv
    <3>3. q = r
      BY <1>1, <1>2, <1>5, <3>2, OpFacts
    <3> QED
      BY <1>3, <3>1, <3>3
  <2> QED
    BY <2>1, <2>2, <2>3
<1>6. ASSUME NEW q \in Requests, NEW i \in Sound', NEW o \in Objects,
             req'[q].pc \in Acting, o \in W(q)', rows[o] = i, req'[q].wrote[o] # i
      PROVE  \/ i \in Gone(q)'
             \/ \E p \in Objects : \/ p \notin W(q)' /\ rows[p] = i
                                   \/ p \in W(q)' /\ req'[q].wrote[p] = i
  <2>1. CASE q # r
    BY <1>1, <1>3, <1>6, <2>1 DEF LastInv, Removes
  <2>2. CASE q = r /\ o \in W(r)
    <3>1. Removes(r, o, i) /\ req[r].pc \in Acting
      BY <1>2, <1>6, <2>2 DEF Removes, Acting
    <3>2. \/ i \in Gone(r)
          \/ \E p \in Objects : \/ p \notin W(r) /\ rows[p] = i
                                \/ p \in W(r) /\ req[r].wrote[p] = i
      BY <1>1, <1>3, <3>1 DEF LastInv
    <3>3. CASE \E p \in S : rows[p] = i
      BY <1>4, <1>5, <1>6, <2>2, <3>3
    <3>4. CASE ~ \E p \in S : rows[p] = i
      BY <1>2, <1>3, <2>2, <3>2, <3>4
    <3> QED
      BY <3>3, <3>4
  <2>3. CASE q = r /\ o \in S
    BY <1>4, <1>5, <1>6, <2>3
  <2> QED
    BY <1>3, <1>6, <2>1, <2>2, <2>3
<1>7. LastInv'
  BY <1>2, <1>6 DEF LastInv, Removes
<1>8. ASSUME NEW q \in Requests, q # r, NEW i \in Sound', NEW o \in Objects, NEW p \in Objects,
             req'[r].pc \in Acting, req'[q].pc \in Acting,
             o \in W(r)', rows[o] = i, req'[r].wrote[o] # i,
             p \in W(q)', rows[p] = i, req'[q].wrote[p] # i
      PROVE  FALSE
  <2>1. p \in W(q) /\ req[q].wrote[p] # i /\ req[q].pc \in Acting
    BY <1>3, <1>8
  <2>2. CASE o \in W(r)
    <3>1. req[r].pc \in Acting /\ req[r].wrote[o] # i
      BY <1>2, <1>8, <2>2 DEF Acting
    <3> QED
      BY <1>1, <1>3, <1>8, <2>1, <2>2, <3>1 DEF SoleInv, Removes
  <2>3. CASE o \in S
    <3>1. i \in Olds(r, S)
      BY <1>4, <1>8, <2>3
    <3> QED
      BY <1>1, <1>2, <1>8, <2>1, <3>1, OpFacts
  <2> QED
    BY <1>3, <1>8, <2>2, <2>3
<1>9. ASSUME NEW q \in Requests, NEW u \in Requests, q # r, u # r, q # u,
             NEW i \in Sound', NEW o \in Objects, NEW p \in Objects,
             req'[u].pc \in Acting, req'[q].pc \in Acting,
             o \in W(u)', rows[o] = i, req'[u].wrote[o] # i,
             p \in W(q)', rows[p] = i, req'[q].wrote[p] # i
      PROVE  FALSE
  BY <1>1, <1>3, <1>9 DEF SoleInv, Removes
<1>10. SoleInv'
  <2> SUFFICES ASSUME NEW q \in Requests, NEW u \in Requests, NEW i \in Sound',
                      NEW o \in Objects, NEW p \in Objects, q # u,
                      req'[u].pc \in Acting, req'[q].pc \in Acting,
                      o \in W(u)', rows[o] = i, req'[u].wrote[o] # i,
                      p \in W(q)', rows[p] = i, req'[q].wrote[p] # i
               PROVE  FALSE
    BY <1>2 DEF SoleInv, Removes
  <2> QED
    BY <1>8, <1>9
<1> QED
  BY <1>7, <1>10

\* Rows and files agree.
LEMMA WritesRows ==
  ASSUME AInv, NEW r \in Requests, NEW S, NEW v, NEW A, NEW D, Writes(r, S, v, A, D)
  PROVE  LeftInv' /\ RowInv' /\ WroteInv'
<1>1. /\ TypeInv /\ KindInv /\ SeenInv /\ KnownInv /\ NewInv /\ LeftInv /\ RowInv
      /\ WroteInv
  BY DEF AInv
<1>2. /\ UNCHANGED <<rows, known, left>> /\ Op(r, S, v, A, D)
      /\ req[r].pc \in {"ops", "linking"} /\ req'[r].pc \in {"ops", "undo"}
      /\ \A o \in W(r) : req'[r].wrote[o] = req[r].wrote[o]
      /\ \A o \in S : req'[r].wrote[o] = v
      /\ req'[r].mark = req[r].mark \cup A
      /\ v \notin Olds(r, S) /\ A \subseteq Lost(r, S)
      /\ marked \in [Instances -> {"none", "part", "whole"}]
      /\ files \in [Instances -> {"none", "part", "whole"}]
  BY <1>1 DEF Writes, Op, TypeInv, TypeOK
<1>3. /\ A \subseteq Olds(r, S) /\ A \subseteq known
      /\ Sound' \subseteq Sound /\ Sound' \subseteq Instances
      /\ \A q \in Requests : q # r =>
              req'[q] = req[q] /\ W(q)' = W(q) /\ Gone(q)' = Gone(q)
      /\ W(r)' = W(r) \cup S
      /\ req[r].new \subseteq req'[r].new
      /\ \A i \in Instances : i \notin A /\ i # next =>
           files'[i] = files[i] /\ marked'[i] = marked[i]
      /\ \A i \in A : files'[i] = "none" /\ marked'[i] = files[i]
      /\ \/ v = NoRow
         \/ v = next /\ Stored(r, v)
         \/ v \in known /\ v = req[r].inst /\ req[r].pc = "linking" /\ files[v] # "none"
  BY WritesFrame
<1>4. /\ known \subseteq Instances /\ NoRow \notin Instances /\ next \notin known
      /\ \A q \in Requests : \A o \in W(q) : req[q].wrote[o] # next
      /\ \A o \in Objects : rows[o] \in known \cup {NoRow}
  BY <1>1, Ids DEF KnownInv
<1>5. LeftInv'
  <2> SUFFICES ASSUME NEW i \in Sound'
               PROVE  /\ files'[i] # "none" =>
                          \/ \E o \in Objects : rows[o] = i
                          \/ \E q \in Requests : i \in req'[q].new
                                                 /\ req'[q].pc \in Acting \cup {"undo"}
                      /\ marked'[i] # "none" =>
                          \E q \in Requests : i \in req'[q].mark
                                              /\ req'[q].pc \in Holding \ {"database"}
    BY <1>2 DEF LeftInv
  <2>1. i \in Sound /\ i \in Instances
    BY <1>3
  <2>2. ASSUME files'[i] # "none", files[i] # "none"
        PROVE  \/ \E o \in Objects : rows[o] = i
               \/ \E q \in Requests : i \in req'[q].new /\ req'[q].pc \in Acting \cup {"undo"}
    <3>1. CASE \E o \in Objects : rows[o] = i
      BY <3>1
    <3>2. ASSUME NEW q \in Requests, i \in req[q].new, req[q].pc \in Acting \cup {"undo"}
          PROVE  i \in req'[q].new /\ req'[q].pc \in Acting \cup {"undo"}
      BY <1>2, <1>3, <3>2 DEF Acting
    <3> QED
      BY <1>1, <2>1, <2>2, <3>1, <3>2 DEF LeftInv
  <2>3. ASSUME files'[i] # "none", files[i] = "none"
        PROVE  \E q \in Requests : i \in req'[q].new /\ req'[q].pc \in Acting \cup {"undo"}
    <3>1. i = next
      BY <1>3, <2>1, <2>3
    <3>2. Stored(r, v)
      BY <2>1, <2>3, <3>1 DEF Writes, Linked, Removed
    <3> QED
      BY <1>2, <2>3, <3>1, <3>2 DEF Stored, Acting
  <2>4. ASSUME marked'[i] # "none"
        PROVE  \E q \in Requests : i \in req'[q].mark /\ req'[q].pc \in Holding \ {"database"}
    <3>1. CASE i \in A
      BY <1>2, <3>1 DEF Holding, Acting
    <3>2. CASE i \notin A
      <4>1. marked[i] # "none"
        BY <1>2, <2>1, <2>4, <3>2 DEF Op
      <4>2. PICK q \in Requests : i \in req[q].mark /\ req[q].pc \in Holding \ {"database"}
        BY <1>1, <2>1, <4>1 DEF LeftInv
      <4>3. i \in req'[q].mark /\ req'[q].pc \in Holding \ {"database"}
        BY <1>2, <1>3, <4>2 DEF Holding, Acting
      <4> QED
        BY <4>3
    <3> QED
      BY <3>1, <3>2
  <2> QED
    BY <2>2, <2>3, <2>4
<1>6. RowInv'
  <2> SUFFICES ASSUME NEW i \in Sound', NEW o \in Objects, rows[o] = i
               PROVE  \/ files'[i] = "whole"
                      \/ \E q \in Requests : i \in req'[q].mark /\ req'[q].pc \in Holding
                      \/ \E q \in Requests : /\ i \in req'[q].deleted
                                             /\ req'[q].pc \in {"marked", "database"}
    BY <1>2 DEF RowInv
  <2>1. i \in Sound /\ i \in Instances /\ i # next
    BY <1>3, <1>4
  <2>2. CASE i \in A
    BY <1>2, <2>2 DEF Holding, Acting
  <2>3. CASE i \notin A /\ files[i] = "whole"
    BY <1>3, <2>1, <2>3
  <2>4. ASSUME NEW q \in Requests, i \in req[q].mark, req[q].pc \in Holding
        PROVE  i \in req'[q].mark /\ req'[q].pc \in Holding
    BY <1>2, <1>3, <2>4 DEF Holding, Acting
  <2>5. ASSUME NEW q \in Requests, i \in req[q].deleted, req[q].pc \in {"marked", "database"}
        PROVE  i \in req'[q].deleted /\ req'[q].pc \in {"marked", "database"}
    BY <1>2, <1>3, <2>5
  <2> QED
    BY <1>1, <2>1, <2>2, <2>3, <2>4, <2>5 DEF RowInv
<1>7. WroteInv'
  <2> SUFFICES ASSUME NEW i \in Sound', NEW q \in Requests, NEW o \in W(q)',
                      req'[q].pc \in Acting, req'[q].wrote[o] = i
               PROVE  files'[i] = "whole"
    BY DEF WroteInv
  <2>1. i \in Sound /\ i \in Instances /\ i # NoRow
    BY <1>3, <1>4
  <2>2. ASSUME o \in W(q), req[q].wrote[o] = i, req[q].pc \in Acting
        PROVE  files'[i] = "whole"
    <3>1. files[i] = "whole" /\ i # next
      BY <1>1, <1>4, <2>1, <2>2 DEF WroteInv
    <3>2. i \notin A
      <4> SUFFICES ASSUME i \in A PROVE FALSE
        OBVIOUS
      <4>1. i \in Lost(r, S) /\ i \in Olds(r, S)
        BY <1>2, <1>3
      <4>2. CASE q = r
        BY <1>1, <1>2, <2>2, <4>1, <4>2, OpFacts
      <4>3. CASE q # r
        BY <1>1, <1>2, <2>2, <4>1, <4>3, OpFacts
      <4> QED
        BY <4>2, <4>3
    <3> QED
      BY <1>3, <2>1, <3>1, <3>2
  <2>3. CASE q # r
    BY <1>3, <2>2, <2>3
  <2>4. CASE q = r /\ o \in W(r)
    BY <1>2, <2>2, <2>4 DEF Acting
  <2>5. CASE q = r /\ o \in S
    <3>1. v = i
      BY <1>2, <2>5
    <3>2. CASE v = next /\ Stored(r, v)
      BY <1>2, <2>5, <3>1, <3>2 DEF Stored, Acting
    <3>3. CASE v \in known /\ files[v] # "none"
      <4>1. files[i] = "whole" /\ i # next /\ i \notin A
        BY <1>1, <1>2, <1>3, <1>4, <2>1, <3>1, <3>3 DEF KnownInv
      <4> QED
        BY <1>3, <2>1, <4>1
    <3> QED
      BY <1>3, <2>1, <3>1, <3>2, <3>3
  <2> QED
    BY <1>3, <2>3, <2>4, <2>5
<1> QED
  BY <1>5, <1>6, <1>7

\* An operation keeps the invariant.
LEMMA WritesKeeps ==
  ASSUME AInv, NEW r \in Requests, NEW S, NEW v, NEW A, NEW D, Writes(r, S, v, A, D)
  PROVE  AInv'
BY WritesType, WritesKind, WritesKnown, WritesGone, WritesLast, WritesRows DEF AInv
--------------------------------------------------------------------------------
(* The steps that touch no file and no committed row.                          *)

\* r moves on, or leaves, with its files and rows as they are: no file of it is
\* forgotten, but for spoiled ones, and none becomes its own.
Moves(r) ==
    /\ Alone(r) /\ spoiled \subseteq spoiled'
    /\ UNCHANGED <<rows, files, marked, next, known>>
    /\ \/ /\ req'[r].wrote = req[r].wrote /\ req'[r].new = req[r].new
          /\ req'[r].mark = req[r].mark /\ req'[r].deleted = req[r].deleted
       \/ /\ W(r)' = {} /\ req'[r].new = {}
          /\ req'[r].mark = {} /\ req'[r].deleted = {}
    /\ \A o \in Objects : req'[r].view[o] \in known \cup {NoRow}
    /\ req'[r].pc \in Acting => req[r].pc \in Acting \/ (W(r) = {} /\ req[r].new = {})
    /\ req'[r].pc \notin {"marked", "database"}
    /\ req'[r].pc = "linking" => /\ req'[r].inst \in known
                                 /\ \A q \in Requests : req'[r].inst \in Sound' =>
                                        ~ (req[q].pc \in Holding /\ req'[r].inst \in Gone(q))
    /\ \A i \in Sound' :
         /\ i \in Gone(r) => /\ req'[r].pc \in Holding => req[r].pc \in Holding
                             /\ req[r].pc # "database"
         /\ i \in req[r].new /\ req[r].pc \in Acting \cup {"undo"} =>
              req'[r].new = req[r].new /\ req'[r].pc \in Acting \cup {"undo"}
         /\ i \in req[r].mark /\ req[r].pc \in Holding =>
              req'[r].mark = req[r].mark /\ req'[r].pc \in Holding
         /\ i \in req[r].deleted => req[r].pc \notin {"marked", "database"}

\* Such a step keeps what the invariant says of rows and files.
LEMMA MovesKeep ==
  ASSUME AInv, NEW r \in Requests, Moves(r), TypeInv', KindInv', PairInv', SeenInv'
  PROVE  AInv'
<1>1. /\ TypeInv /\ KnownInv /\ NewInv /\ GoneInv /\ MarkInv /\ DeletedInv /\ LastInv
      /\ SoleInv /\ LeftInv /\ RowInv /\ WroteInv
  BY DEF AInv
<1>2. /\ UNCHANGED <<rows, files, marked, next, known>> /\ Sound' \subseteq Sound
      /\ Sound' \subseteq Instances /\ Alone(r)
      /\ \A q \in Requests : q # r =>
           req'[q] = req[q] /\ W(q)' = W(q) /\ Gone(q)' = Gone(q)
      /\ \/ /\ req'[r].wrote = req[r].wrote /\ req'[r].new = req[r].new
            /\ req'[r].mark = req[r].mark /\ req'[r].deleted = req[r].deleted
            /\ W(r)' = W(r) /\ Gone(r)' = Gone(r)
         \/ /\ W(r)' = {} /\ req'[r].new = {} /\ Gone(r)' = {}
            /\ req'[r].mark = {} /\ req'[r].deleted = {}
  BY Grows DEF Moves, Alone, W, Gone, Sound
<1>3. KnownInv'
  <2>1. ASSUME NEW q \in Requests
        PROVE  /\ Gone(q)' \subseteq known
               /\ \A o \in Objects : req'[q].view[o] \in known \cup {NoRow}
               /\ req'[q].pc = "linking" => req'[q].inst \in known
               /\ req'[q].pc \in Acting =>
                    \A o \in W(q)' : req'[q].wrote[o] \in known \cup req'[q].new \cup {NoRow}
    <3>1. CASE q # r
      BY <1>1, <1>2, <3>1 DEF KnownInv
    <3>2. CASE q = r
      BY <1>1, <1>2, <3>2 DEF KnownInv, Moves
    <3> QED
      BY <3>1, <3>2
  <2> QED
    BY <1>1, <1>2, <2>1 DEF KnownInv
<1>4. NewInv'
  <2>1. ASSUME NEW q \in Requests
        PROVE  /\ req'[q].new \cap known = {}
               /\ req'[q].pc \in Acting => \A i \in req'[q].new :
                    /\ \E o \in W(q)' : req'[q].wrote[o] = i
                    /\ files[i] # "part" /\ marked[i] # "part"
    <3>1. CASE q # r
      BY <1>1, <1>2, <3>1 DEF NewInv
    <3>2. CASE q = r
      BY <1>1, <1>2, <3>2 DEF NewInv, Moves
    <3> QED
      BY <3>1, <3>2
  <2>2. \A p, q \in Requests : p # q => req'[p].new \cap req'[q].new = {}
    BY <1>1, <1>2 DEF NewInv
  <2> QED
    BY <1>1, <1>2, <2>1, <2>2 DEF NewInv
<1>5. ASSUME NEW q \in Requests, NEW i \in Sound', req'[q].pc \in Holding, i \in Gone(q)'
      PROVE  req[q].pc \in Holding /\ i \in Gone(q)
  BY <1>2, <1>5 DEF Moves
<1>6. GoneInv'
  <2> SUFFICES ASSUME NEW q \in Requests, NEW i \in Sound', req'[q].pc \in Holding,
                      i \in Gone(q)'
               PROVE  /\ \A o \in Objects : rows[o] = i => o \in W(q)'
                      /\ \A p \in Requests : \A o \in W(p)' : req'[p].wrote[o] # i
                      /\ \A p \in Requests : req'[p].pc = "linking" => req'[p].inst # i
    BY <1>2 DEF GoneInv
  <2>1. req[q].pc \in Holding /\ i \in Gone(q) /\ i \in Sound
    BY <1>2, <1>5
  <2>2. /\ \A o \in Objects : rows[o] = i => o \in W(q)
        /\ \A p \in Requests : \A o \in W(p) : req[p].wrote[o] # i
        /\ \A p \in Requests : req[p].pc = "linking" => req[p].inst # i
    BY <1>1, <2>1 DEF GoneInv
  <2>3. W(q)' = W(q)
    BY <1>2
  <2>4. req'[r].pc = "linking" => req'[r].inst # i
    BY <2>1 DEF Moves
  <2>5. \A p \in Requests : \A o \in W(p)' : req'[p].wrote[o] # i
    BY <1>2, <2>2
  <2> QED
    BY <1>2, <2>2, <2>3, <2>4, <2>5
<1>7. MarkInv'
  <2> SUFFICES ASSUME NEW q \in Requests, NEW i \in Sound', req'[q].pc \in Holding,
                      i \in req'[q].mark
               PROVE  /\ \E o \in Objects : rows[o] = i
                      /\ files[i] = "none"
                      /\ req'[q].pc # "database" => marked[i] = "whole"
                      /\ req'[q].pc = "database" => marked[i] = "none"
    BY <1>2 DEF MarkInv
  <2>1. req[q].pc \in Holding /\ i \in req[q].mark
    BY <1>2, <1>5 DEF Gone
  <2>2. req'[q].pc = "database" <=> req[q].pc = "database"
    BY <1>2, <2>1 DEF Moves, Gone
  <2> QED
    BY <1>1, <1>2, <2>1, <2>2 DEF MarkInv
<1>8. DeletedInv'
  <2> SUFFICES ASSUME NEW q \in Requests
               PROVE  /\ req'[q].pc = "database" => req'[q].failed = {}
                      /\ req'[q].pc \in {"marked", "database"} =>
                          \A i \in Sound' \cap req'[q].deleted :
                            i \notin req'[q].failed => files[i] = "none"
    BY <1>2 DEF DeletedInv
  <2>1. CASE q = r
    BY <2>1 DEF Moves
  <2>2. CASE q # r
    BY <1>1, <1>2, <2>2 DEF DeletedInv
  <2> QED
    BY <2>1, <2>2
<1>9. ASSUME NEW q \in Requests, NEW o \in Objects, NEW i, req'[q].pc \in Acting,
             o \in W(q)', rows[o] = i, req'[q].wrote[o] # i
      PROVE  req[q].pc \in Acting /\ Removes(q, o, i)
  <2>1. CASE q = r
    BY <1>2, <1>9, <2>1 DEF Moves, Removes
  <2>2. CASE q # r
    BY <1>2, <1>9, <2>2 DEF Removes
  <2> QED
    BY <2>1, <2>2
<1>10. LastInv'
  <2> SUFFICES ASSUME NEW q \in Requests, NEW i \in Sound', NEW o \in Objects,
                      req'[q].pc \in Acting, o \in W(q)', rows[o] = i, req'[q].wrote[o] # i
               PROVE  \/ i \in Gone(q)'
                      \/ \E p \in Objects : \/ p \notin W(q)' /\ rows[p] = i
                                            \/ p \in W(q)' /\ req'[q].wrote[p] = i
    BY <1>2 DEF LastInv, Removes
  <2>1. \/ i \in Gone(q)
        \/ \E p \in Objects : \/ p \notin W(q) /\ rows[p] = i
                              \/ p \in W(q) /\ req[q].wrote[p] = i
    BY <1>1, <1>2, <1>9 DEF LastInv
  <2> QED
    BY <1>2, <2>1
<1>11. SoleInv'
  <2> SUFFICES ASSUME NEW q \in Requests, NEW u \in Requests, NEW i \in Sound',
                      NEW o \in Objects, NEW p \in Objects, q # u,
                      req'[u].pc \in Acting, req'[q].pc \in Acting,
                      o \in W(u)', rows[o] = i, req'[u].wrote[o] # i,
                      p \in W(q)', rows[p] = i, req'[q].wrote[p] # i
               PROVE  FALSE
    BY <1>2 DEF SoleInv, Removes
  <2>1. Removes(u, o, i) /\ Removes(q, p, i) /\ req[u].pc \in Acting /\ req[q].pc \in Acting
    BY <1>9
  <2> QED
    BY <1>1, <1>2, <2>1 DEF SoleInv
<1>12. ASSUME NEW q \in Requests, NEW i \in Sound', i \in req[q].mark, req[q].pc \in Holding
       PROVE  i \in req'[q].mark /\ req'[q].pc \in Holding
  BY <1>2, <1>12 DEF Moves
<1>13. LeftInv'
  <2> SUFFICES ASSUME NEW i \in Sound'
               PROVE  /\ files[i] # "none" =>
                          \/ \E o \in Objects : rows[o] = i
                          \/ \E q \in Requests : i \in req'[q].new
                                                 /\ req'[q].pc \in Acting \cup {"undo"}
                      /\ marked[i] # "none" =>
                          \E q \in Requests : i \in req'[q].mark
                                              /\ req'[q].pc \in Holding \ {"database"}
    BY <1>2 DEF LeftInv
  <2>1. ASSUME NEW q \in Requests, i \in req[q].new, req[q].pc \in Acting \cup {"undo"}
        PROVE  i \in req'[q].new /\ req'[q].pc \in Acting \cup {"undo"}
    BY <1>2, <2>1 DEF Moves
  <2>2. ASSUME NEW q \in Requests, i \in req[q].mark, req[q].pc \in Holding \ {"database"}
        PROVE  i \in req'[q].mark /\ req'[q].pc \in Holding \ {"database"}
    <3>1. i \in req'[q].mark /\ req'[q].pc \in Holding
      BY <1>12, <2>2
    <3>2. req'[q].pc # "database"
      BY <1>2, <2>2 DEF Moves
    <3> QED
      BY <3>1, <3>2
  <2> QED
    BY <1>1, <1>2, <2>1, <2>2 DEF LeftInv
<1>14. RowInv'
  <2> SUFFICES ASSUME NEW i \in Sound', NEW o \in Objects, rows[o] = i
               PROVE  \/ files[i] = "whole"
                      \/ \E q \in Requests : i \in req'[q].mark /\ req'[q].pc \in Holding
                      \/ \E q \in Requests : /\ i \in req'[q].deleted
                                             /\ req'[q].pc \in {"marked", "database"}
    BY <1>2 DEF RowInv
  <2>1. ASSUME NEW q \in Requests, i \in req[q].deleted, req[q].pc \in {"marked", "database"}
        PROVE  i \in req'[q].deleted /\ req'[q].pc \in {"marked", "database"}
    BY <1>2, <2>1 DEF Moves
  <2> QED
    BY <1>1, <1>2, <1>12, <2>1 DEF RowInv
<1>15. WroteInv'
  <2> SUFFICES ASSUME NEW i \in Sound', NEW q \in Requests, NEW o \in W(q)',
                      req'[q].pc \in Acting, req'[q].wrote[o] = i
               PROVE  files[i] = "whole"
    BY <1>2 DEF WroteInv
  <2>1. o \in W(q) /\ req[q].wrote[o] = i /\ req[q].pc \in Acting
    BY <1>2 DEF Moves
  <2> QED
    BY <1>1, <1>2, <2>1 DEF WroteInv
<1> QED
  BY <1>3, <1>4, <1>6, <1>7, <1>8, <1>10, <1>11, <1>13, <1>14, <1>15 DEF AInv
\* The type of one request.
RequestOK(r) ==
    /\ req[r].pc \in {"idle", "ops", "linking", "marked", "database", "undo",
                      "restore", "rollback"}
    /\ req[r].kind \in {"save", "copy", "delete", None}
    /\ req[r].ops \in 0 .. MaxOps
    /\ req[r].view \in [Objects -> Instances \cup {NoRow}]
    /\ W(r) \subseteq Objects /\ req[r].shared \subseteq Objects
    /\ req[r].unknown \subseteq Objects
    /\ \A o \in W(r) : req[r].wrote[o] \in 0 .. next - 1
    /\ req[r].new \subseteq 1 .. next - 1 /\ req[r].deleted \subseteq 1 .. next - 1
    /\ req[r].mark \subseteq 1 .. next - 1 /\ req[r].failed \subseteq 1 .. next - 1
    /\ req[r].pc = "idle" => req[r] = Idle

\* In a state of the right type each request has its type.
LEMMA RequestType ==
  ASSUME TypeInv, NEW r \in Requests
  PROVE  RequestOK(r)
BY DEF TypeInv, TypeOK, RequestOK, W

\* When one request changes and has its type, all have theirs.
LEMMA TypeKeeps ==
  ASSUME TypeInv, NEW r \in Requests, Shape', Alone(r), RequestOK(r)',
         UNCHANGED <<rows, next, known>>, left' \in 0 .. MaxTransactions,
         files' \in [Instances -> {"none", "part", "whole"}],
         marked' \in [Instances -> {"none", "part", "whole"}],
         spoiled' \subseteq Instances \X Reasons
  PROVE  TypeInv'
<1>1. \A q \in Requests : RequestOK(q)'
  <2>1. ASSUME NEW q \in Requests, q # r PROVE RequestOK(q)'
    <3>1. RequestOK(q) /\ req'[q] = req[q]
      BY <2>1, RequestType DEF Alone
    <3> QED
      BY <3>1 DEF RequestOK, W
  <2> QED
    BY <2>1
<1>2. TypeOK'
  BY <1>1 DEF TypeInv, TypeOK, RequestOK, W
<1> QED
  BY <1>2 DEF TypeInv

\* What a request that is settled leaves in the history.
LEMMA SettledType ==
  ASSUME TypeInv, NEW r \in Requests, NEW x \in Reasons
  PROVE  {<<i, x>> : i \in Settled(r)} \subseteq Instances \X Reasons
<1>1. Settled(r) \subseteq Instances
  BY AttachmentsAssumption DEF Settled, TypeInv, TypeOK, Instances
<1> QED
  BY <1>1

\* A new transaction has nothing yet.
LEMMA BeginKeeps ==
  ASSUME AInv, NEW r \in Requests, NEW kind \in {"save", "copy", "delete"},
         NEW f \in Folders \cup {None}, Begin(r, kind, f)
  PROVE  AInv'
<1>1. TypeInv /\ TypeOK /\ KindInv /\ PairInv /\ SeenInv
  BY DEF AInv, TypeInv
<1>2. /\ Shape' /\ Alone(r) /\ req[r].pc = "idle"
      /\ Keeps(r, {"pc", "kind", "folder"})
      /\ req'[r].pc = "ops" /\ req'[r].kind = kind /\ req'[r].folder = f
      /\ UNCHANGED <<rows, files, marked, next, known, spoiled>>
  BY <1>1, BeginEffect
<1>3. /\ W(r) = {} /\ Gone(r) = {} /\ req[r].new = {} /\ req[r].mark = {}
      /\ req[r].deleted = {} /\ ~ req[r].seen
      /\ \A o \in Objects : req[r].view[o] = NoRow
  BY <1>1, <1>2, IdleFacts
<1>4. /\ req'[r].wrote = req[r].wrote /\ W(r)' = W(r) /\ req'[r].new = req[r].new
      /\ req'[r].mark = req[r].mark /\ req'[r].deleted = req[r].deleted
      /\ Gone(r)' = Gone(r) /\ req'[r].view = req[r].view /\ (req'[r].seen <=> req[r].seen)
      /\ req'[r].ops = req[r].ops /\ req'[r].shared = req[r].shared
      /\ req'[r].unknown = req[r].unknown /\ req'[r].failed = req[r].failed
  BY <1>2 DEF Keeps, Fields, W, Gone
<1>5. \A q \in Requests : q # r => req'[q] = req[q] /\ W(q)' = W(q) /\ Gone(q)' = Gone(q)
  BY <1>2 DEF Alone, W, Gone
<1>6. TypeInv'
  <2>1. left' \in 0 .. MaxTransactions
    BY <1>1, AttachmentsAssumption DEF Begin, TypeOK
  <2>2. RequestOK(r)'
    <3>1. RequestOK(r)
      BY <1>1, RequestType
    <3> QED
      BY <1>2, <1>4, <3>1 DEF RequestOK
  <2> QED
    BY <1>1, <1>2, <2>1, <2>2, TypeKeeps DEF TypeOK
<1>7. KindInv'
  <2> SUFFICES ASSUME NEW q \in Requests
               PROVE  /\ req'[q].pc # "idle" => req'[q].kind \in {"save", "copy", "delete"}
                      /\ req'[q].kind = "save" => \A o \in W(q)' : Folder[o] = req'[q].folder
                      /\ req'[q].kind = "delete" => /\ \A o \in W(q)' : req'[q].wrote[o] = NoRow
                                                    /\ req'[q].ops = 0 => ~ req'[q].seen
                      /\ req'[q].kind = "copy" => Gone(q)' = {} /\ req'[q].new = {}
                      /\ req'[q].pc = "linking" =>
                           /\ req'[q].kind = "save" /\ req'[q].obj \in Objects
                           /\ Folder[req'[q].obj] = req'[q].folder
                           /\ req'[q].obj \notin req'[q].unknown \cup W(q)'
                           /\ req'[q].ops < MaxOps
    BY DEF KindInv
  <2>1. CASE q # r
    BY <1>1, <1>5, <2>1 DEF KindInv
  <2>2. CASE q = r
    BY <1>2, <1>3, <1>4, <2>2
  <2> QED
    BY <2>1, <2>2
<1>8. PairInv'
  <2>1. \A q \in Requests : q # r /\ req[q].pc # "idle" /\ kind = "save" => req[q].folder # f
    BY DEF Begin, Others, Running
  <2> QED
    BY <1>1, <1>2, <1>3, <1>4, <1>5, <2>1 DEF PairInv
<1>9. SeenInv'
  BY <1>1, <1>2, <1>3, <1>4, <1>5 DEF SeenInv
<1>10. Moves(r)
  BY <1>2, <1>3, <1>4 DEF Moves
<1> QED
  BY <1>6, <1>7, <1>8, <1>9, <1>10, MovesKeep

\* The steps of a running request that changes neither its rows nor its kind keep
\* the parts about types, kinds and what has been seen.
LEMMA StaysSame ==
  ASSUME AInv, NEW r \in Requests, NEW F, Alone(r), Shape', Keeps(r, F),
         F \subseteq {"pc", "ops", "seen", "view", "obj", "inst", "failed", "deleted"},
         UNCHANGED <<rows, next, known, left>>, req[r].pc # "idle", req'[r].pc # "idle",
         req'[r].pc \in {"ops", "linking", "marked", "database", "undo", "restore", "rollback"},
         files' \in [Instances -> {"none", "part", "whole"}],
         marked' \in [Instances -> {"none", "part", "whole"}],
         spoiled' \subseteq Instances \X Reasons,
         req'[r].ops \in 0 .. MaxOps,
         req'[r].deleted \subseteq req[r].deleted,
         req'[r].failed \subseteq 1 .. next - 1,
         \/ req'[r].view = req[r].view /\ (req'[r].seen <=> req[r].seen)
         \/ req'[r].view = Snapshot(r) /\ req[r].kind = "save",
         req[r].kind = "delete" => req'[r].ops = req[r].ops,
         req'[r].pc = "linking" => /\ req[r].kind = "save" /\ req'[r].obj \in Objects
                                   /\ Folder[req'[r].obj] = req[r].folder
                                   /\ req'[r].obj \notin req[r].unknown \cup W(r)
                                   /\ req'[r].ops < MaxOps
                                   /\ \A q \in Requests : q # r => req'[r].obj \notin W(q)
  PROVE  TypeInv' /\ KindInv' /\ PairInv' /\ SeenInv'
<1>1. TypeInv /\ TypeOK /\ KindInv /\ PairInv /\ SeenInv
  BY DEF AInv, TypeInv
<1>2. /\ req'[r].wrote = req[r].wrote /\ W(r)' = W(r) /\ req'[r].new = req[r].new
      /\ req'[r].mark = req[r].mark
      /\ req'[r].kind = req[r].kind /\ req'[r].folder = req[r].folder
      /\ req'[r].shared = req[r].shared /\ req'[r].unknown = req[r].unknown
  BY DEF Keeps, Fields, W
<1>3. \A q \in Requests : q # r => req'[q] = req[q] /\ W(q)' = W(q) /\ Gone(q)' = Gone(q)
  BY DEF Alone, W, Gone
<1>4. Gone(r)' \subseteq Gone(r)
  BY <1>2 DEF Gone
<1>5. TypeInv'
  <2>1. RequestOK(r)'
    <3>1. RequestOK(r)
      BY <1>1, RequestType
    <3>2. req'[r].view \in [Objects -> Instances \cup {NoRow}]
      BY <1>1 DEF TypeOK, Snapshot
    <3> QED
      BY <1>2, <3>1, <3>2 DEF RequestOK
  <2>2. left' \in 0 .. MaxTransactions
    BY <1>1 DEF TypeOK
  <2> QED
    BY <1>1, <2>1, <2>2, TypeKeeps
<1>6. KindInv'
  <2> SUFFICES ASSUME NEW q \in Requests
               PROVE  /\ req'[q].pc # "idle" => req'[q].kind \in {"save", "copy", "delete"}
                      /\ req'[q].kind = "save" => \A o \in W(q)' : Folder[o] = req'[q].folder
                      /\ req'[q].kind = "delete" => /\ \A o \in W(q)' : req'[q].wrote[o] = NoRow
                                                    /\ req'[q].ops = 0 => ~ req'[q].seen
                      /\ req'[q].kind = "copy" => Gone(q)' = {} /\ req'[q].new = {}
                      /\ req'[q].pc = "linking" =>
                           /\ req'[q].kind = "save" /\ req'[q].obj \in Objects
                           /\ Folder[req'[q].obj] = req'[q].folder
                           /\ req'[q].obj \notin req'[q].unknown \cup W(q)'
                           /\ req'[q].ops < MaxOps
    BY DEF KindInv
  <2>1. CASE q # r
    BY <1>1, <1>3, <2>1 DEF KindInv
  <2>2. CASE q = r
    BY <1>1, <1>2, <1>4, <2>2 DEF KindInv
  <2> QED
    BY <2>1, <2>2
<1>7. PairInv'
  BY <1>1, <1>2, <1>3 DEF PairInv
<1>8. SeenInv'
  <2> SUFFICES ASSUME NEW q \in Requests, NEW o \in Objects,
                      req'[q].kind = "save", req'[q].seen, Folder[o] = req'[q].folder,
                      o \notin req'[q].unknown \cup W(q)'
               PROVE  rows[o] \in {req'[q].view[o], NoRow}
    BY DEF SeenInv
  <2>1. CASE q # r
    BY <1>1, <1>3, <2>1 DEF SeenInv
  <2>2. CASE q = r
    BY <1>1, <1>2, <2>2 DEF SeenInv, Snapshot
  <2> QED
    BY <2>1, <2>2
<1> QED
  BY <1>5, <1>6, <1>7, <1>8

\* A snapshot is what is committed now.
LEMMA SnapshotKeeps ==
  ASSUME AInv, NEW r \in Requests, TakeSnapshot(r)
  PROVE  AInv'
<1>1. TypeInv /\ TypeOK /\ KnownInv /\ RequestOK(r)
  BY RequestType DEF AInv, TypeInv
<1>2. /\ Shape' /\ Alone(r) /\ Keeps(r, {"seen", "view"})
      /\ req[r].pc = "ops" /\ req[r].kind = "save" /\ ~ req[r].seen
      /\ req'[r].seen /\ req'[r].view = rows
      /\ UNCHANGED <<rows, files, marked, next, known, spoiled>>
  BY <1>1, SnapshotEffect
<1>3. /\ req'[r].pc = "ops" /\ req'[r].ops = req[r].ops /\ req'[r].failed = req[r].failed
      /\ req'[r].wrote = req[r].wrote /\ req'[r].new = req[r].new
      /\ req'[r].mark = req[r].mark /\ req'[r].deleted = req[r].deleted
  BY <1>2 DEF Keeps, Fields
<1>4. TypeInv' /\ KindInv' /\ PairInv' /\ SeenInv'
  <2>1. left' = left /\ req'[r].view = Snapshot(r)
    BY <1>2 DEF TakeSnapshot, Snapshot
  <2> QED
    BY <1>1, <1>2, <1>3, <2>1, StaysSame DEF TypeOK, RequestOK
<1>5. Moves(r)
  BY <1>1, <1>2, <1>3 DEF Moves, KnownInv, Holding, Acting
<1> QED
  BY <1>4, <1>5, MovesKeep

\* A request that fails, or may not have the instance it asks for, is undone.
LEMMA UndoKeeps ==
  ASSUME AInv, NEW r \in Requests, Shape', Alone(r), Keeps(r, {"pc"}),
         req[r].pc \in {"ops", "linking"}, req'[r].pc = "undo",
         UNCHANGED <<rows, files, marked, next, known, left, spoiled>>
  PROVE  AInv'
<1>1. TypeInv /\ TypeOK /\ KnownInv /\ RequestOK(r)
  BY RequestType DEF AInv, TypeInv
<1>2. /\ req'[r].ops = req[r].ops /\ req'[r].failed = req[r].failed
      /\ req'[r].wrote = req[r].wrote /\ req'[r].new = req[r].new
      /\ req'[r].mark = req[r].mark /\ req'[r].deleted = req[r].deleted
      /\ req'[r].view = req[r].view /\ (req'[r].seen <=> req[r].seen)
  BY DEF Keeps, Fields
<1>3. TypeInv' /\ KindInv' /\ PairInv' /\ SeenInv'
  BY <1>1, <1>2, StaysSame DEF TypeOK, RequestOK
<1>4. Moves(r)
  BY <1>1, <1>2 DEF Moves, KnownInv, Holding, Acting
<1> QED
  BY <1>3, <1>4, MovesKeep

\* An instance that may be linked has its file, and nobody has found it gone.
LEMMA ExistKeeps ==
  ASSUME AInv, NEW r \in Requests, NEW o \in Objects, NEW i \in Instances,
         NEW admin \in BOOLEAN, ExistAttachmentInstance(r, o, i, admin)
  PROVE  AInv'
<1>1. TypeInv /\ TypeOK /\ KnownInv /\ MarkInv /\ RequestOK(r)
  BY RequestType DEF AInv, TypeInv
<1>2. /\ Shape' /\ Alone(r) /\ i \in known /\ MayDo(r, {"save"}, {o})
      /\ spoiled \subseteq spoiled'
      /\ UNCHANGED <<rows, files, marked, next, known>>
      /\ \/ Keeps(r, {"pc"}) /\ req'[r].pc = "undo" /\ UNCHANGED spoiled
         \/ /\ Keeps(r, {"pc", "obj", "inst", "seen", "view"}) /\ req'[r].pc = "linking"
            /\ req'[r].obj = o /\ req'[r].inst = i
            /\ req'[r].seen /\ req'[r].view = Snapshot(r)
            /\ files[i] # "none"
            /\ i \in UNION {req[q].deleted : q \in Requests} => <<i, "linked">> \in spoiled'
  BY <1>1, ExistEffect, Zenon
<1>3. /\ req[r].pc = "ops" /\ req[r].kind = "save" /\ req[r].ops < MaxOps
      /\ Folder[o] = req[r].folder /\ o \notin req[r].unknown \cup W(r)
      /\ \A q \in Requests : q # r => o \notin W(q)
  <2>1. \A q \in Requests : q # r => {o} \cap W(q) = {}
    BY <1>1, <1>2, Locked DEF MayDo
  <2> QED
    BY <1>2, <2>1 DEF MayDo, W
<1>4. left' = left /\ spoiled' \subseteq Instances \X Reasons
  BY <1>1 DEF ExistAttachmentInstance, TypeOK, Reasons
<1>5. CASE Keeps(r, {"pc"}) /\ req'[r].pc = "undo" /\ UNCHANGED spoiled
  BY <1>2, <1>3, <1>4, <1>5, UndoKeeps
<1>6. CASE /\ Keeps(r, {"pc", "obj", "inst", "seen", "view"}) /\ req'[r].pc = "linking"
           /\ req'[r].obj = o /\ req'[r].inst = i
           /\ req'[r].seen /\ req'[r].view = Snapshot(r)
           /\ files[i] # "none"
           /\ i \in UNION {req[q].deleted : q \in Requests} => <<i, "linked">> \in spoiled'
  <2>1. /\ req'[r].ops = req[r].ops /\ req'[r].failed = req[r].failed
        /\ req'[r].wrote = req[r].wrote /\ req'[r].new = req[r].new
        /\ req'[r].mark = req[r].mark /\ req'[r].deleted = req[r].deleted
    BY <1>6 DEF Keeps, Fields
  <2>2. TypeInv' /\ KindInv' /\ PairInv' /\ SeenInv'
    <3>1. {"pc", "obj", "inst", "seen", "view"} \subseteq
            {"pc", "ops", "seen", "view", "obj", "inst", "failed", "deleted"}
      OBVIOUS
    <3>2. /\ files' \in [Instances -> {"none", "part", "whole"}]
          /\ marked' \in [Instances -> {"none", "part", "whole"}]
          /\ req'[r].ops \in 0 .. MaxOps /\ req'[r].failed \subseteq 1 .. next - 1
      BY <1>1, <1>2, <2>1 DEF TypeOK, RequestOK
    <3> QED
      BY <1>2, <1>3, <1>4, <1>6, <2>1, <3>1, <3>2, StaysSame
  <2>3. ASSUME NEW q \in Requests, i \in Sound', req[q].pc \in Holding, i \in Gone(q)
        PROVE  FALSE
    <3>1. i \notin req[q].deleted
      BY <1>6, <2>3, Grows
    <3>2. i \in Sound
      BY <1>2, <2>3, Grows
    <3> QED
      BY <1>1, <1>6, <2>3, <3>1, <3>2 DEF MarkInv, Gone
  <2>4. \A p \in Objects : req'[r].view[p] \in known \cup {NoRow}
    BY <1>1, <1>6 DEF KnownInv, Snapshot
  <2>5. Moves(r)
    BY <1>2, <1>3, <1>6, <2>1, <2>3, <2>4 DEF Moves, Holding, Acting
  <2> QED
    BY <2>2, <2>5, MovesKeep
<1> QED
  BY <1>2, <1>5, <1>6, Zenon

\* A save of the instance that the object has changes nothing.
LEMMA SameInstanceKeeps ==
  ASSUME AInv, NEW r \in Requests,
         Shape', Alone(r), Keeps(r, {"pc", "ops", "obj", "inst"}),
         req[r].pc = "linking", req'[r].pc = "ops", req[r].kind = "save",
         req'[r].ops \in 1 .. MaxOps,
         UNCHANGED <<rows, files, marked, next, known, left, spoiled>>
  PROVE  AInv'
<1>1. TypeInv /\ TypeOK /\ KnownInv /\ RequestOK(r)
  BY RequestType DEF AInv, TypeInv
<1>2. /\ req'[r].failed = req[r].failed
      /\ req'[r].wrote = req[r].wrote /\ req'[r].new = req[r].new
      /\ req'[r].mark = req[r].mark /\ req'[r].deleted = req[r].deleted
      /\ req'[r].view = req[r].view /\ (req'[r].seen <=> req[r].seen)
  BY DEF Keeps, Fields
<1>3. TypeInv' /\ KindInv' /\ PairInv' /\ SeenInv'
  <2>1. {"pc", "ops", "obj", "inst"} \subseteq
          {"pc", "ops", "seen", "view", "obj", "inst", "failed", "deleted"}
    OBVIOUS
  <2>2. req'[r].ops \in 0 .. MaxOps
    BY AttachmentsAssumption
  <2> QED
    BY <1>1, <1>2, <2>1, <2>2, StaysSame DEF TypeOK, RequestOK
<1>4. Moves(r)
  BY <1>1, <1>2 DEF Moves, KnownInv, Holding, Acting
<1> QED
  BY <1>3, <1>4, MovesKeep

\* When the database does not commit, the settled instances are spoiled.
LEMMA CommitFailsKeeps ==
  ASSUME AInv, NEW r \in Requests, DatabaseCommitFails(r)
  PROVE  AInv'
<1>1. TypeInv /\ TypeOK /\ KnownInv /\ RequestOK(r)
  BY RequestType DEF AInv, TypeInv
<1>2. /\ Shape' /\ Alone(r) /\ Keeps(r, {"pc"}) /\ req[r].pc = "database"
      /\ req'[r].pc = "rollback"
      /\ spoiled' = spoiled \cup {<<i, "commit">> : i \in Settled(r)}
      /\ UNCHANGED <<rows, files, marked, next, known>>
  BY <1>1, CommitFailsEffect
<1>3. /\ req'[r].ops = req[r].ops /\ req'[r].failed = req[r].failed
      /\ req'[r].wrote = req[r].wrote /\ req'[r].new = req[r].new
      /\ req'[r].mark = req[r].mark /\ req'[r].deleted = req[r].deleted
      /\ req'[r].view = req[r].view /\ (req'[r].seen <=> req[r].seen)
  BY <1>2 DEF Keeps, Fields
<1>4. TypeInv' /\ KindInv' /\ PairInv' /\ SeenInv'
  <2>1. left' = left /\ spoiled' \subseteq Instances \X Reasons
    BY <1>1, <1>2, SettledType DEF DatabaseCommitFails, TypeOK, Reasons
  <2> QED
    BY <1>1, <1>2, <1>3, <2>1, StaysSame DEF TypeOK, RequestOK
<1>5. \A i \in Sound' : i \notin Settled(r)
  BY <1>2, Grows
<1>6. Moves(r)
  BY <1>1, <1>2, <1>3, <1>5 DEF Moves, KnownInv, Holding, Acting, Settled, Gone
<1> QED
  BY <1>4, <1>6, MovesKeep

\* A request that has left has no rows and no files.
LEMMA EndKeeps ==
  ASSUME AInv, NEW r \in Requests, DatabaseRollback(r)
  PROVE  AInv'
<1>1. TypeInv /\ TypeOK /\ KindInv /\ PairInv /\ SeenInv
  BY DEF AInv, TypeInv
<1>2. /\ Shape' /\ Alone(r) /\ req[r].pc = "rollback" /\ req'[r] = Idle
      /\ UNCHANGED <<rows, files, marked, next, known, spoiled>>
  BY <1>1, EndEffect
<1>3. /\ req'[r].pc = "idle" /\ W(r)' = {} /\ Gone(r)' = {} /\ req'[r].new = {}
      /\ req'[r].deleted = {} /\ req'[r].mark = {}
      /\ ~ req'[r].seen /\ \A o \in Objects : req'[r].view[o] = NoRow
  BY <1>2, IdleAfter
<1>4. \A q \in Requests : q # r => req'[q] = req[q] /\ W(q)' = W(q) /\ Gone(q)' = Gone(q)
  BY <1>2 DEF Alone, W, Gone
<1>5. TypeInv'
  <2>1. RequestOK(r)'
    BY <1>2, AttachmentsAssumption DEF RequestOK, Idle, W
  <2>2. left' = left
    BY DEF DatabaseRollback
  <2> QED
    BY <1>1, <1>2, <2>1, <2>2, TypeKeeps DEF TypeOK
<1>6. KindInv'
  BY <1>1, <1>3, <1>4 DEF KindInv
<1>7. PairInv' /\ SeenInv'
  BY <1>1, <1>2, <1>3, <1>4 DEF PairInv, SeenInv
<1>8. Moves(r)
  BY <1>2, <1>3 DEF Moves, Holding, Acting
<1> QED
  BY <1>5, <1>6, <1>7, <1>8, MovesKeep
--------------------------------------------------------------------------------
(* The steps that settle files.                                                *)

\* An instance that a request renamed aside is not gone for another one.
LEMMA MarkIsAlone ==
  ASSUME AInv, NEW q \in Requests, NEW r \in Requests, q # r, NEW i \in Sound,
         req[q].pc \in Holding, req[r].pc \in Holding, i \in req[r].mark
  PROVE  i \notin Gone(q)
<1> SUFFICES ASSUME i \in Gone(q) PROVE FALSE
  OBVIOUS
<1>1. PICK o \in Objects : rows[o] = i
  BY DEF AInv, MarkInv
<1>2. o \in W(q) /\ o \in W(r)
  BY <1>1 DEF AInv, GoneInv, Gone
<1> QED
  BY <1>2 DEF AInv, PairInv

\* r settles files: its rows and those of others stay as they are.
Settles(r) ==
    /\ Alone(r) /\ spoiled \subseteq spoiled' /\ UNCHANGED <<rows, next, known>>
    /\ req'[r].wrote = req[r].wrote /\ req'[r].new = req[r].new
    /\ req'[r].mark = req[r].mark /\ req'[r].deleted \subseteq req[r].deleted
    /\ req'[r].view = req[r].view
    /\ req'[r].pc \in {"marked", "database", "restore", "rollback"}
    /\ req'[r].pc \in Acting => req[r].pc \in Acting /\ req'[r].deleted = req[r].deleted
    /\ req'[r].pc \in Holding => req[r].pc \in Holding
    /\ files' \in [Instances -> {"none", "part", "whole"}]
    /\ marked' \in [Instances -> {"none", "part", "whole"}]
    /\ \A i \in Instances :
         /\ files'[i] \in {"none", files[i], marked[i]}
         /\ marked'[i] \in {"none", marked[i]}

\* Such a step keeps what the invariant says of ids and rows.
LEMMA SettlesKeeps ==
  ASSUME AInv, NEW r \in Requests, Settles(r)
  PROVE  KnownInv' /\ NewInv' /\ GoneInv' /\ LastInv' /\ SoleInv'
<1>1. TypeInv /\ KnownInv /\ NewInv /\ GoneInv /\ LastInv /\ SoleInv
  BY DEF AInv
<1>2. /\ UNCHANGED <<rows, next, known>> /\ Sound' \subseteq Sound
      /\ Sound' \subseteq Instances
      /\ \A q \in Requests : /\ req'[q].wrote = req[q].wrote /\ W(q)' = W(q)
                             /\ req'[q].new = req[q].new /\ req'[q].view = req[q].view
                             /\ Gone(q)' \subseteq Gone(q)
                             /\ req'[q].pc \in Acting => /\ req[q].pc \in Acting
                                                         /\ Gone(q)' = Gone(q)
                             /\ req'[q].pc \in Holding => req[q].pc \in Holding
                             /\ req'[q].pc = "linking" => /\ req[q].pc = "linking"
                                                          /\ req'[q].inst = req[q].inst
      /\ \A i \in Instances :
           /\ files'[i] \in {"none", files[i], marked[i]}
           /\ marked'[i] \in {"none", marked[i]}
  BY Grows DEF Settles, Alone, W, Gone, Sound
<1>3. KnownInv'
  <2>1. \A i \in known : i \in Instances
    BY <1>1, Ids
  <2>2. \A i \in known : files'[i] # "part" /\ marked'[i] # "part"
    BY <1>1, <1>2, <2>1 DEF KnownInv
  <2> QED
    BY <1>1, <1>2, <2>2 DEF KnownInv
<1>4. NewInv'
  <2>1. \A i \in Instances : i >= next => files'[i] = "none" /\ marked'[i] = "none"
    BY <1>1, <1>2 DEF NewInv
  <2>2. \A q \in Requests : req[q].new \subseteq Instances
    BY <1>1, AttachmentsAssumption DEF TypeInv, TypeOK, Instances
  <2>3. \A q \in Requests : req'[q].pc \in Acting => \A i \in req'[q].new :
          /\ \E o \in W(q)' : req'[q].wrote[o] = i
          /\ files'[i] # "part" /\ marked'[i] # "part"
    BY <1>1, <1>2, <2>2 DEF NewInv
  <2> QED
    BY <1>1, <1>2, <2>1, <2>3 DEF NewInv
<1>5. GoneInv'
  <2> SUFFICES ASSUME NEW q \in Requests, NEW i \in Sound', req'[q].pc \in Holding,
                      i \in Gone(q)'
               PROVE  /\ \A o \in Objects : rows[o] = i => o \in W(q)'
                      /\ \A p \in Requests : \A o \in W(p)' : req'[p].wrote[o] # i
                      /\ \A p \in Requests : req'[p].pc = "linking" => req'[p].inst # i
    BY <1>2 DEF GoneInv
  <2> QED
    BY <1>1, <1>2 DEF GoneInv
<1>6. LastInv'
  <2> SUFFICES ASSUME NEW q \in Requests, NEW i \in Sound', NEW o \in Objects,
                      req'[q].pc \in Acting, o \in W(q)', rows[o] = i, req'[q].wrote[o] # i
               PROVE  \/ i \in Gone(q)'
                      \/ \E p \in Objects : \/ p \notin W(q)' /\ rows[p] = i
                                            \/ p \in W(q)' /\ req'[q].wrote[p] = i
    BY <1>2 DEF LastInv, Removes
  <2> QED
    BY <1>1, <1>2 DEF LastInv, Removes
<1>7. SoleInv'
  BY <1>1, <1>2 DEF SoleInv, Removes
<1> QED
  BY <1>3, <1>4, <1>5, <1>6, <1>7

\* Only files without a row that stays are unlinked.
LEMMA CommitKeeps ==
  ASSUME AInv, NEW r \in Requests, NEW failed \in SUBSET Instances, Commit(r, failed)
  PROVE  AInv'
<1>1. /\ TypeInv /\ TypeOK /\ KnownInv /\ RequestOK(r) /\ GoneInv /\ MarkInv /\ DeletedInv
      /\ LeftInv /\ RowInv /\ WroteInv
  BY RequestType DEF AInv, TypeInv
<1>2. /\ Shape' /\ Alone(r) /\ Keeps(r, {"pc", "failed"})
      /\ req[r].pc = "ops" /\ req'[r].pc = "marked" /\ req'[r].failed = failed
      /\ failed \subseteq req[r].deleted
      /\ files' = [i \in Instances |-> IF i \in req[r].deleted \ failed
                                       THEN "none" ELSE files[i]]
      /\ UNCHANGED <<rows, marked, next, known, spoiled>>
  BY <1>1, CommitEffect
<1>3. /\ req'[r].ops = req[r].ops /\ req'[r].wrote = req[r].wrote
      /\ req'[r].new = req[r].new /\ req'[r].mark = req[r].mark
      /\ req'[r].deleted = req[r].deleted
      /\ req'[r].view = req[r].view /\ (req'[r].seen <=> req[r].seen)
  BY <1>2 DEF Keeps, Fields
<1>4. /\ files' \in [Instances -> {"none", "part", "whole"}]
      /\ \A i \in Instances : /\ files'[i] \in {"none", files[i]}
                              /\ i \notin req[r].deleted => files'[i] = files[i]
                              /\ i \in req[r].deleted \ failed => files'[i] = "none"
  BY <1>1, <1>2 DEF TypeOK
<1>5. TypeInv' /\ KindInv' /\ PairInv' /\ SeenInv'
  <2>1. left' = left /\ {"pc", "failed"} \subseteq
          {"pc", "ops", "seen", "view", "obj", "inst", "failed", "deleted"}
    BY DEF Commit
  <2>2. failed \subseteq 1 .. next - 1
    BY <1>1, <1>2 DEF RequestOK
  <2> QED
    BY <1>1, <1>2, <1>3, <1>4, <2>1, <2>2, StaysSame DEF TypeOK, RequestOK
<1>6. KnownInv' /\ NewInv' /\ GoneInv' /\ LastInv' /\ SoleInv'
  <2>1. Settles(r)
    BY <1>1, <1>2, <1>3, <1>4 DEF Settles, Acting, Holding, TypeOK
  <2> QED
    BY <2>1, SettlesKeeps
<1>7. /\ Sound' = Sound /\ Sound \subseteq Instances
      /\ \A q \in Requests : /\ req'[q].wrote = req[q].wrote /\ W(q)' = W(q)
                             /\ req'[q].new = req[q].new /\ req'[q].mark = req[q].mark
                             /\ req'[q].deleted = req[q].deleted
                             /\ q # r => req'[q] = req[q]
  BY <1>2, <1>3 DEF Sound, Spoiled, Alone, W
<1>8. MarkInv'
  <2> SUFFICES ASSUME NEW q \in Requests, NEW i \in Sound, req'[q].pc \in Holding,
                      i \in req'[q].mark
               PROVE  /\ \E o \in Objects : rows[o] = i
                      /\ files'[i] = "none"
                      /\ req'[q].pc # "database" => marked[i] = "whole"
                      /\ req'[q].pc = "database" => marked[i] = "none"
    BY <1>2, <1>7 DEF MarkInv
  <2>1. req[q].pc \in Holding /\ (req[q].pc = "database" <=> req'[q].pc = "database")
    BY <1>2, <1>7 DEF Holding, Acting
  <2>2. /\ \E o \in Objects : rows[o] = i
        /\ files[i] = "none"
        /\ req[q].pc # "database" => marked[i] = "whole"
        /\ req[q].pc = "database" => marked[i] = "none"
    BY <1>1, <1>7, <2>1 DEF MarkInv
  <2> QED
    BY <1>4, <1>7, <2>1, <2>2
<1>9. DeletedInv'
  <2> SUFFICES ASSUME NEW q \in Requests
               PROVE  /\ req'[q].pc = "database" => req'[q].failed = {}
                      /\ req'[q].pc \in {"marked", "database"} =>
                          \A i \in Sound \cap req'[q].deleted :
                            i \notin req'[q].failed => files'[i] = "none"
    BY <1>7 DEF DeletedInv
  <2>1. CASE q = r
    BY <1>2, <1>4, <1>7, <2>1
  <2>2. CASE q # r
    BY <1>1, <1>4, <1>7, <2>2 DEF DeletedInv
  <2> QED
    BY <2>1, <2>2
<1>10. LeftInv'
  <2> SUFFICES ASSUME NEW i \in Sound
               PROVE  /\ files'[i] # "none" =>
                          \/ \E o \in Objects : rows[o] = i
                          \/ \E q \in Requests : i \in req'[q].new
                                                 /\ req'[q].pc \in Acting \cup {"undo"}
                      /\ marked[i] # "none" =>
                          \E q \in Requests : i \in req'[q].mark
                                              /\ req'[q].pc \in Holding \ {"database"}
    BY <1>2, <1>7 DEF LeftInv
  <2>1. files'[i] # "none" => files[i] # "none"
    BY <1>4, <1>7
  <2>2. \A q \in Requests : /\ req[q].pc \in Acting \cup {"undo"} =>
                                 req'[q].pc \in Acting \cup {"undo"}
                            /\ req[q].pc \in Holding \ {"database"} =>
                                 req'[q].pc \in Holding \ {"database"}
    BY <1>2, <1>7 DEF Holding, Acting
  <2> QED
    BY <1>1, <1>7, <2>1, <2>2 DEF LeftInv
<1>11. RowInv'
  <2> SUFFICES ASSUME NEW i \in Sound, NEW o \in Objects, rows[o] = i
               PROVE  \/ files'[i] = "whole"
                      \/ \E q \in Requests : i \in req'[q].mark /\ req'[q].pc \in Holding
                      \/ \E q \in Requests : /\ i \in req'[q].deleted
                                             /\ req'[q].pc \in {"marked", "database"}
    BY <1>2, <1>7 DEF RowInv
  <2>1. CASE i \in req[r].deleted
    BY <1>2, <1>7, <2>1
  <2>2. CASE i \notin req[r].deleted /\ files[i] = "whole"
    BY <1>4, <1>7, <2>2
  <2>3. \A q \in Requests : /\ req[q].pc \in Holding => req'[q].pc \in Holding
                            /\ req[q].pc \in {"marked", "database"} =>
                                 req'[q].pc \in {"marked", "database"}
    BY <1>2, <1>7 DEF Holding, Acting
  <2> QED
    BY <1>1, <1>7, <2>1, <2>2, <2>3 DEF RowInv
<1>12. WroteInv'
  <2> SUFFICES ASSUME NEW i \in Sound, NEW q \in Requests, NEW o \in W(q)',
                      req'[q].pc \in Acting, req'[q].wrote[o] = i
               PROVE  files'[i] = "whole"
    BY <1>7 DEF WroteInv
  <2>1. o \in W(q) /\ req[q].wrote[o] = i /\ req[q].pc \in Acting
    BY <1>2, <1>7 DEF Acting
  <2>2. i \notin req[r].deleted
    BY <1>1, <1>2, <2>1 DEF GoneInv, Gone, Holding, Acting
  <2> QED
    BY <1>1, <1>4, <1>7, <2>1, <2>2 DEF WroteInv
<1> QED
  BY <1>5, <1>6, <1>8, <1>9, <1>10, <1>11, <1>12 DEF AInv

\* The files aside are those of the request that unlinks them.
LEMMA DeleteMarkedKeeps ==
  ASSUME AInv, NEW r \in Requests, DeleteMarkedAttachments(r)
  PROVE  AInv'
<1>1. /\ TypeInv /\ TypeOK /\ KnownInv /\ RequestOK(r) /\ MarkInv /\ DeletedInv
      /\ LeftInv /\ RowInv /\ WroteInv
  BY RequestType DEF AInv, TypeInv
<1>2. /\ Shape' /\ Alone(r) /\ Keeps(r, {"pc"}) /\ req[r].pc = "marked"
      /\ marked' = [i \in Instances |-> IF i \in req[r].mark THEN "none" ELSE marked[i]]
      /\ \/ req[r].failed = {} /\ req'[r].pc = "database" /\ UNCHANGED spoiled
         \/ /\ req'[r].pc = "rollback"
            /\ spoiled' = spoiled \cup {<<i, "commit">> : i \in Settled(r)}
      /\ UNCHANGED <<rows, files, next, known>>
  BY <1>1, DeleteMarkedEffect
<1>3. /\ req'[r].ops = req[r].ops /\ req'[r].wrote = req[r].wrote
      /\ req'[r].new = req[r].new /\ req'[r].mark = req[r].mark
      /\ req'[r].deleted = req[r].deleted /\ req'[r].failed = req[r].failed
      /\ req'[r].view = req[r].view /\ (req'[r].seen <=> req[r].seen)
  BY <1>2 DEF Keeps, Fields
<1>4. /\ marked' \in [Instances -> {"none", "part", "whole"}]
      /\ \A i \in Instances : /\ i \notin req[r].mark => marked'[i] = marked[i]
                              /\ i \in req[r].mark => marked'[i] = "none"
  BY <1>1, <1>2 DEF TypeOK
<1>5. TypeInv' /\ KindInv' /\ PairInv' /\ SeenInv'
  <2>1. left' = left /\ spoiled' \subseteq Instances \X Reasons
    BY <1>1, <1>2, SettledType DEF DeleteMarkedAttachments, TypeOK, Reasons
  <2> QED
    BY <1>1, <1>2, <1>3, <1>4, <2>1, StaysSame DEF TypeOK, RequestOK
<1>6. KnownInv' /\ NewInv' /\ GoneInv' /\ LastInv' /\ SoleInv'
  <2>1. Settles(r)
    <3>1. \A i \in Instances : /\ files'[i] \in {"none", files[i], marked[i]}
                               /\ marked'[i] \in {"none", marked[i]}
      BY <1>2, <1>4
    <3>2. spoiled \subseteq spoiled'
      BY <1>2
    <3> QED
      BY <1>1, <1>2, <1>3, <1>4, <3>1, <3>2 DEF Settles, Acting, Holding, TypeOK
  <2> QED
    BY <2>1, SettlesKeeps
<1>7. /\ Sound' \subseteq Sound /\ Sound \subseteq Instances /\ Sound' \subseteq Instances
      /\ \A q \in Requests : /\ req'[q].wrote = req[q].wrote /\ W(q)' = W(q)
                             /\ req'[q].new = req[q].new /\ req'[q].mark = req[q].mark
                             /\ req'[q].deleted = req[q].deleted
                             /\ q # r => req'[q] = req[q]
      /\ \/ req'[r].pc = "database" /\ req[r].failed = {}
         \/ /\ req'[r].pc = "rollback"
            /\ \A i \in Sound' : i \notin req[r].new \cup req[r].deleted \cup req[r].mark
  <2>1. spoiled \subseteq spoiled'
    BY <1>2
  <2>2. Sound' \subseteq Sound /\ \A i, x : <<i, x>> \in spoiled' => i \notin Sound'
    BY <2>1, Grows
  <2>3. CASE spoiled' = spoiled \cup {<<i, "commit">> : i \in Settled(r)}
    <3>1. \A i \in Settled(r) : i \notin Sound'
      BY <2>2, <2>3
    <3> QED
      BY <1>2, <1>3, <2>2, <3>1 DEF Sound, Alone, W, Settled
  <2>4. CASE req[r].failed = {} /\ req'[r].pc = "database"
    BY <1>2, <1>3, <2>2, <2>4 DEF Sound, Alone, W
  <2> QED
    BY <1>2, <2>3, <2>4
<1>8. ASSUME NEW q \in Requests, q # r, NEW i \in Sound, req[q].pc \in Holding,
             i \in req[q].mark
      PROVE  marked'[i] = marked[i]
  <2>1. i \notin req[r].mark
    <3>1. req[r].pc \in Holding
      BY <1>2 DEF Holding, Acting
    <3> QED
      BY <1>8, <3>1, MarkIsAlone DEF Gone
  <2> QED
    BY <1>4, <1>7, <2>1
<1>9. MarkInv'
  <2> SUFFICES ASSUME NEW q \in Requests, NEW i \in Sound', req'[q].pc \in Holding,
                      i \in req'[q].mark
               PROVE  /\ \E o \in Objects : rows[o] = i
                      /\ files[i] = "none"
                      /\ req'[q].pc # "database" => marked'[i] = "whole"
                      /\ req'[q].pc = "database" => marked'[i] = "none"
    BY <1>2 DEF MarkInv
  <2>1. req[q].pc \in Holding
    BY <1>2, <1>7 DEF Holding, Acting
  <2>2. /\ \E o \in Objects : rows[o] = i
        /\ files[i] = "none"
        /\ req[q].pc # "database" => marked[i] = "whole"
        /\ req[q].pc = "database" => marked[i] = "none"
    BY <1>1, <1>7, <2>1 DEF MarkInv
  <2>3. CASE q = r
    BY <1>4, <1>7, <2>2, <2>3
  <2>4. CASE q # r
    BY <1>7, <1>8, <2>1, <2>2, <2>4
  <2> QED
    BY <2>3, <2>4
<1>10. DeletedInv'
  <2> SUFFICES ASSUME NEW q \in Requests
               PROVE  /\ req'[q].pc = "database" => req'[q].failed = {}
                      /\ req'[q].pc \in {"marked", "database"} =>
                          \A i \in Sound' \cap req'[q].deleted :
                            i \notin req'[q].failed => files[i] = "none"
    BY <1>2 DEF DeletedInv
  <2>1. CASE q = r
    BY <1>1, <1>2, <1>3, <1>7, <2>1 DEF DeletedInv
  <2>2. CASE q # r
    BY <1>1, <1>7, <2>2 DEF DeletedInv
  <2> QED
    BY <2>1, <2>2
<1>11. LeftInv'
  <2> SUFFICES ASSUME NEW i \in Sound'
               PROVE  /\ files[i] # "none" =>
                          \/ \E o \in Objects : rows[o] = i
                          \/ \E q \in Requests : i \in req'[q].new
                                                 /\ req'[q].pc \in Acting \cup {"undo"}
                      /\ marked'[i] # "none" =>
                          \E q \in Requests : i \in req'[q].mark
                                              /\ req'[q].pc \in Holding \ {"database"}
    BY <1>2 DEF LeftInv
  <2>1. ASSUME NEW q \in Requests, i \in req[q].new, req[q].pc \in Acting \cup {"undo"}
        PROVE  i \in req'[q].new /\ req'[q].pc \in Acting \cup {"undo"}
    BY <1>7, <2>1 DEF Acting
  <2>2. ASSUME marked'[i] # "none", NEW q \in Requests, i \in req[q].mark,
               req[q].pc \in Holding \ {"database"}
        PROVE  i \in req'[q].mark /\ req'[q].pc \in Holding \ {"database"}
    <3>1. i \notin req[r].mark
      BY <1>4, <1>7, <2>2
    <3> QED
      BY <1>7, <2>2, <3>1
  <2>3. marked'[i] # "none" => marked[i] # "none"
    BY <1>4, <1>7
  <2> QED
    BY <1>1, <1>7, <2>1, <2>2, <2>3 DEF LeftInv
<1>12. RowInv'
  <2> SUFFICES ASSUME NEW i \in Sound', NEW o \in Objects, rows[o] = i
               PROVE  \/ files[i] = "whole"
                      \/ \E q \in Requests : i \in req'[q].mark /\ req'[q].pc \in Holding
                      \/ \E q \in Requests : /\ i \in req'[q].deleted
                                             /\ req'[q].pc \in {"marked", "database"}
    BY <1>2 DEF RowInv
  <2>1. ASSUME NEW q \in Requests, i \in req[q].mark, req[q].pc \in Holding
        PROVE  i \in req'[q].mark /\ req'[q].pc \in Holding
    BY <1>7, <2>1 DEF Holding, Acting
  <2>2. ASSUME NEW q \in Requests, i \in req[q].deleted, req[q].pc \in {"marked", "database"}
        PROVE  i \in req'[q].deleted /\ req'[q].pc \in {"marked", "database"}
    BY <1>7, <2>2
  <2> QED
    BY <1>1, <1>7, <2>1, <2>2 DEF RowInv
<1>13. WroteInv'
  <2> SUFFICES ASSUME NEW i \in Sound', NEW q \in Requests, NEW o \in W(q)',
                      req'[q].pc \in Acting, req'[q].wrote[o] = i
               PROVE  files[i] = "whole"
    BY <1>2 DEF WroteInv
  <2>1. o \in W(q) /\ req[q].wrote[o] = i /\ req[q].pc \in Acting
    BY <1>2, <1>7 DEF Acting
  <2> QED
    BY <1>1, <1>7, <2>1 DEF WroteInv
<1> QED
  BY <1>5, <1>6, <1>9, <1>10, <1>11, <1>12, <1>13 DEF AInv

\* New files have no committed row.
LEMMA RollbackKeeps ==
  ASSUME AInv, NEW r \in Requests, Rollback(r)
  PROVE  AInv'
<1>1. /\ TypeInv /\ TypeOK /\ KnownInv /\ NewInv /\ RequestOK(r) /\ MarkInv /\ DeletedInv
      /\ LeftInv /\ RowInv /\ WroteInv
  BY RequestType DEF AInv, TypeInv
<1>2. /\ Shape' /\ Alone(r) /\ Keeps(r, {"pc", "deleted"}) /\ req[r].pc = "undo"
      /\ req'[r].pc = "restore" /\ req'[r].deleted = {}
      /\ files' = [i \in Instances |-> IF i \in req[r].new THEN "none" ELSE files[i]]
      /\ UNCHANGED <<rows, marked, next, known, spoiled>>
  BY <1>1, RollbackEffect
<1>3. /\ req'[r].ops = req[r].ops /\ req'[r].wrote = req[r].wrote
      /\ req'[r].new = req[r].new /\ req'[r].mark = req[r].mark
      /\ req'[r].failed = req[r].failed
      /\ req'[r].view = req[r].view /\ (req'[r].seen <=> req[r].seen)
  BY <1>2 DEF Keeps, Fields
<1>4. /\ files' \in [Instances -> {"none", "part", "whole"}]
      /\ \A i \in Instances : /\ i \notin req[r].new => files'[i] = files[i]
                              /\ i \in req[r].new => files'[i] = "none"
  BY <1>1, <1>2 DEF TypeOK
<1>5. TypeInv' /\ KindInv' /\ PairInv' /\ SeenInv'
  <2>1. left' = left /\ {"pc", "deleted"} \subseteq
          {"pc", "ops", "seen", "view", "obj", "inst", "failed", "deleted"}
    BY DEF Rollback
  <2> QED
    BY <1>1, <1>2, <1>3, <1>4, <2>1, StaysSame DEF TypeOK, RequestOK
<1>6. KnownInv' /\ NewInv' /\ GoneInv' /\ LastInv' /\ SoleInv'
  <2>1. Settles(r)
    <3>1. \A i \in Instances : /\ files'[i] \in {"none", files[i], marked[i]}
                               /\ marked'[i] \in {"none", marked[i]}
      BY <1>2, <1>4
    <3> QED
      BY <1>1, <1>2, <1>3, <1>4, <3>1 DEF Settles, Acting, Holding, TypeOK
  <2> QED
    BY <2>1, SettlesKeeps
<1>7. /\ Sound' = Sound /\ Sound \subseteq Instances
      /\ \A q \in Requests : /\ req'[q].wrote = req[q].wrote /\ W(q)' = W(q)
                             /\ req'[q].new = req[q].new /\ req'[q].mark = req[q].mark
                             /\ q # r => req'[q] = req[q]
  BY <1>2, <1>3 DEF Sound, Spoiled, Alone, W
<1>8. \A i \in known : i \notin req[r].new
  BY <1>1 DEF NewInv
<1>9. MarkInv'
  <2> SUFFICES ASSUME NEW q \in Requests, NEW i \in Sound, req'[q].pc \in Holding,
                      i \in req'[q].mark
               PROVE  /\ \E o \in Objects : rows[o] = i
                      /\ files'[i] = "none"
                      /\ req'[q].pc # "database" => marked[i] = "whole"
                      /\ req'[q].pc = "database" => marked[i] = "none"
    BY <1>2, <1>7 DEF MarkInv
  <2>1. req[q].pc \in Holding /\ (req[q].pc = "database" <=> req'[q].pc = "database")
    BY <1>2, <1>7 DEF Holding, Acting
  <2> QED
    BY <1>1, <1>4, <1>7, <2>1 DEF MarkInv
<1>10. DeletedInv'
  <2> SUFFICES ASSUME NEW q \in Requests
               PROVE  /\ req'[q].pc = "database" => req'[q].failed = {}
                      /\ req'[q].pc \in {"marked", "database"} =>
                          \A i \in Sound \cap req'[q].deleted :
                            i \notin req'[q].failed => files'[i] = "none"
    BY <1>7 DEF DeletedInv
  <2>1. CASE q = r
    BY <1>2, <2>1
  <2>2. CASE q # r
    BY <1>1, <1>4, <1>7, <2>2 DEF DeletedInv
  <2> QED
    BY <2>1, <2>2
<1>11. LeftInv'
  <2> SUFFICES ASSUME NEW i \in Sound
               PROVE  /\ files'[i] # "none" =>
                          \/ \E o \in Objects : rows[o] = i
                          \/ \E q \in Requests : i \in req'[q].new
                                                 /\ req'[q].pc \in Acting \cup {"undo"}
                      /\ marked[i] # "none" =>
                          \E q \in Requests : i \in req'[q].mark
                                              /\ req'[q].pc \in Holding \ {"database"}
    BY <1>2, <1>7 DEF LeftInv
  <2>1. files'[i] # "none" => files[i] # "none" /\ i \notin req[r].new
    BY <1>4, <1>7
  <2>2. \A q \in Requests : /\ q # r /\ req[q].pc \in Acting \cup {"undo"} =>
                                 req'[q].pc \in Acting \cup {"undo"}
                            /\ req[q].pc \in Holding \ {"database"} =>
                                 req'[q].pc \in Holding \ {"database"}
    BY <1>2, <1>7 DEF Holding, Acting
  <2> QED
    BY <1>1, <1>7, <2>1, <2>2 DEF LeftInv
<1>12. RowInv'
  <2> SUFFICES ASSUME NEW i \in Sound, NEW o \in Objects, rows[o] = i
               PROVE  \/ files'[i] = "whole"
                      \/ \E q \in Requests : i \in req'[q].mark /\ req'[q].pc \in Holding
                      \/ \E q \in Requests : /\ i \in req'[q].deleted
                                             /\ req'[q].pc \in {"marked", "database"}
    BY <1>2, <1>7 DEF RowInv
  <2>1. i \in known
    BY <1>1, <1>7, Ids DEF KnownInv
  <2>2. CASE files[i] = "whole"
    BY <1>4, <1>7, <1>8, <2>1, <2>2
  <2>3. \A q \in Requests : /\ req[q].pc \in Holding => req'[q].pc \in Holding
                            /\ req[q].pc \in {"marked", "database"} => q # r
    BY <1>2, <1>7 DEF Holding, Acting
  <2> QED
    BY <1>1, <1>7, <2>2, <2>3 DEF RowInv
<1>13. WroteInv'
  <2> SUFFICES ASSUME NEW i \in Sound, NEW q \in Requests, NEW o \in W(q)',
                      req'[q].pc \in Acting, req'[q].wrote[o] = i
               PROVE  files'[i] = "whole"
    BY <1>7 DEF WroteInv
  <2>1. q # r /\ o \in W(q) /\ req[q].wrote[o] = i /\ req[q].pc \in Acting
    BY <1>2, <1>7 DEF Acting
  <2>2. i \notin req[r].new
    BY <1>1, <1>7, <1>8, <2>1, Ids DEF KnownInv, NewInv
  <2> QED
    BY <1>1, <1>4, <1>7, <2>1, <2>2 DEF WroteInv
<1> QED
  BY <1>5, <1>6, <1>9, <1>10, <1>11, <1>12, <1>13 DEF AInv

\* Files that come back are whole, and nobody has made others of their name.
LEMMA RestoreKeeps ==
  ASSUME AInv, NEW r \in Requests, RestoreMarkedAttachments(r)
  PROVE  AInv'
<1>1. /\ TypeInv /\ TypeOK /\ KnownInv /\ NewInv /\ RequestOK(r) /\ MarkInv /\ DeletedInv
      /\ LeftInv /\ RowInv /\ WroteInv
  BY RequestType DEF AInv, TypeInv
<1>2. /\ Shape' /\ Alone(r) /\ Keeps(r, {"pc"}) /\ req[r].pc = "restore"
      /\ req'[r].pc = "rollback"
      /\ \A i \in Instances :
           IF i \in req[r].mark /\ marked[i] # "none"
           THEN files'[i] = marked[i] /\ marked'[i] = "none"
           ELSE files'[i] = files[i] /\ marked'[i] = marked[i]
      /\ UNCHANGED <<rows, next, known, spoiled>>
  BY <1>1, RestoreEffect
<1>3. /\ req'[r].ops = req[r].ops /\ req'[r].wrote = req[r].wrote
      /\ req'[r].new = req[r].new /\ req'[r].mark = req[r].mark
      /\ req'[r].failed = req[r].failed /\ req'[r].deleted = req[r].deleted
      /\ req'[r].view = req[r].view /\ (req'[r].seen <=> req[r].seen)
  BY <1>2 DEF Keeps, Fields
<1>4. /\ files' \in [Instances -> {"none", "part", "whole"}]
      /\ marked' \in [Instances -> {"none", "part", "whole"}]
      /\ left' = left
  BY <1>1 DEF TypeOK, RestoreMarkedAttachments
<1>5. TypeInv' /\ KindInv' /\ PairInv' /\ SeenInv'
  BY <1>1, <1>2, <1>3, <1>4, StaysSame DEF TypeOK, RequestOK
<1>6. KnownInv' /\ NewInv' /\ GoneInv' /\ LastInv' /\ SoleInv'
  <2>1. Settles(r)
    <3>1. \A i \in Instances : /\ files'[i] \in {"none", files[i], marked[i]}
                               /\ marked'[i] \in {"none", marked[i]}
      BY <1>2
    <3> QED
      BY <1>1, <1>2, <1>3, <1>4, <3>1 DEF Settles, Acting, Holding, TypeOK
  <2> QED
    BY <2>1, SettlesKeeps
<1>7. /\ Sound' = Sound /\ Sound \subseteq Instances
      /\ req'[r].pc \notin Holding /\ req[r].pc \in Holding
      /\ req[r].pc \notin Acting \cup {"undo"} /\ req'[r].pc \notin {"marked", "database"}
      /\ \A q \in Requests : /\ req'[q].wrote = req[q].wrote /\ W(q)' = W(q)
                             /\ req'[q].new = req[q].new /\ req'[q].mark = req[q].mark
                             /\ q # r => req'[q] = req[q]
  BY <1>2, <1>3 DEF Sound, Spoiled, Alone, W, Holding, Acting
<1>8. ASSUME NEW q \in Requests, q # r, NEW i \in Sound, req[q].pc \in Holding,
             i \in Gone(q)
      PROVE  i \notin req[r].mark /\ files'[i] = files[i] /\ marked'[i] = marked[i]
  <2>1. i \notin req[r].mark
    BY <1>7, <1>8, MarkIsAlone
  <2> QED
    BY <1>2, <1>7, <2>1
<1>9. \A i \in Sound : i \in req[r].mark =>
        /\ files[i] = "none" /\ marked[i] = "whole"
        /\ files'[i] = "whole" /\ marked'[i] = "none"
        /\ \E o \in Objects : rows[o] = i
  BY <1>1, <1>2, <1>7 DEF MarkInv
<1>10. \A i \in Sound : i \notin req[r].mark => files'[i] = files[i] /\ marked'[i] = marked[i]
  BY <1>2, <1>7
<1>11. MarkInv'
  <2> SUFFICES ASSUME NEW q \in Requests, NEW i \in Sound, req'[q].pc \in Holding,
                      i \in req'[q].mark
               PROVE  /\ \E o \in Objects : rows[o] = i
                      /\ files'[i] = "none"
                      /\ req'[q].pc # "database" => marked'[i] = "whole"
                      /\ req'[q].pc = "database" => marked'[i] = "none"
    BY <1>2, <1>7 DEF MarkInv
  <2> QED
    BY <1>1, <1>7, <1>8 DEF MarkInv, Gone
<1>12. DeletedInv'
  <2> SUFFICES ASSUME NEW q \in Requests
               PROVE  /\ req'[q].pc = "database" => req'[q].failed = {}
                      /\ req'[q].pc \in {"marked", "database"} =>
                          \A i \in Sound \cap req'[q].deleted :
                            i \notin req'[q].failed => files'[i] = "none"
    BY <1>7 DEF DeletedInv
  <2>1. CASE q = r
    BY <1>7, <2>1
  <2>2. ASSUME q # r, req[q].pc \in {"marked", "database"}, NEW i \in Sound \cap req[q].deleted,
               i \notin req[q].failed
        PROVE  files'[i] = "none"
    <3>1. req[q].pc \in Holding /\ i \in Gone(q)
      BY <2>2 DEF Holding, Acting, Gone
    <3> QED
      BY <1>1, <1>8, <2>2, <3>1 DEF DeletedInv
  <2> QED
    BY <1>1, <1>7, <2>1, <2>2 DEF DeletedInv
<1>13. LeftInv'
  <2> SUFFICES ASSUME NEW i \in Sound
               PROVE  /\ files'[i] # "none" =>
                          \/ \E o \in Objects : rows[o] = i
                          \/ \E q \in Requests : i \in req'[q].new
                                                 /\ req'[q].pc \in Acting \cup {"undo"}
                      /\ marked'[i] # "none" =>
                          \E q \in Requests : i \in req'[q].mark
                                              /\ req'[q].pc \in Holding \ {"database"}
    BY <1>2, <1>7 DEF LeftInv
  <2>1. CASE i \in req[r].mark
    BY <1>9, <2>1
  <2>2. CASE i \notin req[r].mark
    BY <1>1, <1>7, <1>10, <2>2 DEF LeftInv
  <2> QED
    BY <2>1, <2>2
<1>14. RowInv'
  <2> SUFFICES ASSUME NEW i \in Sound, NEW o \in Objects, rows[o] = i
               PROVE  \/ files'[i] = "whole"
                      \/ \E q \in Requests : i \in req'[q].mark /\ req'[q].pc \in Holding
                      \/ \E q \in Requests : /\ i \in req'[q].deleted
                                             /\ req'[q].pc \in {"marked", "database"}
    BY <1>2, <1>7 DEF RowInv
  <2>1. CASE i \in req[r].mark
    BY <1>9, <2>1
  <2>2. CASE i \notin req[r].mark
    <3>1. \A q \in Requests : req[q].pc \in {"marked", "database"} => q # r
      BY <1>2
    <3> QED
      BY <1>1, <1>7, <1>10, <2>2, <3>1 DEF RowInv
  <2> QED
    BY <2>1, <2>2
<1>15. WroteInv'
  <2> SUFFICES ASSUME NEW i \in Sound, NEW q \in Requests, NEW o \in W(q)',
                      req'[q].pc \in Acting, req'[q].wrote[o] = i
               PROVE  files'[i] = "whole"
    BY <1>7 DEF WroteInv
  <2>1. o \in W(q) /\ req[q].wrote[o] = i /\ req[q].pc \in Acting
    BY <1>7 DEF Holding
  <2> QED
    BY <1>1, <1>9, <1>10, <2>1 DEF WroteInv
<1> QED
  BY <1>5, <1>6, <1>11, <1>12, <1>13, <1>14, <1>15 DEF AInv
--------------------------------------------------------------------------------
(* Copies, the commit of the database, and the end of the process.             *)

\* A copy gives its object the instance of another one, whose row is locked.
LEMMA CopyKeeps ==
  ASSUME AInv, NEW r \in Requests, NEW o \in Objects, NEW to \in Objects,
         CopyAttachment(r, o, to)
  PROVE  AInv'
<1>1. /\ TypeInv /\ TypeOK /\ KindInv /\ PairInv /\ SeenInv /\ KnownInv /\ NewInv
      /\ GoneInv /\ MarkInv /\ DeletedInv /\ LastInv /\ SoleInv /\ LeftInv /\ RowInv
      /\ WroteInv /\ RequestOK(r)
  BY RequestType DEF AInv, TypeInv
<1>2. /\ Shape' /\ Alone(r) /\ MayDo(r, {"copy"}, {to})
      /\ Keeps(r, {"ops", "shared", "wrote"})
      /\ req'[r].ops = req[r].ops + 1 /\ req'[r].shared = req[r].shared \cup {o}
      /\ req'[r].wrote = Put(req[r].wrote, {to}, Over(rows, req[r].wrote)[o])
      /\ rows[to] = NoRow /\ o # to
      /\ \A q \in Others(r) : o \notin W(q) /\ req[q].obj # to
      /\ UNCHANGED <<rows, files, marked, next, known, spoiled>>
  BY <1>1, CopyEffect
<1>3. /\ req[r].pc = "ops" /\ req[r].kind = "copy" /\ to \notin W(r)
      /\ \A q \in Requests : q # r => to \notin W(q)
      /\ Gone(r) = {} /\ req[r].new = {} /\ req[r].mark = {} /\ req[r].deleted = {}
  <2>1. \A q \in Requests : q # r => {to} \cap W(q) = {}
    BY <1>1, <1>2, Locked DEF MayDo
  <2>2. req[r].pc = "ops" /\ req[r].kind = "copy" /\ to \notin W(r)
    BY <1>2 DEF MayDo, W
  <2> QED
    BY <1>1, <2>1, <2>2 DEF KindInv, Gone
<1>4. /\ req'[r].pc = "ops" /\ req'[r].kind = "copy" /\ req'[r].folder = req[r].folder
      /\ req'[r].new = {} /\ req'[r].mark = {} /\ req'[r].deleted = {} /\ Gone(r)' = {}
      /\ req'[r].view = req[r].view /\ (req'[r].seen <=> req[r].seen)
      /\ req'[r].unknown = req[r].unknown /\ req'[r].failed = req[r].failed
  BY <1>2, <1>3 DEF Keeps, Fields, Gone
<1> DEFINE x == IF o \in W(r) THEN req[r].wrote[o] ELSE rows[o]
<1>5. /\ W(r)' = W(r) \cup {to} /\ req'[r].wrote[to] = x
      /\ \A p \in W(r) : req'[r].wrote[p] = req[r].wrote[p]
  <2>1. Over(rows, req[r].wrote)[o] = x
    BY DEF Over, W
  <2> QED
    BY <1>2, <1>3, <2>1, Zenon DEF Put, W
<1> HIDE DEF x
<1>6. /\ \A q \in Requests : q # r =>
           req'[q] = req[q] /\ W(q)' = W(q) /\ Gone(q)' = Gone(q)
      /\ Sound' = Sound /\ Sound \subseteq Instances /\ NoRow \notin Instances
  BY <1>1, <1>2, Ids DEF Alone, W, Gone, Sound, Spoiled
<1>7. ASSUME NEW q \in Requests, q # r, req[q].pc # "idle" PROVE o \notin W(q) /\ req[q].obj # to
  BY <1>2, <1>7 DEF Others, Running
<1>8. x \in known \cup {NoRow} /\ x \in 0 .. next - 1
  <2>1. x \in known \cup {NoRow}
    BY <1>1, <1>3 DEF KnownInv, Acting, x
  <2>2. CASE x \in known
    BY <1>1, <2>2, Below DEF TypeOK
  <2>3. CASE x = NoRow
    BY <1>1, <2>3, AttachmentsAssumption DEF TypeOK, NoRow
  <2> QED
    BY <2>1, <2>2, <2>3
<1>9. TypeInv'
  <2>1. left' = left
    BY DEF CopyAttachment
  <2>2. req'[r].ops \in 0 .. MaxOps
    <3>1. req[r].ops < MaxOps
      BY <1>2, <1>3 DEF MayDo
    <3> QED
      BY <1>1, <1>2, <3>1, AttachmentsAssumption DEF RequestOK
  <2>3. RequestOK(r)'
    BY <1>1, <1>2, <1>4, <1>5, <1>8, <2>2 DEF RequestOK
  <2> QED
    BY <1>1, <1>2, <2>1, <2>3, TypeKeeps DEF TypeOK
<1>10. KindInv'
  <2> SUFFICES ASSUME NEW q \in Requests
               PROVE  /\ req'[q].pc # "idle" => req'[q].kind \in {"save", "copy", "delete"}
                      /\ req'[q].kind = "save" => \A p \in W(q)' : Folder[p] = req'[q].folder
                      /\ req'[q].kind = "delete" => /\ \A p \in W(q)' : req'[q].wrote[p] = NoRow
                                                    /\ req'[q].ops = 0 => ~ req'[q].seen
                      /\ req'[q].kind = "copy" => Gone(q)' = {} /\ req'[q].new = {}
                      /\ req'[q].pc = "linking" =>
                           /\ req'[q].kind = "save" /\ req'[q].obj \in Objects
                           /\ Folder[req'[q].obj] = req'[q].folder
                           /\ req'[q].obj \notin req'[q].unknown \cup W(q)'
                           /\ req'[q].ops < MaxOps
    BY DEF KindInv
  <2>1. CASE q # r
    BY <1>1, <1>6, <2>1 DEF KindInv
  <2>2. CASE q = r
    BY <1>4, <2>2
  <2> QED
    BY <2>1, <2>2
<1>11. PairInv'
  <2> SUFFICES ASSUME NEW p \in Requests, NEW q \in Requests, p # q
               PROVE  /\ W(p)' \cap W(q)' = {}
                      /\ /\ req'[p].pc # "idle" /\ req'[q].pc # "idle"
                         /\ req'[p].kind = "save" /\ req'[q].kind = "save"
                         => req'[p].folder # req'[q].folder
                      /\ req'[p].pc = "linking" /\ req'[q].kind = "copy" =>
                           req'[p].obj \notin W(q)'
    BY DEF PairInv
  <2>1. CASE p = r
    BY <1>1, <1>3, <1>4, <1>5, <1>6, <2>1 DEF PairInv
  <2>2. CASE q = r
    <3>1. req[p].pc = "linking" => req[p].obj # to /\ req[p].obj \notin W(r)
      BY <1>1, <1>3, <1>7, <2>2 DEF PairInv
    <3> QED
      BY <1>1, <1>3, <1>4, <1>5, <1>6, <2>2, <3>1 DEF PairInv
  <2>3. CASE p # r /\ q # r
    BY <1>1, <1>6, <2>3 DEF PairInv
  <2> QED
    BY <2>1, <2>2, <2>3
<1>12. SeenInv'
  BY <1>1, <1>2, <1>4, <1>6 DEF SeenInv
<1>13. KnownInv'
  <2>1. ASSUME NEW q \in Requests
        PROVE  /\ Gone(q)' \subseteq known
               /\ \A p \in Objects : req'[q].view[p] \in known \cup {NoRow}
               /\ req'[q].pc = "linking" => req'[q].inst \in known
               /\ req'[q].pc \in Acting =>
                    \A p \in W(q)' : req'[q].wrote[p] \in known \cup req'[q].new \cup {NoRow}
    <3>1. CASE q # r
      BY <1>1, <1>6, <3>1 DEF KnownInv
    <3>2. CASE q = r
      BY <1>1, <1>3, <1>4, <1>5, <1>8, <3>2 DEF KnownInv, Acting
    <3> QED
      BY <3>1, <3>2
  <2> QED
    BY <1>1, <1>2, <2>1 DEF KnownInv
<1>14. NewInv'
  BY <1>1, <1>2, <1>4, <1>6 DEF NewInv
<1>15. ASSUME NEW i \in Sound, NEW q \in Requests, req[q].pc \in Holding, i \in Gone(q)
       PROVE  x # i
  <2> SUFFICES ASSUME x = i PROVE FALSE
    OBVIOUS
  <2>1. q # r /\ req[q].pc # "idle"
    BY <1>3, <1>15 DEF Holding, Acting
  <2>2. CASE o \in W(r)
    BY <1>1, <1>15, <2>2 DEF GoneInv, x
  <2>3. CASE o \notin W(r)
    BY <1>1, <1>7, <1>15, <2>1, <2>3 DEF GoneInv, x
  <2> QED
    BY <2>2, <2>3
<1>16. GoneInv'
  <2> SUFFICES ASSUME NEW q \in Requests, NEW i \in Sound, req'[q].pc \in Holding,
                      i \in Gone(q)'
               PROVE  /\ \A p \in Objects : rows[p] = i => p \in W(q)'
                      /\ \A u \in Requests : \A p \in W(u)' : req'[u].wrote[p] # i
                      /\ \A u \in Requests : req'[u].pc = "linking" => req'[u].inst # i
    BY <1>2, <1>6 DEF GoneInv
  <2>1. q # r /\ req[q].pc \in Holding /\ i \in Gone(q)
    BY <1>4, <1>6
  <2>2. /\ \A p \in Objects : rows[p] = i => p \in W(q)
        /\ \A u \in Requests : \A p \in W(u) : req[u].wrote[p] # i
        /\ \A u \in Requests : req[u].pc = "linking" => req[u].inst # i
    BY <1>1, <2>1 DEF GoneInv
  <2>3. x # i
    BY <1>15, <2>1
  <2>4. \A u \in Requests : \A p \in W(u)' : req'[u].wrote[p] # i
    BY <1>5, <1>6, <2>2, <2>3
  <2> QED
    BY <1>4, <1>6, <2>1, <2>2, <2>4
<1>17. MarkInv' /\ DeletedInv'
  BY <1>1, <1>2, <1>4, <1>6 DEF MarkInv, DeletedInv
<1>18. ASSUME NEW q \in Requests, NEW p \in Objects, NEW i \in Sound, req'[q].pc \in Acting,
              p \in W(q)', rows[p] = i, req'[q].wrote[p] # i
       PROVE  Removes(q, p, i) /\ req[q].pc \in Acting
  <2>1. CASE q # r
    BY <1>6, <1>18, <2>1 DEF Removes
  <2>2. CASE q = r
    <3>1. p # to
      BY <1>2, <1>6, <1>18
    <3> QED
      BY <1>3, <1>5, <1>18, <2>2, <3>1 DEF Removes, Acting
  <2> QED
    BY <2>1, <2>2
<1>19. LastInv'
  <2> SUFFICES ASSUME NEW q \in Requests, NEW i \in Sound, NEW p \in Objects,
                      req'[q].pc \in Acting, p \in W(q)', rows[p] = i, req'[q].wrote[p] # i
               PROVE  \/ i \in Gone(q)'
                      \/ \E u \in Objects : \/ u \notin W(q)' /\ rows[u] = i
                                            \/ u \in W(q)' /\ req'[q].wrote[u] = i
    BY <1>2, <1>6 DEF LastInv, Removes
  <2>1. \/ i \in Gone(q)
        \/ \E u \in Objects : \/ u \notin W(q) /\ rows[u] = i
                              \/ u \in W(q) /\ req[q].wrote[u] = i
    BY <1>1, <1>18 DEF LastInv
  <2>2. CASE q # r
    BY <1>6, <2>1, <2>2
  <2>3. CASE q = r
    <3>1. PICK u \in Objects : \/ u \notin W(r) /\ rows[u] = i
                               \/ u \in W(r) /\ req[r].wrote[u] = i
      BY <1>3, <2>1, <2>3
    <3>2. rows[u] = i => u # to
      BY <1>2, <1>6
    <3> QED
      BY <1>5, <2>3, <3>1, <3>2
  <2> QED
    BY <2>2, <2>3
<1>20. SoleInv'
  <2> SUFFICES ASSUME NEW q \in Requests, NEW u \in Requests, NEW i \in Sound,
                      NEW s \in Objects, NEW p \in Objects, q # u,
                      req'[u].pc \in Acting, req'[q].pc \in Acting,
                      s \in W(u)', rows[s] = i, req'[u].wrote[s] # i,
                      p \in W(q)', rows[p] = i, req'[q].wrote[p] # i
               PROVE  FALSE
    BY <1>2, <1>6 DEF SoleInv, Removes
  <2>1. Removes(u, s, i) /\ Removes(q, p, i) /\ req[u].pc \in Acting /\ req[q].pc \in Acting
    BY <1>18
  <2> QED
    BY <1>1, <2>1 DEF SoleInv
<1>21. LeftInv' /\ RowInv'
  <2>1. \A q \in Requests : /\ req'[q].new = req[q].new /\ req'[q].mark = req[q].mark
                            /\ req'[q].deleted = req[q].deleted /\ req'[q].pc = req[q].pc
    BY <1>3, <1>4, <1>6
  <2> QED
    BY <1>1, <1>2, <1>6, <2>1 DEF LeftInv, RowInv
<1>22. WroteInv'
  <2> SUFFICES ASSUME NEW i \in Sound, NEW q \in Requests, NEW p \in W(q)',
                      req'[q].pc \in Acting, req'[q].wrote[p] = i
               PROVE  files[i] = "whole"
    BY <1>2, <1>6 DEF WroteInv
  <2>1. CASE q # r
    BY <1>1, <1>6, <2>1 DEF WroteInv
  <2>2. CASE q = r /\ p \in W(r)
    BY <1>1, <1>3, <1>5, <2>2 DEF WroteInv, Acting
  <2>3. CASE q = r /\ p = to
    <3>1. x = i
      BY <1>5, <2>3
    <3>2. CASE o \in W(r)
      BY <1>1, <1>3, <3>1, <3>2 DEF WroteInv, Acting, x
    <3>3. CASE o \notin W(r)
      <4>1. rows[o] = i
        BY <3>1, <3>3 DEF x
      <4>2. \A u \in Requests : ~ (i \in req[u].mark /\ req[u].pc \in Holding)
        BY <1>15, <3>1 DEF Gone
      <4>3. \A u \in Requests : ~ (i \in req[u].deleted /\ req[u].pc \in {"marked", "database"})
        BY <1>15, <3>1 DEF Gone, Holding, Acting
      <4> QED
        BY <1>1, <4>1, <4>2, <4>3 DEF RowInv
    <3> QED
      BY <3>2, <3>3
  <2> QED
    BY <1>5, <2>1, <2>2, <2>3
<1> QED
  BY <1>9, <1>10, <1>11, <1>12, <1>13, <1>14, <1>16, <1>17, <1>19, <1>20, <1>21, <1>22
     DEF AInv

\* The database commits the rows of r.
LEMMA DatabaseCommitKeeps ==
  ASSUME AInv, NEW r \in Requests, DatabaseCommit(r)
  PROVE  AInv'
<1>1. /\ TypeInv /\ TypeOK /\ KindInv /\ PairInv /\ SeenInv /\ KnownInv /\ NewInv
      /\ GoneInv /\ MarkInv /\ DeletedInv /\ LastInv /\ SoleInv /\ LeftInv /\ RowInv
      /\ WroteInv
  BY DEF AInv, TypeInv
<1>2. /\ Shape' /\ req[r].pc = "database" /\ req'[r] = Idle
      /\ \A q \in Requests : q # r =>
           /\ Keeps(q, {"unknown"})
           /\ req'[q].unknown \in {req[q].unknown, req[q].unknown \cup W(r)}
           /\ req[q].pc # "idle" /\ req[r].kind = "copy"
                => req'[q].unknown = req[q].unknown \cup W(r)
           /\ req[q].pc = "idle" => req'[q] = req[q]
      /\ rows' = Over(rows, req[r].wrote)
      /\ known' = known \cup ({req[r].wrote[o] : o \in W(r)} \ {NoRow})
      /\ UNCHANGED <<files, marked, next, spoiled>>
  BY <1>1, DatabaseCommitEffect
<1>3. /\ req'[r].pc = "idle" /\ W(r)' = {} /\ Gone(r)' = {} /\ req'[r].new = {}
      /\ req'[r].deleted = {} /\ req'[r].mark = {}
      /\ ~ req'[r].seen /\ \A o \in Objects : req'[r].view[o] = NoRow
  BY <1>2, IdleAfter
<1>4. \A q \in Requests : q # r =>
        /\ req'[q].pc = req[q].pc /\ req'[q].kind = req[q].kind
        /\ req'[q].folder = req[q].folder /\ req'[q].ops = req[q].ops
        /\ (req'[q].seen <=> req[q].seen) /\ req'[q].view = req[q].view
        /\ req'[q].wrote = req[q].wrote /\ req'[q].shared = req[q].shared
        /\ req'[q].new = req[q].new /\ req'[q].deleted = req[q].deleted
        /\ req'[q].mark = req[q].mark /\ req'[q].failed = req[q].failed
        /\ req'[q].obj = req[q].obj /\ req'[q].inst = req[q].inst
        /\ W(q)' = W(q) /\ Gone(q)' = Gone(q)
  BY <1>2 DEF Keeps, Fields, W, Gone
<1>5. /\ \A o \in Objects : /\ o \in W(r) => rows'[o] = req[r].wrote[o]
                            /\ o \notin W(r) => rows'[o] = rows[o]
      /\ W(r) \subseteq Objects
  BY <1>1, <1>2 DEF Over, W, TypeOK
<1>6. /\ Sound' = Sound /\ Sound \subseteq Instances /\ NoRow \notin Instances
      /\ \A q \in Requests : q # r => W(q) \cap W(r) = {}
      /\ req[r].pc \in Acting /\ req[r].pc \in Holding
  BY <1>1, <1>2, Ids DEF Sound, Spoiled, PairInv, Acting, Holding
<1>7. \A o \in W(r) : req[r].wrote[o] \in known \cup req[r].new \cup {NoRow}
  BY <1>1, <1>6 DEF KnownInv
<1>8. TypeInv'
  <2>1. rows' \in [Objects -> Instances \cup {NoRow}]
    <3>1. \A o \in W(r) : req[r].wrote[o] \in Instances \cup {NoRow}
      BY <1>1, AttachmentsAssumption DEF TypeOK, W, Instances, NoRow
    <3>2. \A o \in Objects : rows'[o] \in Instances \cup {NoRow}
      BY <1>1, <1>5, <3>1 DEF TypeOK
    <3> QED
      BY <1>2, <3>2 DEF Over
  <2>2. known' \subseteq 1 .. next - 1
    <3>1. req[r].new \subseteq 1 .. next - 1 /\ known \subseteq 1 .. next - 1
      BY <1>1 DEF TypeOK
    <3> QED
      BY <1>2, <1>7, <3>1
  <2>3. \A q \in Requests : RequestOK(q)'
    <3>1. ASSUME NEW q \in Requests PROVE RequestOK(q)'
      <4>1. CASE q = r
        BY <1>2, <4>1, AttachmentsAssumption DEF RequestOK, Idle, W
      <4>2. CASE q # r
        <5>1. RequestOK(q)
          BY <1>1, RequestType
        <5>2. req'[q].unknown \subseteq Objects
          BY <1>2, <1>5, <4>2, <5>1 DEF RequestOK
        <5> QED
          BY <1>2, <1>4, <4>2, <5>1, <5>2 DEF RequestOK
      <4> QED
        BY <4>1, <4>2
    <3> QED
      BY <3>1
  <2>4. left' = left
    BY DEF DatabaseCommit
  <2>5. TypeOK'
    BY <1>1, <1>2, <2>1, <2>2, <2>3, <2>4 DEF TypeOK, RequestOK, W
  <2> QED
    BY <1>2, <2>5 DEF TypeInv
<1>9. KindInv'
  <2> SUFFICES ASSUME NEW q \in Requests
               PROVE  /\ req'[q].pc # "idle" => req'[q].kind \in {"save", "copy", "delete"}
                      /\ req'[q].kind = "save" => \A o \in W(q)' : Folder[o] = req'[q].folder
                      /\ req'[q].kind = "delete" => /\ \A o \in W(q)' : req'[q].wrote[o] = NoRow
                                                    /\ req'[q].ops = 0 => ~ req'[q].seen
                      /\ req'[q].kind = "copy" => Gone(q)' = {} /\ req'[q].new = {}
                      /\ req'[q].pc = "linking" =>
                           /\ req'[q].kind = "save" /\ req'[q].obj \in Objects
                           /\ Folder[req'[q].obj] = req'[q].folder
                           /\ req'[q].obj \notin req'[q].unknown \cup W(q)'
                           /\ req'[q].ops < MaxOps
    BY DEF KindInv
  <2>1. CASE q = r
    BY <1>3, <2>1
  <2>2. CASE q # r
    <3>1. req[q].pc = "linking" => req[q].obj \notin req'[q].unknown
      <4>1. CASE req[r].kind = "copy"
        BY <1>1, <1>2, <2>2, <4>1 DEF KindInv, PairInv
      <4>2. CASE req[r].kind # "copy"
        <5>1. req'[q].unknown = req[q].unknown
          <6>1. req'[q] = req[q]
            BY <1>1, <2>2, <4>2 DEF DatabaseCommit, TypeInv, Shape
          <6> QED
            BY <6>1
        <5> QED
          BY <1>1, <5>1 DEF KindInv
      <4> QED
        BY <4>1, <4>2
    <3> QED
      BY <1>1, <1>4, <2>2, <3>1 DEF KindInv
  <2> QED
    BY <2>1, <2>2
<1>10. PairInv'
  BY <1>1, <1>3, <1>4 DEF PairInv
<1>11. SeenInv'
  <2> SUFFICES ASSUME NEW q \in Requests, NEW o \in Objects,
                      req'[q].kind = "save", req'[q].seen, Folder[o] = req'[q].folder,
                      o \notin req'[q].unknown \cup W(q)'
               PROVE  rows'[o] \in {req'[q].view[o], NoRow}
    BY DEF SeenInv
  <2>1. q # r
    BY <1>3
  <2>2. req[q].pc # "idle"
    BY <1>1, <1>4, <2>1, IdleFacts
  <2>3. CASE o \notin W(r)
    BY <1>1, <1>2, <1>4, <1>5, <2>1, <2>3 DEF SeenInv
  <2>4. CASE o \in W(r)
    <3>1. req[r].kind # "save"
      BY <1>1, <1>2, <1>4, <2>1, <2>2, <2>4 DEF KindInv, PairInv
    <3>2. req[r].kind # "copy"
      BY <1>2, <2>1, <2>2, <2>4
    <3>3. req[r].kind = "delete"
      BY <1>1, <1>2, <3>1, <3>2 DEF KindInv
    <3> QED
      BY <1>1, <1>5, <2>4, <3>3 DEF KindInv
  <2> QED
    BY <2>3, <2>4
<1>12. KnownInv'
  <2>1. \A o \in Objects : rows'[o] \in known' \cup {NoRow}
    BY <1>1, <1>2, <1>5 DEF KnownInv
  <2>2. \A i \in known' : files'[i] # "part" /\ marked'[i] # "part"
    BY <1>1, <1>2, <1>6, <1>7 DEF KnownInv, NewInv
  <2>3. known \subseteq known'
    BY <1>2
  <2>4. ASSUME NEW q \in Requests
        PROVE  /\ Gone(q)' \subseteq known'
               /\ \A p \in Objects : req'[q].view[p] \in known' \cup {NoRow}
               /\ req'[q].pc = "linking" => req'[q].inst \in known'
               /\ req'[q].pc \in Acting =>
                    \A p \in W(q)' : req'[q].wrote[p] \in known' \cup req'[q].new \cup {NoRow}
    <3>1. CASE q = r
      BY <1>3, <3>1
    <3>2. CASE q # r
      BY <1>1, <1>4, <2>3, <3>2 DEF KnownInv
    <3> QED
      BY <3>1, <3>2
  <2> QED
    BY <2>1, <2>2, <2>4 DEF KnownInv
<1>13. NewInv'
  <2>1. \A q \in Requests : req'[q].new \cap known' = {}
    <3>1. \A i \in known' : i \in known \/ i \in req[r].new
      BY <1>2, <1>7
    <3> QED
      BY <1>1, <1>3, <1>4, <3>1 DEF NewInv
  <2>2. \A p, q \in Requests : p # q => req'[p].new \cap req'[q].new = {}
    BY <1>1, <1>3, <1>4 DEF NewInv
  <2>3. \A q \in Requests : req'[q].pc \in Acting => \A i \in req'[q].new :
          /\ \E o \in W(q)' : req'[q].wrote[o] = i
          /\ files'[i] # "part" /\ marked'[i] # "part"
    BY <1>1, <1>2, <1>3, <1>4 DEF NewInv
  <2> QED
    BY <1>1, <1>2, <2>1, <2>2, <2>3 DEF NewInv
<1>14. ASSUME NEW i \in Sound, NEW q \in Requests, q # r, req[q].pc \in Holding, i \in Gone(q)
       PROVE  /\ \A o \in Objects : rows'[o] = i => o \in W(q) /\ rows[o] = i
              /\ \A o \in Objects : rows[o] = i => rows'[o] = i
  <2>1. /\ \A o \in Objects : rows[o] = i => o \in W(q)
        /\ \A o \in W(r) : req[r].wrote[o] # i
    BY <1>1, <1>14 DEF GoneInv
  <2> QED
    BY <1>5, <1>6, <1>14, <2>1
<1>15. GoneInv'
  <2> SUFFICES ASSUME NEW q \in Requests, NEW i \in Sound, req'[q].pc \in Holding,
                      i \in Gone(q)'
               PROVE  /\ \A p \in Objects : rows'[p] = i => p \in W(q)'
                      /\ \A u \in Requests : \A p \in W(u)' : req'[u].wrote[p] # i
                      /\ \A u \in Requests : req'[u].pc = "linking" => req'[u].inst # i
    BY <1>6 DEF GoneInv
  <2>1. q # r /\ req[q].pc \in Holding /\ i \in Gone(q)
    BY <1>3, <1>4
  <2>2. /\ \A u \in Requests : \A p \in W(u) : req[u].wrote[p] # i
        /\ \A u \in Requests : req[u].pc = "linking" => req[u].inst # i
    BY <1>1, <2>1 DEF GoneInv
  <2> QED
    BY <1>3, <1>4, <1>14, <2>1, <2>2
<1>16. MarkInv'
  <2> SUFFICES ASSUME NEW q \in Requests, NEW i \in Sound, req'[q].pc \in Holding,
                      i \in req'[q].mark
               PROVE  /\ \E o \in Objects : rows'[o] = i
                      /\ files[i] = "none"
                      /\ req'[q].pc # "database" => marked[i] = "whole"
                      /\ req'[q].pc = "database" => marked[i] = "none"
    BY <1>2, <1>6 DEF MarkInv
  <2>1. q # r /\ req[q].pc \in Holding /\ i \in req[q].mark
    BY <1>3, <1>4
  <2>2. i \in Gone(q)
    BY <2>1 DEF Gone
  <2> QED
    BY <1>1, <1>4, <1>14, <2>1, <2>2 DEF MarkInv
<1>17. DeletedInv'
  BY <1>1, <1>2, <1>3, <1>4, <1>6 DEF DeletedInv
<1>18. ASSUME NEW q \in Requests, NEW o \in Objects, NEW i \in Sound, req'[q].pc \in Acting,
              o \in W(q)', rows'[o] = i, req'[q].wrote[o] # i
       PROVE  q # r /\ Removes(q, o, i) /\ req[q].pc \in Acting
  <2>1. q # r
    BY <1>3, <1>18
  <2>2. o \in W(q) /\ o \notin W(r)
    BY <1>4, <1>6, <1>18, <2>1
  <2> QED
    BY <1>4, <1>5, <1>18, <2>1, <2>2 DEF Removes
<1>19. LastInv'
  <2> SUFFICES ASSUME NEW q \in Requests, NEW i \in Sound, NEW p \in Objects,
                      req'[q].pc \in Acting, p \in W(q)', rows'[p] = i, req'[q].wrote[p] # i
               PROVE  \/ i \in Gone(q)'
                      \/ \E u \in Objects : \/ u \notin W(q)' /\ rows'[u] = i
                                            \/ u \in W(q)' /\ req'[q].wrote[u] = i
    BY <1>6 DEF LastInv, Removes
  <2>1. q # r /\ Removes(q, p, i) /\ req[q].pc \in Acting
    BY <1>18
  <2>2. CASE i \in Gone(q)
    BY <1>4, <2>1, <2>2
  <2>3. CASE \E u \in Objects : u \in W(q) /\ req[q].wrote[u] = i
    BY <1>4, <2>1, <2>3
  <2>4. ASSUME NEW u \in Objects, u \notin W(q), rows[u] = i
        PROVE  u \notin W(q)' /\ rows'[u] = i
    <3>1. ~ Removes(r, u, i)
      BY <1>1, <1>6, <2>1 DEF SoleInv
    <3> QED
      BY <1>4, <1>5, <2>1, <2>4, <3>1 DEF Removes
  <2> QED
    BY <1>1, <2>1, <2>2, <2>3, <2>4 DEF LastInv
<1>20. SoleInv'
  <2> SUFFICES ASSUME NEW q \in Requests, NEW u \in Requests, NEW i \in Sound,
                      NEW s \in Objects, NEW p \in Objects, q # u,
                      req'[u].pc \in Acting, req'[q].pc \in Acting,
                      s \in W(u)', rows'[s] = i, req'[u].wrote[s] # i,
                      p \in W(q)', rows'[p] = i, req'[q].wrote[p] # i
               PROVE  FALSE
    BY <1>6 DEF SoleInv, Removes
  <2>1. Removes(u, s, i) /\ Removes(q, p, i) /\ req[u].pc \in Acting /\ req[q].pc \in Acting
    BY <1>18
  <2> QED
    BY <1>1, <2>1 DEF SoleInv
<1>21. ASSUME NEW i \in Sound, files[i] # "none", NEW o \in Objects, rows[o] = i
       PROVE  \E p \in Objects : rows'[p] = i
  <2>1. CASE ~ Removes(r, o, i)
    BY <1>5, <1>21, <2>1 DEF Removes
  <2>2. CASE Removes(r, o, i)
    <3>1. i \notin req[r].mark
      BY <1>1, <1>6, <1>21 DEF MarkInv
    <3>2. i \notin req[r].deleted
      BY <1>1, <1>2, <1>21 DEF DeletedInv
    <3>3. PICK p \in Objects : \/ p \notin W(r) /\ rows[p] = i
                               \/ p \in W(r) /\ req[r].wrote[p] = i
      BY <1>1, <1>6, <2>2, <3>1, <3>2 DEF LastInv, Gone
    <3> QED
      BY <1>5, <3>3
  <2> QED
    BY <2>1, <2>2
<1>22. LeftInv'
  <2> SUFFICES ASSUME NEW i \in Sound
               PROVE  /\ files[i] # "none" =>
                          \/ \E o \in Objects : rows'[o] = i
                          \/ \E q \in Requests : i \in req'[q].new
                                                 /\ req'[q].pc \in Acting \cup {"undo"}
                      /\ marked[i] # "none" =>
                          \E q \in Requests : i \in req'[q].mark
                                              /\ req'[q].pc \in Holding \ {"database"}
    BY <1>2, <1>6 DEF LeftInv
  <2>1. ASSUME NEW q \in Requests, i \in req[q].new, req[q].pc \in Acting \cup {"undo"}
        PROVE  \/ \E o \in Objects : rows'[o] = i
               \/ i \in req'[q].new /\ req'[q].pc \in Acting \cup {"undo"}
    <3>1. CASE q # r
      BY <1>4, <2>1, <3>1
    <3>2. CASE q = r
      <4>1. PICK o \in W(r) : req[r].wrote[o] = i
        BY <1>1, <1>6, <2>1, <3>2 DEF NewInv
      <4> QED
        BY <1>5, <4>1
    <3> QED
      BY <3>1, <3>2
  <2>2. ASSUME NEW q \in Requests, i \in req[q].mark, req[q].pc \in Holding \ {"database"}
        PROVE  i \in req'[q].mark /\ req'[q].pc \in Holding \ {"database"}
    BY <1>2, <1>4, <2>2
  <2> QED
    BY <1>1, <1>21, <2>1, <2>2 DEF LeftInv
<1>23. RowInv'
  <2> SUFFICES ASSUME NEW i \in Sound, NEW o \in Objects, rows'[o] = i
               PROVE  \/ files[i] = "whole"
                      \/ \E q \in Requests : i \in req'[q].mark /\ req'[q].pc \in Holding
                      \/ \E q \in Requests : /\ i \in req'[q].deleted
                                             /\ req'[q].pc \in {"marked", "database"}
    BY <1>2, <1>6 DEF RowInv
  <2>1. CASE o \in W(r)
    BY <1>1, <1>5, <1>6, <2>1 DEF WroteInv
  <2>2. CASE o \notin W(r)
    <3>1. rows[o] = i /\ i \notin Gone(r)
      BY <1>1, <1>5, <1>6, <2>2 DEF GoneInv
    <3>2. \A q \in Requests : i \in req[q].mark \cup req[q].deleted => q # r
      BY <3>1 DEF Gone
    <3> QED
      BY <1>1, <1>4, <3>1, <3>2 DEF RowInv
  <2> QED
    BY <2>1, <2>2
<1>24. WroteInv'
  <2> SUFFICES ASSUME NEW i \in Sound, NEW q \in Requests, NEW p \in W(q)',
                      req'[q].pc \in Acting, req'[q].wrote[p] = i
               PROVE  files[i] = "whole"
    BY <1>2, <1>6 DEF WroteInv
  <2> QED
    BY <1>1, <1>3, <1>4 DEF WroteInv
<1> QED
  BY <1>8, <1>9, <1>10, <1>11, <1>12, <1>13, <1>15, <1>16, <1>17, <1>19, <1>20, <1>22,
     <1>23, <1>24 DEF AInv

\* When no request is running, only rows and files are left.
LEMMA QuietKeeps ==
  ASSUME TypeInv', \A r \in Requests : req'[r] = Idle,
         \A i \in Instances : i >= next' => files'[i] = "none" /\ marked'[i] = "none",
         \A i \in known' : files'[i] # "part" /\ marked'[i] # "part",
         \A o \in Objects : rows'[o] \in known' \cup {NoRow},
         \A i \in Sound' : /\ files'[i] # "none" => \E o \in Objects : rows'[o] = i
                           /\ marked'[i] = "none"
                           /\ \A o \in Objects : rows'[o] = i => files'[i] = "whole"
  PROVE  AInv'
<1>1. \A r \in Requests :
        /\ req'[r].pc = "idle" /\ W(r)' = {} /\ Gone(r)' = {} /\ req'[r].new = {}
        /\ req'[r].deleted = {} /\ req'[r].mark = {}
        /\ ~ req'[r].seen /\ \A o \in Objects : req'[r].view[o] = NoRow
  BY IdleAfter
<1>2. KindInv'
  BY <1>1 DEF KindInv
<1>3. PairInv' /\ SeenInv'
  BY <1>1 DEF PairInv, SeenInv
<1>4. KnownInv' /\ NewInv'
  BY <1>1 DEF KnownInv, NewInv, Acting
<1>5. GoneInv' /\ MarkInv' /\ DeletedInv'
  BY <1>1 DEF GoneInv, MarkInv, DeletedInv
<1>6. LastInv' /\ SoleInv' /\ WroteInv'
  BY <1>1 DEF LastInv, SoleInv, WroteInv, Acting
<1>7. LeftInv' /\ RowInv'
  BY DEF LeftInv, RowInv
<1> QED
  BY <1>2, <1>3, <1>4, <1>5, <1>6, <1>7 DEF AInv

\* After a crash only the files of committed rows are there, but for spoiled ones.
LEMMA CrashKeeps ==
  ASSUME AInv, Crash
  PROVE  AInv'
<1>1. TypeInv /\ TypeOK /\ KnownInv /\ NewInv /\ LeftInv /\ RowInv
  BY DEF AInv, TypeInv
<1>2. /\ Shape' /\ \A r \in Requests : req'[r] = Idle
      /\ spoiled \subseteq spoiled'
      /\ \A r \in Requests : req[r].pc # "idle" =>
           \A i \in Settled(r) : <<i, "crash">> \in spoiled'
      /\ UNCHANGED <<rows, files, marked, next, known>>
  BY <1>1, CrashEffect
<1>3. \A r \in Requests, i \in Sound' :
        i \notin req[r].new /\ i \notin req[r].mark /\ i \notin req[r].deleted
  <2> SUFFICES ASSUME NEW r \in Requests, NEW i \in Sound', i \in Settled(r) PROVE FALSE
    BY DEF Settled
  <2>1. req[r].pc # "idle"
    BY <1>1, IdleFacts DEF Settled
  <2> QED
    BY <1>2, <2>1, Grows
<1>4. Sound' \subseteq Sound
  BY <1>2, Grows
<1>5. TypeInv'
  <2>1. left' = left /\ spoiled' \subseteq Instances \X Reasons
    <3>1. \A r \in Requests : Settled(r) \subseteq Instances
      BY <1>1, AttachmentsAssumption DEF Settled, TypeOK, Instances
    <3> QED
      BY <1>1, <3>1 DEF Crash, TypeOK, Reasons, Running
  <2>2. ASSUME NEW q \in Requests PROVE RequestOK(q)'
    <3>1. req'[q] = Idle
      BY <1>2
    <3> QED
      BY <3>1, AttachmentsAssumption DEF RequestOK, Idle, W
  <2>3. TypeOK'
    BY <1>1, <1>2, <2>1, <2>2 DEF TypeOK, RequestOK, W
  <2> QED
    BY <1>2, <2>3 DEF TypeInv
<1> QED
  BY <1>1, <1>2, <1>3, <1>4, <1>5, QuietKeeps DEF KnownInv, NewInv, LeftInv, RowInv
--------------------------------------------------------------------------------
\* The invariant holds before the first request.
LEMMA AInit ==
  Init => AInv
<1> SUFFICES ASSUME Init PROVE AInv
  OBVIOUS
<1>1. /\ rows \in [Objects -> {NoRow, 1}] /\ next = 2 /\ known = {1} /\ spoiled = {}
      /\ req = [r \in Requests |-> Idle] /\ left = MaxTransactions
      /\ files = [i \in Instances |-> IF \E o \in Objects : rows[o] = i
                                      THEN "whole" ELSE "none"]
      /\ marked = [i \in Instances |-> "none"]
  BY DEF Init
<1>2. 1 \in Instances /\ NoRow \notin Instances /\ 2 \in 1 .. MaxInstance + 1
  BY AttachmentsAssumption DEF Instances, NoRow
<1>3. \A r \in Requests : req[r] = Idle
  BY <1>1
<1>4. TypeInv
  <2>1. Idle = [x \in Fields |-> Idle[x]]
    BY DEF Idle, Fields
  <2>2. TypeOK
    <3>1. /\ rows \in [Objects -> Instances \cup {NoRow}]
          /\ files \in [Instances -> {"none", "part", "whole"}]
          /\ marked \in [Instances -> {"none", "part", "whole"}]
          /\ next \in 1 .. MaxInstance + 1 /\ known \subseteq 1 .. next - 1
          /\ left \in 0 .. MaxTransactions /\ spoiled \subseteq Instances \X Reasons
      BY <1>1, <1>2, AttachmentsAssumption
    <3>2. \A r \in Requests : RequestOK(r)
      BY <1>1, <1>3, AttachmentsAssumption DEF RequestOK, Idle, W
    <3> QED
      BY <3>1, <3>2 DEF TypeOK, RequestOK, W
  <2> QED
    BY <1>1, <1>3, <2>1, <2>2 DEF TypeInv, Shape
<1>5. \A r \in Requests :
        /\ req[r].pc = "idle" /\ W(r) = {} /\ Gone(r) = {} /\ req[r].new = {}
        /\ req[r].deleted = {} /\ req[r].mark = {}
        /\ ~ req[r].seen /\ \A o \in Objects : req[r].view[o] = NoRow
  BY <1>3, <1>4, IdleFacts DEF Idle
<1>6. \A i \in Instances : i >= 2 => files[i] = "none"
  <2>1. \A i \in Instances : i >= 2 => i # 1 /\ i # NoRow
    BY <1>2 DEF Instances
  <2> QED
    BY <1>1, <2>1
<1>7. KindInv /\ PairInv /\ SeenInv
  BY <1>5 DEF KindInv, PairInv, SeenInv
<1>8. KnownInv /\ NewInv
  BY <1>1, <1>2, <1>5, <1>6 DEF KnownInv, NewInv, Acting
<1>9. GoneInv /\ MarkInv /\ DeletedInv
  BY <1>5 DEF GoneInv, MarkInv, DeletedInv
<1>10. LastInv /\ SoleInv /\ WroteInv
  BY <1>5 DEF LastInv, SoleInv, WroteInv, Acting
<1>11. LeftInv /\ RowInv
  <2>1. Sound \subseteq Instances
    BY DEF Sound
  <2> QED
    BY <1>1, <2>1 DEF LeftInv, RowInv
<1> QED
  BY <1>4, <1>7, <1>8, <1>9, <1>10, <1>11 DEF AInv

\* Stuttering changes nothing.
LEMMA AStutter ==
  ASSUME AInv, UNCHANGED vars
  PROVE  AInv'
<1>1. UNCHANGED <<rows, files, marked, next, known, req, left, spoiled>>
  BY DEF vars
<1>2. /\ TypeInv' /\ KindInv' /\ PairInv' /\ SeenInv' /\ KnownInv' /\ NewInv'
  BY <1>1 DEF AInv, TypeInv, TypeOK, Shape, KindInv, PairInv, SeenInv, KnownInv, NewInv,
              W, Gone
<1>3. Sound' = Sound
  BY <1>1 DEF Sound, Spoiled
<1>4. GoneInv' /\ MarkInv' /\ DeletedInv' /\ LastInv' /\ SoleInv'
  BY <1>1, <1>3 DEF AInv, GoneInv, MarkInv, DeletedInv, LastInv, SoleInv, Removes, W, Gone
<1>5. LeftInv' /\ RowInv' /\ WroteInv'
  BY <1>1, <1>3 DEF AInv, LeftInv, RowInv, WroteInv, W
<1> QED
  BY <1>2, <1>4, <1>5 DEF AInv

\* Every step keeps the invariant.
LEMMA ANext ==
  AInv /\ [Next]_vars => AInv'
<1> SUFFICES ASSUME AInv, [Next]_vars PROVE AInv'
  OBVIOUS
<1>0. TypeInv /\ KindInv /\ KnownInv
  BY DEF AInv
<1>1. ASSUME NEW r \in Requests, NEW kind \in {"save", "copy", "delete"},
             NEW f \in Folders \cup {None}, Begin(r, kind, f)
      PROVE  AInv'
  BY <1>1, BeginKeeps
<1>2. ASSUME NEW r \in Requests, TakeSnapshot(r) PROVE AInv'
  BY <1>2, SnapshotKeeps
<1>3. ASSUME NEW r \in Requests, NEW o \in Objects,
             NEW written \in {"none", "part", "whole"}, SaveAttachment(r, o, written)
      PROVE  AInv'
  <2>1. PICK A : Op(r, {o}, next, A, {}) /\ Stored(r, next)
    BY <1>0, <1>3, SaveEffect
  <2>2. Writes(r, {o}, next, A, {})
    BY <2>1 DEF Writes
  <2> QED
    BY <2>2, WritesKeeps
<1>4. ASSUME NEW r \in Requests, NEW o \in Objects, NEW i \in Instances,
             NEW admin \in BOOLEAN, ExistAttachmentInstance(r, o, i, admin)
      PROVE  AInv'
  BY <1>4, ExistKeeps
<1>5. ASSUME NEW r \in Requests, NEW o \in Objects, NEW to \in Objects,
             CopyAttachment(r, o, to)
      PROVE  AInv'
  BY <1>5, CopyKeeps
<1>6. ASSUME NEW r \in Requests, SaveInstance(r) PROVE AInv'
  <2>1. CASE /\ Shape' /\ Alone(r) /\ Keeps(r, {"pc", "ops", "obj", "inst"})
             /\ req[r].pc = "linking" /\ req'[r].pc = "ops" /\ req[r].kind = "save"
             /\ req'[r].ops \in 1 .. MaxOps
             /\ UNCHANGED <<rows, files, marked, next, known, left, spoiled>>
    BY <2>1, SameInstanceKeeps
  <2>2. ASSUME NEW S, NEW v, NEW A, Op(r, S, v, A, {}), Linked(r, v) PROVE AInv'
    <3>1. Writes(r, S, v, A, {})
      BY <2>2 DEF Writes
    <3> QED
      BY <3>1, WritesKeeps
  <2> QED
    BY <1>0, <1>6, <2>1, <2>2, InstanceEffect
<1>7. ASSUME NEW r \in Requests, NEW S \in SUBSET Objects, DeleteAttachments(r, S)
      PROVE  AInv'
  <2>1. PICK T, D : Op(r, T, NoRow, {}, D) /\ Removed(r, NoRow)
    BY <1>0, <1>7, DeleteEffect
  <2>2. Writes(r, T, NoRow, {}, D)
    BY <2>1 DEF Writes
  <2> QED
    BY <2>2, WritesKeeps
<1>8. ASSUME NEW r \in Requests, Fail(r) PROVE AInv'
  <2>1. left' = left
    BY <1>8 DEF Fail
  <2> QED
    BY <1>0, <1>8, <2>1, FailEffect, UndoKeeps
<1>9. ASSUME NEW r \in Requests, NEW failed \in SUBSET Instances, Commit(r, failed)
      PROVE  AInv'
  BY <1>9, CommitKeeps
<1>10. ASSUME NEW r \in Requests, DeleteMarkedAttachments(r) PROVE AInv'
  BY <1>10, DeleteMarkedKeeps
<1>11. ASSUME NEW r \in Requests, DatabaseCommit(r) PROVE AInv'
  BY <1>11, DatabaseCommitKeeps
<1>12. ASSUME NEW r \in Requests, DatabaseCommitFails(r) PROVE AInv'
  BY <1>12, CommitFailsKeeps
<1>13. ASSUME NEW r \in Requests, Rollback(r) PROVE AInv'
  BY <1>13, RollbackKeeps
<1>14. ASSUME NEW r \in Requests, RestoreMarkedAttachments(r) PROVE AInv'
  BY <1>14, RestoreKeeps
<1>15. ASSUME NEW r \in Requests, DatabaseRollback(r) PROVE AInv'
  BY <1>15, EndKeeps
<1>16. CASE Crash
  BY <1>16, CrashKeeps
<1>17. CASE UNCHANGED vars
  BY <1>17, AStutter
<1> QED
  BY <1>1, <1>2, <1>3, <1>4, <1>5, <1>6, <1>7, <1>8, <1>9, <1>10, <1>11, <1>12, <1>13,
     <1>14, <1>15, <1>16, <1>17 DEF Next

\* The inductive invariant holds in every state that the storage reaches.
THEOREM Invariance == Spec => []AInv
<1>1. Init => AInv
  BY AInit
<1>2. AInv /\ [Next]_vars => AInv'
  BY ANext
<1> QED
  BY <1>1, <1>2, PTL DEF Spec

\* Every variable has its type; the ids of instances are those given out so far.
THEOREM TypeCorrect == Spec => []TypeOK
<1>1. AInv => TypeOK
  BY DEF AInv, TypeInv
<1> QED
  BY <1>1, Invariance, PTL

\* No file is left without a row, and none aside, but by a request that is still
\* running or for a reason that the history names.
THEOREM NothingIsLeftBehind == Spec => []NothingLeftBehind
<1>1. AInv => NothingLeftBehind
  BY DEF AInv, LeftInv, NothingLeftBehind, Sound
<1> QED
  BY <1>1, Invariance, PTL

\* The data of a committed row can be read or comes back, but between the unlink and
\* the commit of the transaction that removes the row.
THEOREM ReferencesAreGood == Spec => []ReferencesHaveData
<1>1. AInv => ReferencesHaveData
  <2> SUFFICES ASSUME AInv, NEW o \in Objects, rows[o] # NoRow, rows[o] \notin Spoiled
               PROVE  \/ files[rows[o]] = "whole"
                      \/ \E r \in Requests : rows[o] \in req[r].mark /\ marked[rows[o]] = "whole"
                      \/ \E r \in Requests :
                           /\ o \in DOMAIN req[r].wrote /\ req[r].wrote[o] # rows[o]
                           /\ req[r].pc \in {"marked", "database"}
                           /\ rows[o] \in req[r].deleted \cup req[r].mark
    BY DEF ReferencesHaveData
  <2> DEFINE i == rows[o]
  <2>1. i \in Sound
    BY DEF AInv, TypeInv, TypeOK, Sound
  <2>2. ASSUME NEW r \in Requests, i \in Gone(r), req[r].pc \in Holding
        PROVE  o \in W(r) /\ req[r].wrote[o] # i
    BY <2>1, <2>2 DEF AInv, GoneInv
  <2>3. ASSUME NEW r \in Requests, i \in req[r].mark, req[r].pc \in Holding
        PROVE  \/ marked[i] = "whole"
               \/ o \in W(r) /\ req[r].wrote[o] # i /\ req[r].pc = "database"
    <3>1. o \in W(r) /\ req[r].wrote[o] # i
      BY <2>2, <2>3 DEF Gone
    <3> QED
      BY <2>1, <2>3, <3>1 DEF AInv, MarkInv
  <2>4. ASSUME NEW r \in Requests, i \in req[r].deleted, req[r].pc \in {"marked", "database"}
        PROVE  o \in W(r) /\ req[r].wrote[o] # i
    BY <2>2, <2>4 DEF Gone, Holding, Acting
  <2>5. \/ files[i] = "whole"
        \/ \E r \in Requests : i \in req[r].mark /\ req[r].pc \in Holding
        \/ \E r \in Requests : i \in req[r].deleted /\ req[r].pc \in {"marked", "database"}
    BY <2>1 DEF AInv, RowInv
  <2> QED
    BY <2>3, <2>4, <2>5 DEF W
<1> QED
  BY <1>1, Invariance, PTL
================================================================================
