--------------------------- MODULE SearchFolders ---------------------------
(***************************************************************************)
(* Search folders: ECSearchFolders (src/provider/libserver).               *)
(*                                                                         *)
(* The results of a search folder are rows in the database.  A search      *)
(* thread builds them when the criteria are set; after that one thread     *)
(* keeps them up to date from the events that requests queue when they     *)
(* have changed messages.  Building, updating, changing messages, setting  *)
(* and stopping searches all go on at the same time, and the server may be *)
(* restarted at any moment.                                                *)
(*                                                                         *)
(* An action is a database transaction, or what is done under one mutex;   *)
(* the transactions that read messages and then write results are split    *)
(* between the two.                                                        *)
(***************************************************************************)
EXTENDS Integers, Sequences, FiniteSets

CONSTANTS
  SFolders,   \* search folders
  Msgs,       \* messages
  Places,     \* ordinary folders: their hierarchy ids, at least 1
  Targets,    \* the folders that are searched
  Procs,      \* threads that execute requests
  Insts,      \* SEARCHFOLDER objects
  BatchSize,  \* rows a search reads at a time (20 in the code)
  MaxChanges, \* bound: message changes
  MaxSets,    \* bound: requests that set, stop or remove a search
  MaxMishaps, \* bound: restarts of the server and database errors
  MaxTotal,   \* bound: all of these together
  None

ASSUME SearchFoldersAssumption ==
  /\ Places \subseteq Nat \ {0} /\ Targets \subseteq Places
  /\ None \notin Insts \cup SFolders \cup Msgs \cup {"process"}
  /\ "process" \notin Insts
  \* there are objects enough for all search folders: the code makes them on the heap
  /\ \E obj \in [SFolders -> Insts] : \A f, g \in SFolders : obj[f] = obj[g] => f = g
  /\ BatchSize \in Nat \ {0}
  /\ {MaxChanges, MaxSets, MaxMishaps, MaxTotal} \subseteq Nat

VARIABLES
  place,    \* the folder of a message; 0: not created yet; -1: deleted
  match,    \* the message satisfies the restriction
  status,   \* PR_EC_SEARCHFOLDER_STATUS
  saved,    \* search folders whose criteria are in the database
  results,  \* table searchresults
  rowLock,  \* owner of the row lock on the search folder (SELECT .. FOR UPDATE)
  active,   \* m_mapSearchFolders
  folder, threadExit, \* SEARCHFOLDER: ulFolderId (None: deleted), bThreadExit
  spc, todo, found, \* search threads: program counter, rows still to read,
            \* matches of the batch that was read; "finished": bThreadFree
  events,   \* m_lstEvents
  batch, ppc, group, left, cur, \* process thread: sorted events, program
            \* counter, the run of equal events, search folders left, current
  hits,     \* messages of the group that match
  pc, op, arg, inst, pending, \* request threads: program counter, operation,
            \* search folder, SEARCHFOLDER to destroy, event still to be queued
  spoiled,  \* history: <<reason, message>>, why results may be wrong
  current,  \* history: search folders whose results are complete and kept so
  sets, changes, mishaps \* counters for the bounds

msgVars     == <<place, match>>
rowVars     == <<status, saved, results, rowLock>>
objVars     == <<active, folder, threadExit>>
searchVars  == <<spc, todo, found>>
eventVars   == <<events, batch, ppc, group, left, cur, hits>>
procVars    == <<pc, op, arg, inst, pending>>
boundVars   == <<sets, changes, mishaps>>
vars == <<msgVars, rowVars, objVars, searchVars, eventVars, procVars, spoiled,
          current, boundVars>>

Status == {"RUNNING", "REBUILD", "STOPPED"}
Reasons == {"restart", "crash", "halfbuilt", "order", "crossed", "stray", "giveup",
            "concurrent"}
Event == [place : Places, msg : Msgs, type : {"ADD", "MODIFY", "DELETE"}]
NoGroup == [place |-> 0, type |-> "MODIFY", msgs |-> {}]
Group == [place : Places, type : {"ADD", "MODIFY", "DELETE"}, msgs : SUBSET Msgs]

SearchPc == {"none", "reset", "select", "batch", "commit", "status", "complete",
             "finished"}
ProcessPc == {"top", "waiting", "flush", "groups", "folder", "update"}
ProcPc == {"idle", "destroy", "stopped", "rebuild", "reset", "insert", "save",
           "notify"}

(* The type of every variable, from ECSearchFolders.h. *)
TypeOK ==
  /\ place \in [Msgs -> Places \cup {0, -1}] /\ match \in [Msgs -> BOOLEAN]
  /\ status \in [SFolders -> Status] /\ saved \subseteq SFolders
  /\ results \in [SFolders -> SUBSET Msgs]
  /\ rowLock \in [SFolders -> Insts \cup {"process", None}]
  /\ active \in [SFolders -> Insts \cup {None}]
  /\ folder \in [Insts -> SFolders \cup {None}]
  /\ threadExit \subseteq Insts
  /\ spc \in [Insts -> SearchPc]
  /\ todo \in [Insts -> SUBSET Msgs] /\ found \in [Insts -> SUBSET Msgs]
  /\ events \in Seq(Event) /\ batch \in Seq(Event) /\ ppc \in ProcessPc
  /\ group \in Group \cup {NoGroup} /\ left \subseteq SFolders
  /\ cur \in SFolders \cup {None} /\ hits \subseteq Msgs
  /\ pc \in [Procs -> ProcPc] /\ op \in [Procs -> {"set", "stop", "remove", None}]
  /\ arg \in [Procs -> SFolders \cup {None}] /\ inst \in [Procs -> Insts \cup {None}]
  /\ pending \in [Procs -> Event \cup {None}]
  /\ spoiled \subseteq Reasons \X Msgs /\ current \subseteq SFolders
  /\ sets \in 0..MaxSets /\ changes \in 0..MaxChanges
  /\ mishaps \in 0..MaxMishaps

(* Search folders are created without criteria, and no status is "running". *)
Init ==
  /\ place = [m \in Msgs |-> 0] /\ match = [m \in Msgs |-> FALSE]
  /\ status = [f \in SFolders |-> "RUNNING"] /\ saved = {}
  /\ results = [f \in SFolders |-> {}] /\ rowLock = [f \in SFolders |-> None]
  /\ active = [f \in SFolders |-> None] /\ folder = [i \in Insts |-> None]
  /\ threadExit = {}
  /\ spc = [i \in Insts |-> "none"]
  /\ todo = [i \in Insts |-> {}] /\ found = [i \in Insts |-> {}]
  /\ events = <<>> /\ batch = <<>> /\ ppc = "top"
  /\ group = NoGroup /\ left = {} /\ cur = None /\ hits = {}
  /\ pc = [p \in Procs |-> "idle"] /\ op = [p \in Procs |-> None]
  /\ arg = [p \in Procs |-> None] /\ inst = [p \in Procs |-> None]
  /\ pending = [p \in Procs |-> None]
  /\ spoiled = {} /\ current = {}
  /\ sets = 0 /\ changes = 0 /\ mishaps = 0

-----------------------------------------------------------------------------
(* ProcessMessageChange holds m_mutexMapSearchFolders from end to end. *)
MapLocked == ppc \in {"folder", "update"}

InTarget(m) == place[m] \in Targets

(* The search thread of i is running. *)
Searching(i) == spc[i] \notin {"none", "finished"}

(* The SEARCHFOLDER objects of f, and those of None: not created yet. *)
Objects(f) == {i \in Insts : folder[i] = f}

Goto(p, label) == pc' = [pc EXCEPT ![p] = label]

(* The request of p goes on at label, or is done. *)
Continue(p, label) ==
  /\ Goto(p, label)
  /\ op' = [op EXCEPT ![p] = IF label = "idle" THEN None ELSE @]
  /\ arg' = [arg EXCEPT ![p] = IF label = "idle" THEN None ELSE @]

SearchGoto(i, label) == spc' = [spc EXCEPT ![i] = label]

(* The bounds on requests, changes and mishaps together *)
Within == sets + changes + mishaps < MaxTotal

(* A database error or a restart of the server *)
Mishap == mishaps < MaxMishaps /\ Within /\ mishaps' = mishaps + 1
NoFault == UNCHANGED mishaps

-----------------------------------------------------------------------------
(* Requests that set, stop or remove a search folder. *)

(* What comes after CancelSearchFolder *)
AfterCancel(o) ==
  CASE o = "set" -> "rebuild" [] o = "remove" -> "reset" [] OTHER -> "idle"

(* CancelSearchFolder: the folder is taken out of the map and its thread is  *)
(* told to stop.  It begins SetSearchCriteria and RemoveSearchFolder too.    *)
CancelSearchFolder(p, f, o) ==
  /\ pc[p] = "idle" /\ ~MapLocked /\ (o = "stop" => active[f] # None)
  /\ sets < MaxSets /\ Within /\ sets' = sets + 1
  /\ op' = [op EXCEPT ![p] = o] /\ arg' = [arg EXCEPT ![p] = f]
  /\ inst' = [inst EXCEPT ![p] = active[f]]
  /\ active' = [active EXCEPT ![f] = None] /\ current' = current \ {f}
  /\ \/ active[f] = None /\ Goto(p, AfterCancel(o)) /\ UNCHANGED threadExit
     \/ active[f] # None /\ Goto(p, "destroy")
        /\ threadExit' = threadExit \cup {active[f]}
  /\ UNCHANGED <<msgVars, rowVars, folder, searchVars, eventVars, pending,
                 spoiled, changes, mishaps>>

Delete(i) ==
  /\ folder' = [folder EXCEPT ![i] = None] /\ threadExit' = threadExit \ {i}
  /\ UNCHANGED active

(* Mutant: the thread is told, and not waited for. *)
DestroyAtOnce(p) ==
  /\ pc[p] = "destroy" /\ Delete(inst[p]) /\ Goto(p, "stopped")
  /\ UNCHANGED <<msgVars, rowVars, searchVars, eventVars, op, arg, inst, pending,
                 spoiled, current, boundVars>>

(* DestroySearchFolder: wait until the search thread has finished, delete ... *)
DestroySearchFolder(p) ==
  /\ pc[p] = "destroy" /\ spc[inst[p]] = "finished"
  /\ Delete(inst[p]) /\ SearchGoto(inst[p], "none") /\ Goto(p, "stopped")
  /\ UNCHANGED <<msgVars, rowVars, todo, found, eventVars, op, arg, inst, pending,
                 spoiled, current, boundVars>>

(* ... and write the status. *)
SetStopped(p) ==
  /\ pc[p] = "stopped"
  /\ status' = [status EXCEPT ![arg[p]] = "STOPPED"]
  /\ inst' = [inst EXCEPT ![p] = None] /\ Continue(p, AfterCancel(op[p]))
  /\ UNCHANGED <<msgVars, saved, results, rowLock, objVars, searchVars, eventVars,
                 pending, spoiled, current, boundVars>>

(* AddSearchFolder with a new search: the status ... *)
SetRebuild(p) ==
  /\ pc[p] = "rebuild"
  /\ status' = [status EXCEPT ![arg[p]] = "REBUILD"] /\ Goto(p, "reset")
  /\ UNCHANGED <<msgVars, saved, results, rowLock, objVars, searchVars, eventVars,
                 op, arg, inst, pending, spoiled, current, boundVars>>

(* Requests cross when one comes here while another is busy with the search. *)
Concurrent(busy) ==
  spoiled' = IF busy THEN spoiled \cup {"concurrent"} \X Msgs ELSE spoiled

Clear(f) ==
  /\ rowLock[f] = None
  /\ results' = [results EXCEPT ![f] = {}] /\ current' = current \ {f}

(* ... the old results, which RemoveSearchFolder removes as well, though     *)
(* another request may have put the folder in the map since this one took it *)
(* out; when that fails, the request fails ...                               *)
ResetResults(p) ==
  /\ pc[p] = "reset"
  /\ \/ Clear(arg[p]) /\ NoFault /\ Concurrent(active[arg[p]] # None)
        /\ Continue(p, IF op[p] = "set" THEN "insert" ELSE "idle")
     \/ Mishap /\ Continue(p, "idle") /\ UNCHANGED <<results, current, spoiled>>
  /\ UNCHANGED <<msgVars, status, saved, rowLock, objVars, searchVars, eventVars,
                 inst, pending, sets, changes>>

(* A SEARCHFOLDER for f; it goes into the map when f is not in it already.   *)
NewSearchFolder(i, f) ==
  /\ folder' = [folder EXCEPT ![i] = f]
  /\ active' = [active EXCEPT ![f] = IF @ = None THEN i ELSE @]

(* ... the new object, with its thread, which works next to the old one as   *)
(* long as a request still waits for that to end ...                         *)
InsertSearchFolder(p) ==
  /\ pc[p] = "insert" /\ ~MapLocked /\ Concurrent(Objects(arg[p]) # {})
  /\ Objects(None) # {}
  /\ LET i == CHOOSE i \in Objects(None) : TRUE
     IN NewSearchFolder(i, arg[p]) /\ SearchGoto(i, "reset")
  /\ Goto(p, "save")
  /\ UNCHANGED <<msgVars, rowVars, threadExit, todo, found, eventVars, op,
                 arg, inst, pending, current, boundVars>>

(* ... and the criteria. *)
SaveSearchCriteria(p) ==
  /\ pc[p] = "save" /\ saved' = saved \cup {arg[p]} /\ Continue(p, "idle")
  /\ UNCHANGED <<msgVars, status, results, rowLock, objVars, searchVars, eventVars,
                 inst, pending, spoiled, current, boundVars>>

-----------------------------------------------------------------------------
(* Requests that change messages. *)

(* Mutant: a deletion is reported for the folder the message is in now.      *)
ChangeReportedHere(p, m, to, matches) ==
  /\ pc[p] = "idle" /\ place[m] # -1 /\ <<to, matches>> # <<place[m], match[m]>>
  /\ place[m] = 0 => to # -1
  /\ changes < MaxChanges /\ Within /\ changes' = changes + 1
  /\ place' = [place EXCEPT ![m] = to] /\ match' = [match EXCEPT ![m] = matches]
  /\ pending' = [pending EXCEPT ![p] =
       [place |-> to, msg |-> m,
        type |-> IF to = -1 THEN "DELETE"
                 ELSE IF place[m] = 0 THEN "ADD" ELSE "MODIFY"]]
  /\ Goto(p, "notify")
  /\ UNCHANGED <<rowVars, objVars, searchVars, eventVars, op, arg, inst, spoiled,
                 current, sets, mishaps>>

(* A request creates, modifies, moves or deletes message m and commits; a    *)
(* message that another request has changed and not yet reported is crossed. *)
ChangeMessage(p, m, to, matches) ==
  /\ pc[p] = "idle" /\ place[m] # -1 /\ <<to, matches>> # <<place[m], match[m]>>
  /\ place[m] = 0 => to # -1
  /\ changes < MaxChanges /\ Within /\ changes' = changes + 1
  /\ place' = [place EXCEPT ![m] = to] /\ match' = [match EXCEPT ![m] = matches]
  /\ pending' = [pending EXCEPT ![p] =
       [place |-> IF to = -1 THEN place[m] ELSE to, msg |-> m,
        type |-> IF to = -1 THEN "DELETE"
                 ELSE IF place[m] = 0 THEN "ADD" ELSE "MODIFY"]]
  /\ spoiled' = spoiled \cup
       {<<"crossed", m>> : q \in {q \in Procs : pc[q] = "notify" /\ pending[q].msg = m}}
  /\ Goto(p, "notify")
  /\ UNCHANGED <<rowVars, objVars, searchVars, eventVars, op, arg, inst, current,
                 sets, mishaps>>

Queue(p) ==
  /\ pc[p] = "notify" /\ Goto(p, "idle")
  /\ events' = Append(events, pending[p])
  /\ pending' = [pending EXCEPT ![p] = None]
  /\ UNCHANGED <<msgVars, rowVars, objVars, searchVars, batch, group, left, cur,
                 hits, op, arg, inst, spoiled, current, boundVars>>

(* Mutant: the process thread is not woken. *)
QueueSilently(p) == Queue(p) /\ UNCHANGED ppc

(* AddNotification and UpdateSearchFolders, after the commit *)
UpdateSearchFolders(p) ==
  Queue(p) /\ ppc' = IF ppc = "waiting" THEN "flush" ELSE ppc

-----------------------------------------------------------------------------
(* The process thread. *)

(* ProcessThread waits for events. *)
ProcessTop ==
  /\ ppc = "top" /\ ppc' = IF events = <<>> THEN "waiting" ELSE "flush"
  /\ UNCHANGED <<msgVars, rowVars, objVars, searchVars, events, batch, group, left,
                 cur, hits, procVars, spoiled, current, boundVars>>

(* FOLDERSORT: stable, by folder id. *)
SortByPlace(s) ==
  LET before(i, j) ==
        s[i].place < s[j].place \/ (s[i].place = s[j].place /\ i <= j)
      rank(i) == Cardinality({j \in DOMAIN s : before(j, i)})
  IN [k \in DOMAIN s |-> s[CHOOSE i \in DOMAIN s : rank(i) = k]]

(* Messages of which s reports two changes that the sort exchanges. *)
Reordered(s) ==
  {s[i].msg : i \in {i \in DOMAIN s :
     \E j \in DOMAIN s : i < j /\ s[i].msg = s[j].msg /\ s[i].place > s[j].place}}

(* FlushEvents takes the queued events and sorts them. *)
FlushEvents ==
  /\ ppc = "flush" /\ ppc' = "groups"
  /\ events' = <<>> /\ batch' = SortByPlace(events)
  /\ spoiled' = spoiled \cup {"order"} \X Reordered(events)
  /\ UNCHANGED <<msgVars, rowVars, objVars, searchVars, group, left, cur, hits,
                 procVars, current, boundVars>>

(* The first k events of the batch are all that have the same folder and     *)
(* type as the first of them, up to one that has not.                        *)
Alike(i) == batch[i].place = batch[1].place /\ batch[i].type = batch[1].type
IsRun(k) == (\A i \in 1..k : Alike(i)) /\ (k < Len(batch) => ~Alike(k + 1))

(* Take the first k events of the batch, each message once. *)
TakeGroup(k) ==
  /\ group' = [place |-> batch[1].place, type |-> batch[1].type,
               msgs |-> {batch[i].msg : i \in 1..k}]
  /\ batch' = SubSeq(batch, k + 1, Len(batch))
  /\ left' = {f \in SFolders : active[f] # None} /\ ppc' = "folder"

(* Mutant: the last run of the batch is forgotten. *)
NextGroupButLast ==
  /\ ppc = "groups"
  /\ \/ \E k \in 1..(Len(batch) - 1) : IsRun(k) /\ TakeGroup(k)
     \/ /\ batch = <<>> \/ IsRun(Len(batch))
        /\ batch' = <<>> /\ ppc' = "top" /\ UNCHANGED <<group, left>>
  /\ UNCHANGED <<msgVars, rowVars, objVars, searchVars, events, cur, hits, procVars,
                 spoiled, current, boundVars>>

(* ProcessMessageChange for the next run. *)
NextGroup ==
  /\ ppc = "groups"
  /\ \/ \E k \in 1..Len(batch) : IsRun(k) /\ TakeGroup(k)
     \/ batch = <<>> /\ ppc' = "top" /\ UNCHANGED <<group, batch, left>>
  /\ UNCHANGED <<msgVars, rowVars, objVars, searchVars, events, cur, hits, procVars,
                 spoiled, current, boundVars>>

(* The event says that its message is in a folder that is searched. *)
GroupInTarget == group.type # "DELETE" /\ group.place \in Targets

(* For each search folder: lock it and read the messages ... *)
LockFolder(f) ==
  /\ ppc = "folder" /\ f \in left /\ rowLock[f] = None
  /\ rowLock' = [rowLock EXCEPT ![f] = "process"] /\ cur' = f
  /\ hits' = {m \in group.msgs : GroupInTarget /\ match[m]}
  /\ ppc' = "update"
  /\ UNCHANGED <<msgVars, status, saved, results, objVars, searchVars, events,
                 batch, group, left, procVars, spoiled, current, boundVars>>

(* ... or give up, after four attempts that failed ... *)
GiveUp(f) ==
  /\ ppc = "folder" /\ f \in left /\ Mishap /\ left' = left \ {f}
  /\ spoiled' = spoiled \cup {"giveup"} \X group.msgs
  /\ UNCHANGED <<msgVars, rowVars, objVars, searchVars, events, batch, ppc, group,
                 cur, hits, procVars, current, sets, changes>>

(* ... add those that match, delete the others unless they are new, and      *)
(* commit.  A message that a search has yet to read, and that is no longer   *)
(* where the search found it, goes astray.                                   *)
Update ==
  /\ ppc = "update"
  /\ results' = [results EXCEPT ![cur] =
       IF group.type = "ADD" /\ GroupInTarget THEN @ \cup hits
       ELSE (@ \ group.msgs) \cup hits]
  /\ rowLock' = [rowLock EXCEPT ![cur] = None]
  /\ spoiled' = spoiled \cup {"stray"} \X
       {m \in group.msgs : ~InTarget(m) /\ \E i \in Objects(cur) : m \in todo[i]}
  /\ left' = left \ {cur} /\ cur' = None /\ hits' = {} /\ ppc' = "folder"
  /\ UNCHANGED <<msgVars, status, saved, objVars, searchVars, events, batch, group,
                 procVars, current, boundVars>>

(* All search folders are done. *)
GroupDone ==
  /\ ppc = "folder" /\ left = {} /\ ppc' = "groups" /\ group' = NoGroup
  /\ UNCHANGED <<msgVars, rowVars, objVars, searchVars, events, batch, left, cur,
                 hits, procVars, spoiled, current, boundVars>>

-----------------------------------------------------------------------------
(* The search thread of object i: SearchThread and Search. *)

SearchReset(i) ==
  /\ spc[i] = "reset"
  /\ \/ Clear(folder[i]) /\ SearchGoto(i, "select") /\ NoFault
     \/ Mishap /\ SearchGoto(i, "complete") /\ UNCHANGED <<results, current>>
  /\ UNCHANGED <<msgVars, status, saved, rowLock, objVars, todo, found, eventVars,
                 procVars, spoiled, sets, changes>>

(* SELECT the messages of the folders that are searched; the code has one    *)
(* SELECT for each of them, taken as one here.                               *)
SearchSelect(i) ==
  /\ spc[i] = "select" /\ SearchGoto(i, "batch")
  /\ todo' = [todo EXCEPT ![i] = {m \in Msgs : InTarget(m)}]
  /\ UNCHANGED <<msgVars, rowVars, objVars, found, eventVars, procVars, spoiled,
                 current, boundVars>>

(* The rows of batch b that match.  Of a message that has left its folder    *)
(* the properties may or may not be found; a cancelled search stops halfway. *)
Matching(i, b) ==
  {S \in SUBSET {m \in b : match[m]} :
     i \in threadExit \/ \A m \in b : match[m] /\ InTarget(m) => m \in S}

ReadBatch(i, b) ==
  /\ \E S \in Matching(i, b) : found' = [found EXCEPT ![i] = S]
  /\ todo' = [todo EXCEPT ![i] = @ \ b] /\ SearchGoto(i, "commit")

(* ProcessCandidateRows: lock the folder, read a batch ... *)
ReadRows(i) ==
  /\ spc[i] = "batch" /\ i \notin threadExit
  /\ \/ /\ rowLock[folder[i]] = None /\ NoFault
        /\ rowLock' = [rowLock EXCEPT ![folder[i]] = i]
        /\ \E b \in SUBSET todo[i] :
             b # {} /\ Cardinality(b) <= BatchSize /\ ReadBatch(i, b)
     \/ /\ todo[i] # {} /\ Mishap /\ SearchGoto(i, "complete")
        /\ todo' = [todo EXCEPT ![i] = {}] /\ UNCHANGED <<rowLock, found>>
  /\ UNCHANGED <<msgVars, status, saved, results, objVars, eventVars, procVars,
                 spoiled, current, sets, changes>>

(* ... and add what matches to the results. *)
AddResults(i) ==
  LET f == folder[i] IN
  /\ spc[i] = "commit" /\ SearchGoto(i, "batch")
  /\ results' = [results EXCEPT ![f] = @ \cup found[i]]
  /\ rowLock' = [rowLock EXCEPT ![f] = None]
  /\ found' = [found EXCEPT ![i] = {}]
  /\ UNCHANGED <<msgVars, status, saved, objVars, todo, eventVars, procVars,
                 spoiled, current, boundVars>>

(* No rows left, or cancelled *)
SearchDone(i) ==
  /\ spc[i] = "batch" /\ (todo[i] = {} \/ i \in threadExit)
  /\ SearchGoto(i, "status") /\ todo' = [todo EXCEPT ![i] = {}]
  /\ current' = IF i \in threadExit THEN current ELSE current \cup {folder[i]}
  /\ UNCHANGED <<msgVars, rowVars, objVars, found, eventVars, procVars, spoiled,
                 boundVars>>

(* The search writes its status, cancelled or not. *)
SetRunning(i) ==
  /\ spc[i] = "status" /\ SearchGoto(i, "complete")
  /\ status' = [status EXCEPT ![folder[i]] = "RUNNING"]
  /\ UNCHANGED <<msgVars, saved, results, rowLock, objVars, todo, found, eventVars,
                 procVars, spoiled, current, boundVars>>

(* bThreadFree is set and m_condThreadExited is signalled. *)
ThreadFree(i) ==
  /\ spc[i] = "complete" /\ SearchGoto(i, "finished")
  /\ UNCHANGED <<msgVars, rowVars, objVars, todo, found, eventVars, procVars,
                 spoiled, current, boundVars>>

-----------------------------------------------------------------------------
(* The server is killed, or stopped, and started again. *)

(* Messages with a change that was not reported, and that was not processed. *)
Unreported == {pending[p].msg : p \in {p \in Procs : pc[p] = "notify"}}
Unprocessed ==
  {events[i].msg : i \in DOMAIN events} \cup {batch[i].msg : i \in DOMAIN batch}
    \cup group.msgs

(* The destructor flushes no events, so that a clean stop loses what a crash *)
(* loses.  LoadSearchFolders takes up the search folders that are not        *)
(* stopped, and rebuilds those that were being rebuilt.                      *)
Restart ==
  LET load == {f \in saved : status[f] # "STOPPED"}
      rebuild == {f \in load : status[f] = "REBUILD"}
  IN
  /\ Mishap
  /\ spoiled' = spoiled \cup {"restart"} \X Unprocessed \cup {"crash"} \X Unreported \cup
       (IF load \ rebuild \subseteq current THEN {} ELSE {"halfbuilt"} \X Msgs)
  /\ LET obj == CHOOSE obj \in [SFolders -> Insts \cup {None}] :
                   /\ \A f \in SFolders : obj[f] # None <=> f \in load
                   /\ \A f, g \in load : obj[f] = obj[g] => f = g
     IN
       /\ active' = obj
       /\ folder' = [i \in Insts |->
            IF \E f \in load : obj[f] = i THEN CHOOSE f \in load : obj[f] = i ELSE None]
       /\ spc' = [i \in Insts |->
            IF \E f \in rebuild : obj[f] = i THEN "reset"
            ELSE IF \E f \in load : obj[f] = i THEN "finished" ELSE "none"]
  /\ results' = [f \in SFolders |-> IF f \in rebuild THEN {} ELSE results[f]]
  /\ current' = current \cap (load \ rebuild)
  /\ threadExit' = {}
  /\ todo' = [i \in Insts |-> {}] /\ found' = [i \in Insts |-> {}]
  /\ rowLock' = [f \in SFolders |-> None]
  /\ events' = <<>> /\ batch' = <<>> /\ ppc' = "top" /\ group' = NoGroup
  /\ left' = {} /\ cur' = None /\ hits' = {}
  /\ pc' = [p \in Procs |-> "idle"] /\ op' = [p \in Procs |-> None]
  /\ arg' = [p \in Procs |-> None] /\ inst' = [p \in Procs |-> None]
  /\ pending' = [p \in Procs |-> None]
  /\ UNCHANGED <<msgVars, status, saved, sets, changes>>

-----------------------------------------------------------------------------
ProcStep(p) ==
  \/ DestroySearchFolder(p) \/ SetStopped(p) \/ SetRebuild(p) \/ ResetResults(p)
  \/ InsertSearchFolder(p) \/ SaveSearchCriteria(p) \/ UpdateSearchFolders(p)

Process ==
  \/ ProcessTop \/ FlushEvents \/ NextGroup \/ Update \/ GroupDone
  \/ \E f \in SFolders : LockFolder(f) \/ GiveUp(f)

Search(i) ==
  \/ SearchReset(i) \/ SearchSelect(i) \/ ReadRows(i) \/ AddResults(i)
  \/ SearchDone(i) \/ SetRunning(i) \/ ThreadFree(i)

Threads ==
  \/ \E p \in Procs : ProcStep(p)
  \/ \E i \in Insts : Search(i)
  \/ Process

Next ==
  \/ \E p \in Procs, f \in SFolders, o \in {"set", "stop", "remove"} :
       CancelSearchFolder(p, f, o)
  \/ \E p \in Procs, m \in Msgs, to \in Places \cup {-1}, b \in BOOLEAN :
       ChangeMessage(p, m, to, b)
  \/ Threads \/ Restart

Spec == Init /\ [][Next]_vars

-----------------------------------------------------------------------------
(* Properties. *)

(* Nothing is going on that concerns search folder f, and its status says    *)
(* that its results are complete.                                            *)
Quiet(f) ==
  /\ active[f] # None /\ status[f] = "RUNNING"
  /\ events = <<>> /\ ppc \in {"top", "waiting"}
  /\ \A p \in Procs : pc[p] # "notify" /\ (pc[p] # "idle" => arg[p] # f)
  /\ \A i \in Objects(f) : ~Searching(i)

(* The results of quiet search folders are the messages that match, except   *)
(* perhaps messages that are spoiled for a reason in R.                      *)
ExactExcept(R) ==
  \A f \in SFolders : Quiet(f) =>
    \A m \in Msgs :
      (m \in results[f] <=> InTarget(m) /\ match[m]) \/ \E r \in R : <<r, m>> \in spoiled

(* Whatever the order in which a search and the process thread got to see a  *)
(* change, the results are right when all is quiet; the exceptions are the   *)
(* cases that Reasons lists.                                                 *)
QuietResultsAreExact == ExactExcept(Reasons)

(* A search thread uses its SEARCHFOLDER until bThreadFree is set: "Nobody   *)
(* is using lpFolder now" (ECSearchFolders.cpp:462).                         *)
ThreadHasItsFolder == \A i \in Insts : Searching(i) => folder[i] # None

(* What the next step of a thread waits for: a request, for the search       *)
(* thread to finish, for the row or for the map ...                          *)
ProcReady(p) ==
  /\ pc[p] # "idle"
  /\ pc[p] = "destroy" => spc[inst[p]] = "finished"
  /\ pc[p] = "reset" => rowLock[arg[p]] = None
  /\ pc[p] = "insert" => ~MapLocked /\ Objects(None) # {}

(* ... a search, for the row, as long as it has something to read ...        *)
SearchReady(i) ==
  /\ Searching(i)
  /\ spc[i] = "reset" => rowLock[folder[i]] = None
  /\ spc[i] = "batch" => rowLock[folder[i]] = None \/ todo[i] = {} \/ i \in threadExit

(* ... the process thread, for an event, or for the row of some folder.      *)
ProcessReady ==
  /\ ppc # "waiting"
  /\ ppc = "groups" => batch = <<>> \/ \E k \in 1..Len(batch) : IsRun(k)
  /\ ppc = "folder" => left = {} \/ \E f \in left : rowLock[f] = None

SomeoneIsReady ==
  \/ \E p \in Procs : ProcReady(p)
  \/ \E i \in Insts : SearchReady(i)
  \/ ProcessReady

(* Nobody waits for ever: when no thread can go on, each request is done (so *)
(* has found the search thread it waited for gone), no search is under way,  *)
(* and all events are processed.  There is no lost wakeup, and no deadlock   *)
(* between the map mutex and the row locks, and no database error is needed  *)
(* to end a wait.                                                            *)
NothingHangs ==
  \/ SomeoneIsReady
  \/ /\ \A p \in Procs : pc[p] = "idle"
     /\ \A i \in Insts : ~Searching(i)
     /\ events = <<>> /\ ppc = "waiting"
=============================================================================
