----------------------------- MODULE Dispatcher -----------------------------
(***************************************************************************)
(* The request dispatcher of zarafa-server: ECDispatcherEPoll (the main    *)
(* loop), ECThreadManager and its ECWorkerThreads, the priority worker,    *)
(* the watchdog, the signal thread that reloads and stops the server, and  *)
(* the notification thread that hands back connections whose reply it sent *)
(* (src/provider/server/ECThreadManager.cpp and ECServer.cpp).             *)
(*                                                                         *)
(* A connection is a `struct soap *'.  It is owned by exactly one of: the  *)
(* socket map, one of the two work queues, a thread, or the notification   *)
(* manager; whoever closes it frees it.  One action is one critical        *)
(* section, or one unlocked access to a shared variable.                   *)
(***************************************************************************)
EXTENDS Integers, Sequences, FiniteSets

CONSTANTS
  Conns,         \* connections clients may open
  PrioConns,     \* those accepted on the priority pipe
  PipeConns,     \* those accepted on a pipe: they have no idle timeout
  DeferConns,    \* those whose requests may be deferred (ns__notifyGetItems)
  HangConns,     \* those whose requests may never finish
  ClosingConns,  \* those whose client may close or reset them
  Workers,       \* identities of worker threads; bounds how many run at once
  Prio,          \* the priority worker
  Notifier,      \* the thread of ECNotificationManager
  None,
  InitThreads,   \* setting "threads" at start
  HupThreads,    \* values of setting "threads" a reload may find
  MaxHup,        \* bound: number of SIGHUPs
  MaxKeepAlive,  \* setting "server_max_keep_alive_requests"
  Signals        \* signals the server may get: "HUP", "TERM", and
                 \* "EARLYHUP" for a SIGHUP before MainLoop runs

Threads == Workers \cup {Prio}
Callers == Threads \cup {Notifier}

ASSUME DispatcherAssumption ==
  /\ PrioConns \subseteq PipeConns /\ PipeConns \subseteq Conns
  /\ DeferConns \subseteq Conns /\ HangConns \subseteq Conns
  /\ ClosingConns \subseteq Conns
  /\ IsFiniteSet(Workers) /\ IsFiniteSet(Conns)
  /\ Prio \notin Workers /\ Notifier \notin Threads /\ None \notin Conns
  /\ InitThreads \in 1..Cardinality(Workers)
  /\ HupThreads \subseteq 0..Cardinality(Workers)
  /\ MaxHup \in Nat /\ MaxKeepAlive \in Nat \ {0}
  /\ Signals \subseteq {"HUP", "TERM", "EARLYHUP"}

VARIABLES
  main,        \* program counter of the main thread
  sig,         \* program counter of the signal thread
  hups,        \* SIGHUPs handled
  bExit,       \* m_bExit
  watchdog,    \* the watchdog thread runs
  ulThreads,   \* m_ulThreads
  lstThreads,  \* m_lstThreads
  pc,          \* program counter of each thread that handles connections
  work,        \* the connection a thread owns
  queueItems, queuePrioItems, \* m_queueItems, m_queuePrioItems
  setSockets,  \* m_setSockets
  epFD,        \* the sockets registered with m_epFD
  deferred,    \* the connections ECNotificationManager holds
  astray,      \* an object was called that did not exist (yet, or any more)
  accepted,    \* connections that have had a soap object
  freed,       \* how often each soap object was freed
  open,        \* soap->socket # SOAP_INVALID_SOCKET
  keep,        \* soap->max_keep_alive
  input        \* what the client's side of the connection offers

serverVars == <<main, sig, hups, bExit, watchdog>>
poolVars   == <<ulThreads, lstThreads>>
queueVars  == <<queueItems, queuePrioItems>>
connVars   == <<accepted, freed, open, keep, input>>
vars == <<serverVars, poolVars, pc, work, queueVars, setSockets, epFD,
          deferred, astray, connVars>>

-----------------------------------------------------------------------------
MainPc == {"start", "loop", "watchdog", "setcount", "wakeitems", "wakeall",
           "join", "joinprio", "drain", "close", "done", "reentered",
           "removed", "exited"}
CallerPc == {"off", "next", "idle", "getwait", "waiting", "woken", "serve",
             "notifyDone", "requeue", "restart"}

(* The type of every variable: the state ECThreadManager.h declares. *)
TypeOK ==
  /\ main \in MainPc /\ sig \in {"wait", "hup", "term", "quit"}
  /\ hups \in 0..MaxHup
  /\ bExit \in BOOLEAN /\ watchdog \in BOOLEAN
  /\ ulThreads \in 0..Cardinality(Workers) /\ lstThreads \subseteq Workers
  /\ pc \in [Callers -> CallerPc] /\ work \in [Callers -> Conns \cup {None}]
  /\ queueItems \in Seq(Conns) /\ queuePrioItems \in Seq(Conns)
  /\ setSockets \subseteq Conns /\ epFD \subseteq Conns
  /\ deferred \subseteq Conns /\ astray \in BOOLEAN
  /\ accepted \subseteq Conns
  /\ freed \in [Conns -> Nat] /\ open \in [Conns -> BOOLEAN]
  /\ keep \in [Conns -> -1..MaxKeepAlive]
  /\ input \in [Conns -> {"none", "data", "eof", "hup"}]

Init ==
  /\ main = "start" /\ sig = "wait" /\ hups = 0
  /\ bExit = FALSE /\ watchdog = FALSE
  /\ ulThreads = 0 /\ lstThreads = {}
  /\ pc = [t \in Callers |-> IF t = Notifier THEN "idle" ELSE "off"]
  /\ work = [t \in Callers |-> None]
  /\ queueItems = <<>> /\ queuePrioItems = <<>>
  /\ setSockets = {} /\ epFD = {} /\ deferred = {} /\ astray = FALSE
  /\ accepted = {} /\ freed = [c \in Conns |-> 0]
  /\ open = [c \in Conns |-> FALSE]
  /\ keep = [c \in Conns |-> MaxKeepAlive]
  /\ input = [c \in Conns |-> "none"]

-----------------------------------------------------------------------------
(* Helpers. *)

Goto(t, label) == pc' = [pc EXCEPT ![t] = label]

(* zarafa_end_soap_connection and soap_free *)
Free(c) == freed' = [freed EXCEPT ![c] = @ + 1]

InQueue(q) == {q[i] : i \in 1..Len(q)}

(* The threads waiting on m_condItems and on m_condPrioItems. *)
Waiting == {t \in Workers : pc[t] = "waiting"}
PrioWaiting == {t \in {Prio} : pc[t] = "waiting"}

Woken(ts) == [t \in Callers |-> IF t \in ts THEN "woken" ELSE pc[t]]

(* pthread_cond_signal wakes one waiter, if there is one. *)
Signal(ts) == IF ts = {} THEN UNCHANGED pc ELSE \E t \in ts : pc' = Woken({t})

(* The queue a thread serves. *)
QueueOf(t) == IF t = Prio THEN queuePrioItems ELSE queueItems

(* new ECWorkerThread, n times; thread objects that are gone can come back. *)
StartThreads(n) ==
  \E new \in SUBSET {w \in Workers : pc[w] = "off"} :
    /\ Cardinality(new) = n
    /\ lstThreads' = lstThreads \cup new
    /\ pc' = [t \in Callers |-> IF t \in new THEN "next" ELSE pc[t]]

(* ECThreadManager::SetThreadCount *)
ManagerSetThreadCount(n) ==
  /\ ulThreads' = n
  /\ IF n > Cardinality(lstThreads)
     THEN StartThreads(n - Cardinality(lstThreads))
     ELSE UNCHANGED <<lstThreads, pc>>

(* The first item of its queue becomes the work of t. *)
TakeItem(t) ==
  /\ QueueOf(t) # <<>>
  /\ work' = [work EXCEPT ![t] = Head(QueueOf(t))]
  /\ IF t = Prio
     THEN queuePrioItems' = Tail(queuePrioItems) /\ UNCHANGED queueItems
     ELSE queueItems' = Tail(queueItems) /\ UNCHANGED queuePrioItems
  /\ Goto(t, "serve")

(* Where a caller of NotifyDone continues. *)
AfterDone(t) == IF t = Notifier THEN "idle" ELSE "next"

-----------------------------------------------------------------------------
(* Clients (external): they send a request, close, or reset. *)

ClientSend(c) ==
  /\ c \in accepted /\ freed[c] = 0 /\ input[c] = "none"
  /\ input' = [input EXCEPT ![c] = "data"]
  /\ UNCHANGED <<serverVars, poolVars, pc, work, queueVars, setSockets, epFD,
                 deferred, astray, accepted, freed, open, keep>>

ClientClose(c) ==
  /\ c \in accepted \cap ClosingConns /\ freed[c] = 0
  /\ \/ input[c] = "none" /\ input' = [input EXCEPT ![c] = "eof"]
     \/ input[c] # "hup" /\ input' = [input EXCEPT ![c] = "hup"]
  /\ UNCHANGED <<serverVars, poolVars, pc, work, queueVars, setSockets, epFD,
                 deferred, astray, accepted, freed, open, keep>>

-----------------------------------------------------------------------------
(* The main thread: ECDispatcherEPoll::MainLoop. *)

(* The thread manager starts its priority worker and InitThreads workers. *)
MainStart ==
  /\ main = "start" /\ main' = "loop"
  /\ watchdog' = TRUE /\ ulThreads' = InitThreads
  /\ \E new \in SUBSET Workers :
       /\ Cardinality(new) = InitThreads
       /\ lstThreads' = new
       /\ pc' = [t \in Callers |-> IF t \in new \cup {Prio} THEN "next" ELSE pc[t]]
  /\ UNCHANGED <<sig, hups, bExit, work, queueVars, setSockets,
                 epFD, deferred, astray, connVars>>

(* accept() on a listen socket; the new connection is polled at once. *)
Accept(c) ==
  /\ main = "loop" /\ c \notin accepted
  /\ accepted' = accepted \cup {c}
  /\ \/ /\ open' = [open EXCEPT ![c] = TRUE]
        /\ setSockets' = setSockets \cup {c} /\ epFD' = epFD \cup {c}
        /\ UNCHANGED freed
     \/ Free(c) /\ UNCHANGED <<open, setSockets, epFD>>
  /\ UNCHANGED <<serverVars, poolVars, pc, work, queueVars, deferred, astray,
                 keep, input>>

(* A socket idle for server_recv_timeout seconds is shut down, both ways. *)
IdleTimeout(c) ==
  /\ main = "loop" /\ c \in setSockets \ PipeConns /\ input[c] # "hup"
  /\ input' = [input EXCEPT ![c] = "hup"]
  /\ UNCHANGED <<serverVars, poolVars, pc, work, queueVars, setSockets, epFD,
                 deferred, astray, accepted, freed, open, keep>>

(* QueueItem: append to the queue of c's kind and signal its condition. *)
QueueItem(c) ==
  IF c \in PrioConns
  THEN /\ queuePrioItems' = Append(queuePrioItems, c)
       /\ UNCHANGED queueItems /\ Signal(PrioWaiting)
  ELSE /\ queueItems' = Append(queueItems, c)
       /\ UNCHANGED queuePrioItems /\ Signal(Waiting)

(* Mutant: an event leaves the socket in the map. *)
EventKeepsSocket(c) ==
  /\ main = "loop" /\ c \in epFD /\ input[c] = "data"
  /\ epFD' = epFD \ {c} /\ QueueItem(c)
  /\ UNCHANGED <<serverVars, poolVars, work, setSockets, deferred, astray,
                 connVars>>

(* epoll_wait reports c: it is closed on EPOLLHUP and queued otherwise. *)
SocketEvent(c) ==
  /\ main = "loop" /\ c \in epFD /\ input[c] # "none"
  /\ epFD' = epFD \ {c} /\ setSockets' = setSockets \ {c}
  /\ \/ input[c] = "hup" /\ Free(c) /\ UNCHANGED <<queueVars, pc>>
     \/ input[c] # "hup" /\ QueueItem(c) /\ UNCHANGED freed
  /\ UNCHANGED <<serverVars, poolVars, work, deferred, astray, accepted, open,
                 keep, input>>

(* Mutant: the watchdog still runs while the workers are joined. *)
LoopExitKeepsWatchDog ==
  /\ main = "loop" /\ bExit /\ main' = "setcount"
  /\ UNCHANGED <<sig, hups, bExit, watchdog, poolVars, pc, work, queueVars,
                 setSockets, epFD, deferred, astray, connVars>>

(* The main loop leaves once m_bExit is set; it is read without a lock. *)
LoopExit ==
  /\ main = "loop" /\ bExit /\ main' = "watchdog"
  /\ UNCHANGED <<sig, hups, bExit, watchdog, poolVars, pc, work,
                 queueVars, setSockets, epFD, deferred, astray, connVars>>

(* delete lpWatchDog joins the watchdog thread *)
DeleteWatchDog ==
  /\ main = "watchdog" /\ main' = "setcount" /\ watchdog' = FALSE
  /\ UNCHANGED <<sig, hups, bExit, poolVars, pc, work, queueVars,
                 setSockets, epFD, deferred, astray, connVars>>

SetCountZero ==
  /\ main = "setcount" /\ main' = "wakeitems"
  /\ ManagerSetThreadCount(0)
  /\ UNCHANGED <<sig, hups, bExit, watchdog, work, queueVars,
                 setSockets, epFD, deferred, astray, connVars>>

(* Mutant: the priority worker is not woken at exit. *)
WakeWorkersOnly ==
  /\ \/ main = "wakeitems" /\ main' = "wakeall"
     \/ main = "wakeall" /\ main' = "join"
  /\ pc' = Woken(Waiting)
  /\ UNCHANGED <<sig, hups, bExit, watchdog, poolVars, work, queueVars,
                 setSockets, epFD, deferred, astray, connVars>>

(* ECDispatcher::SetThreadCount wakes the workers, MainLoop then everyone. *)
WakeAll ==
  /\ \/ main = "wakeitems" /\ main' = "wakeall" /\ pc' = Woken(Waiting)
     \/ main = "wakeall" /\ main' = "join" /\ pc' = Woken(Waiting \cup PrioWaiting)
  /\ UNCHANGED <<sig, hups, bExit, watchdog, poolVars, work,
                 queueVars, setSockets, epFD, deferred, astray, connVars>>

(* Mutant: the priority worker is not joined. *)
JoinWorkersOnly ==
  /\ main = "join" /\ lstThreads = {} /\ main' = "drain"
  /\ UNCHANGED <<sig, hups, bExit, watchdog, poolVars, pc, work, queueVars,
                 setSockets, epFD, deferred, astray, connVars>>

(* ~ECThreadManager: poll until no worker is left, then join the priority one *)
JoinWorkers ==
  /\ \/ main = "join" /\ lstThreads = {} /\ main' = "joinprio"
     \/ main = "joinprio" /\ pc[Prio] = "off" /\ main' = "drain"
  /\ UNCHANGED <<sig, hups, bExit, watchdog, poolVars, pc, work,
                 queueVars, setSockets, epFD, deferred, astray, connVars>>

(* Mutant: only the connections in the normal queue are closed. *)
DrainItemsOnly ==
  /\ main = "drain" /\ main' = "close"
  /\ freed' = [c \in Conns |->
       freed[c] + Cardinality({i \in 1..Len(queueItems) : queueItems[i] = c})]
  /\ queueItems' = <<>> /\ queuePrioItems' = <<>>
  /\ UNCHANGED <<sig, hups, bExit, watchdog, poolVars, pc, work, setSockets,
                 epFD, deferred, astray, accepted, open, keep, input>>

(* What is still queued is closed unanswered. *)
DrainQueues ==
  /\ main = "drain" /\ main' = "close"
  /\ freed' = [c \in Conns |->
       freed[c] + Cardinality({i \in 1..Len(queueItems) : queueItems[i] = c})
        + Cardinality({i \in 1..Len(queuePrioItems) : queuePrioItems[i] = c})]
  /\ queueItems' = <<>> /\ queuePrioItems' = <<>>
  /\ UNCHANGED <<sig, hups, bExit, watchdog, poolVars, pc, work,
                 setSockets, epFD, deferred, astray, accepted, open, keep,
                 input>>

(* Every socket still in the map is closed.  The map itself is not emptied;  *)
(* the dispatcher is deleted next, so the model forgets its members here.    *)
CloseSockets ==
  /\ main = "close" /\ main' = "done"
  /\ freed' = [c \in Conns |-> IF c \in setSockets THEN freed[c] + 1 ELSE freed[c]]
  /\ setSockets' = {} /\ epFD' = {}
  /\ UNCHANGED <<sig, hups, bExit, watchdog, poolVars, pc, work,
                 queueVars, deferred, astray, accepted, open, keep, input>>

(* ECServer: `while(!g_Quit) MainLoop()'.  ShutDown sets m_bExit before the  *)
(* signal thread sets g_Quit, so the loop may come round once more; it then  *)
(* uses freed listeners and the model stops.  Otherwise the signal thread is *)
(* joined and the dispatcher deleted.                                        *)
MainLoopReturned ==
  /\ main = "done"
  /\ \/ sig # "quit" /\ main' = "reentered"
     \/ sig = "quit" /\ main' = "removed"
  /\ UNCHANGED <<sig, hups, bExit, watchdog, poolVars, pc, work,
                 queueVars, setSockets, epFD, deferred, astray, connVars>>

(* zarafa_exit: ~ECNotificationManager joins its thread, frees what it holds *)
DeleteSessionManager ==
  /\ main = "removed" /\ pc[Notifier] = "idle" /\ main' = "exited"
  /\ freed' = [c \in Conns |-> IF c \in deferred THEN freed[c] + 1 ELSE freed[c]]
  /\ deferred' = {}
  /\ UNCHANGED <<sig, hups, bExit, watchdog, poolVars, pc, work,
                 queueVars, setSockets, epFD, astray, accepted, open, keep,
                 input>>

MainThread ==
  \/ MainStart \/ LoopExit \/ DeleteWatchDog \/ SetCountZero \/ WakeAll
  \/ JoinWorkers \/ DrainQueues \/ CloseSockets \/ MainLoopReturned
  \/ DeleteSessionManager

-----------------------------------------------------------------------------
(* The signal thread: process_signal, one signal at a time. *)

(* DoHUP -> SetThreadCount.  Before MainLoop, m_lpThreadManager was never    *)
(* assigned: what it holds is NULL (return) or not (the call goes astray).   *)
Hup(n) ==
  /\ sig = "wait" /\ hups < MaxHup /\ hups' = hups + 1
  /\ \/ /\ "HUP" \in Signals /\ main # "start" /\ sig' = "hup"
        /\ ManagerSetThreadCount(n) /\ UNCHANGED astray
     \/ /\ "EARLYHUP" \in Signals /\ main = "start" /\ sig' = "wait"
        /\ astray' \in {astray, TRUE} /\ UNCHANGED <<poolVars, pc>>
  /\ UNCHANGED <<main, bExit, watchdog, work, queueVars, setSockets, epFD,
                 deferred, connVars>>

(* The broadcast on m_condItems that ends ECDispatcher::SetThreadCount. *)
HupBroadcast ==
  /\ sig = "hup" /\ sig' = "wait" /\ pc' = Woken(Waiting)
  /\ UNCHANGED <<main, hups, bExit, watchdog, poolVars, work,
                 queueVars, setSockets, epFD, deferred, astray, connVars>>

(* SIGTERM: ShutDown sets m_bExit, without a lock. *)
Term ==
  /\ "TERM" \in Signals /\ sig = "wait" /\ sig' = "term" /\ bExit' = TRUE
  /\ UNCHANGED <<main, hups, watchdog, poolVars, pc, work, queueVars,
                 setSockets, epFD, deferred, astray, connVars>>

(* g_Quit = 1 ends the signal thread. *)
Quit ==
  /\ sig = "term" /\ sig' = "quit"
  /\ UNCHANGED <<main, hups, bExit, watchdog, poolVars, pc, work,
                 queueVars, setSockets, epFD, deferred, astray, connVars>>

-----------------------------------------------------------------------------
(* Mutant: the watchdog stays within the nominal number of threads. *)
AddThreadWithinCount(c) ==
  /\ watchdog /\ Cardinality(lstThreads) < ulThreads
  /\ c \in InQueue(queueItems) \cup InQueue(queuePrioItems)
  /\ StartThreads(1)
  /\ UNCHANGED <<serverVars, ulThreads, work, queueVars, setSockets, epFD,
                 deferred, astray, connVars>>

(* The watchdog: the front item is too old, so a thread is added whatever    *)
(* the nominal count.  The front of the normal queue counts first.           *)
ForceAddThread(c) ==
  /\ watchdog
  /\ \/ queueItems # <<>> /\ c = Head(queueItems)
     \/ queueItems = <<>> /\ queuePrioItems # <<>> /\ c = Head(queuePrioItems)
  /\ StartThreads(1)
  /\ UNCHANGED <<serverVars, ulThreads, work, queueVars, setSockets, epFD,
                 deferred, astray, connVars>>

-----------------------------------------------------------------------------
(* Worker threads: ECWorkerThread::Work. *)

(* GetNextWorkItem(bWait = false) *)
GetNext(t) ==
  /\ pc[t] = "next"
  /\ \/ TakeItem(t)
     \/ QueueOf(t) = <<>> /\ Goto(t, "idle") /\ UNCHANGED <<work, queueVars>>
  /\ UNCHANGED <<serverVars, poolVars, setSockets, epFD, deferred, astray,
                 connVars>>

(* NotifyIdle: a surplus worker leaves; the priority one only when asked to. *)
NotifyIdle(t) ==
  /\ pc[t] = "idle" /\ t \in Threads
  /\ IF t = Prio
     THEN /\ Goto(t, IF ulThreads = 0 THEN "off" ELSE "getwait")
          /\ UNCHANGED lstThreads
     ELSE IF ulThreads < Cardinality(lstThreads)
          THEN lstThreads' = lstThreads \ {t} /\ Goto(t, "off")
          ELSE Goto(t, "getwait") /\ UNCHANGED lstThreads
  /\ UNCHANGED <<serverVars, ulThreads, work, queueVars, setSockets, epFD,
                 deferred, astray, connVars>>

(* Mutant: a worker goes to sleep without looking at the queue again. *)
WaitWithoutLooking(t) ==
  /\ pc[t] = "getwait" /\ Goto(t, IF bExit THEN "next" ELSE "waiting")
  /\ UNCHANGED <<serverVars, poolVars, work, queueVars, setSockets, epFD,
                 deferred, astray, connVars>>

(* GetNextWorkItem(bWait = true), up to pthread_cond_wait *)
GetWait(t) ==
  /\ pc[t] = "getwait"
  /\ \/ TakeItem(t)
     \/ /\ QueueOf(t) = <<>> /\ Goto(t, IF bExit THEN "next" ELSE "waiting")
        /\ UNCHANGED <<work, queueVars>>
  /\ UNCHANGED <<serverVars, poolVars, setSockets, epFD, deferred, astray,
                 connVars>>

(* ... and after it: a woken thread may find the item taken by another. *)
AfterWait(t) ==
  /\ pc[t] = "woken"
  /\ \/ ~bExit /\ TakeItem(t)
     \/ /\ bExit \/ QueueOf(t) = <<>>
        /\ Goto(t, "next") /\ UNCHANGED <<work, queueVars>>
  /\ UNCHANGED <<serverVars, poolVars, setSockets, epFD, deferred, astray,
                 connVars>>

(* A condition variable may wake without a signal. *)
SpuriousWakeup(t) ==
  /\ pc[t] = "waiting" /\ Goto(t, "woken")
  /\ UNCHANGED <<serverVars, poolVars, work, queueVars, setSockets, epFD,
                 deferred, astray, connVars>>

(* Mutant: connections are kept alive without a limit. *)
ServeKeepsAlive(t) ==
  LET c == work[t] IN
  /\ pc[t] = "serve" /\ Goto(t, "notifyDone")
  /\ open' = [open EXCEPT ![c] = input[c] = "data"]
  /\ input' = [input EXCEPT ![c] = IF @ = "data" THEN "none" ELSE @]
  /\ UNCHANGED <<serverVars, poolVars, work, queueVars, setSockets, epFD,
                 deferred, astray, accepted, freed, keep>>

(* The request is read, served and answered.  The socket is closed after an  *)
(* error or the end of the stream, and once keep_alive has been cleared.     *)
Serve(t) ==
  LET c == work[t] IN
  /\ pc[t] = "serve" /\ Goto(t, "notifyDone")
  /\ \/ /\ input[c] = "data" /\ keep[c] > 0 /\ UNCHANGED open
     \/ open' = [open EXCEPT ![c] = FALSE]
  /\ input' = [input EXCEPT ![c] = IF @ = "data" THEN "none" ELSE @]
  /\ UNCHANGED <<serverVars, poolVars, work, queueVars, setSockets, epFD,
                 deferred, astray, accepted, freed, keep>>

(* ns__notifyGetItems throws: the notification manager owns the soap object, *)
(* in a session that had no request parked.                                  *)
Defer(t) ==
  LET c == work[t] IN
  /\ pc[t] = "serve" /\ c \in DeferConns /\ input[c] = "data"
  /\ deferred' = deferred \cup {c}
  /\ work' = [work EXCEPT ![t] = None] /\ Goto(t, "next")
  /\ input' = [input EXCEPT ![c] = "none"]
  /\ UNCHANGED <<serverVars, poolVars, queueVars, setSockets, epFD, astray,
                 accepted, freed, open, keep>>

(* AddRequest: the session already has a request parked, on d.  The worker   *)
(* answers that one and passes d, in place of c, to NotifyDone.  It parks c  *)
(* only then, but holds m_mutexRequests from before: nobody else can tell,   *)
(* except that c cannot be answered yet (left out: it only allows more).     *)
Replace(t, d) ==
  LET c == work[t] IN
  /\ pc[t] = "serve" /\ c \in DeferConns /\ input[c] = "data" /\ d \in deferred
  /\ deferred' = (deferred \ {d}) \cup {c}
  /\ work' = [work EXCEPT ![t] = d] /\ Goto(t, "notifyDone")
  /\ input' = [input EXCEPT ![c] = "none"]
  /\ \/ keep[d] > 0 /\ UNCHANGED open
     \/ open' = [open EXCEPT ![d] = FALSE]
  /\ UNCHANGED <<serverVars, poolVars, queueVars, setSockets, epFD, astray,
                 accepted, freed, keep>>

(* The notification thread answers a deferred request and hands it back. *)
NotifierReply(c) ==
  /\ main # "exited" /\ pc[Notifier] = "idle" /\ c \in deferred
  /\ deferred' = deferred \ {c}
  /\ work' = [work EXCEPT ![Notifier] = c] /\ Goto(Notifier, "notifyDone")
  /\ \/ keep[c] > 0 /\ UNCHANGED open
     \/ open' = [open EXCEPT ![c] = FALSE]
  /\ UNCHANGED <<serverVars, poolVars, queueVars, setSockets, epFD, astray,
                 accepted, freed, keep, input>>

-----------------------------------------------------------------------------
(* ECDispatcher::NotifyDone, called by workers and by the notification       *)
(* thread.  m_bExit is read without a lock.                                  *)

DispatcherDeleted == main \in {"removed", "exited"}

(* m_bExit, or the socket is gone: end the connection and free it. *)
NotifyDoneFree(t) ==
  LET c == work[t] IN
  /\ pc[t] = "notifyDone" /\ ~DispatcherDeleted
  /\ \/ bExit /\ UNCHANGED keep
     \/ ~bExit /\ ~open[c] /\ keep' = [keep EXCEPT ![c] = @ - 1]
  /\ Free(c)
  /\ work' = [work EXCEPT ![t] = None] /\ Goto(t, AfterDone(t))
  /\ UNCHANGED <<serverVars, poolVars, queueVars, setSockets, epFD, deferred,
                 astray, accepted, open, input>>

(* Not exiting and the socket is alive: it goes back to the map ... *)
NotifyDoneKeep(t) ==
  LET c == work[t] IN
  /\ pc[t] = "notifyDone" /\ ~DispatcherDeleted /\ ~bExit /\ open[c]
  /\ keep' = [keep EXCEPT ![c] = @ - 1]
  /\ Goto(t, "requeue")
  /\ UNCHANGED <<serverVars, poolVars, work, queueVars, setSockets, epFD,
                 deferred, astray, accepted, freed, open, input>>

(* ... under m_mutexSockets ... *)
InsertSocket(t) ==
  /\ pc[t] = "requeue" /\ Goto(t, "restart")
  /\ setSockets' = setSockets \cup {work[t]}
  /\ UNCHANGED <<serverVars, poolVars, work, queueVars, epFD, deferred, astray,
                 connVars>>

(* ... and is polled again (NotifyRestart). *)
NotifyRestart(t) ==
  /\ pc[t] = "restart" /\ Goto(t, AfterDone(t))
  /\ epFD' = IF work[t] \in setSockets THEN epFD \cup {work[t]} ELSE epFD
  /\ work' = [work EXCEPT ![t] = None]
  /\ UNCHANGED <<serverVars, poolVars, queueVars, setSockets, deferred, astray,
                 connVars>>

(* The notification thread outlives the dispatcher: its call goes astray. *)
NotifyDoneDangling(t) ==
  /\ pc[t] = "notifyDone" /\ DispatcherDeleted /\ ~astray
  /\ astray' = TRUE
  /\ UNCHANGED <<serverVars, poolVars, pc, work, queueVars, setSockets, epFD,
                 deferred, connVars>>

WorkerStep(t) == GetNext(t) \/ NotifyIdle(t) \/ GetWait(t) \/ AfterWait(t)

NotifyDone(t) ==
  \/ NotifyDoneFree(t) \/ NotifyDoneKeep(t) \/ InsertSocket(t)
  \/ NotifyRestart(t) \/ NotifyDoneDangling(t)

(* The process has ended, or has left defined behaviour. *)
Terminated == (main \in {"exited", "reentered"} \/ astray) /\ UNCHANGED vars

Next ==
  \/ MainThread
  \/ \E c \in Conns : Accept(c) \/ IdleTimeout(c) \/ SocketEvent(c)
  \/ \E c \in Conns : ClientSend(c) \/ ClientClose(c)
  \/ (\E n \in HupThreads : Hup(n)) \/ HupBroadcast \/ Term \/ Quit
  \/ \E c \in Conns : ForceAddThread(c)
  \/ \E t \in Threads : WorkerStep(t) \/ SpuriousWakeup(t) \/ Serve(t) \/ Defer(t)
  \/ \E t \in Callers : NotifyDone(t)
  \/ \E t \in Threads, d \in Conns : Replace(t, d)
  \/ \E c \in Conns : NotifierReply(c)
  \/ Terminated

Spec == Init /\ [][Next]_vars

(* Every thread that can go on does.  Requests finish, except those of       *)
(* HangConns; the watchdog adds a thread when one item stays at the front    *)
(* (its age passes watchdog_max_age); epoll reports what stays readable.     *)
(* Nothing is assumed of clients, of signals, or of deferred requests.       *)
Fairness ==
  /\ WF_vars(MainThread) /\ WF_vars(HupBroadcast) /\ WF_vars(Quit)
  /\ \A c \in Conns : WF_vars(SocketEvent(c)) /\ WF_vars(ForceAddThread(c))
  /\ \A t \in Threads :
       /\ WF_vars(WorkerStep(t))
       /\ WF_vars(work[t] \notin HangConns /\ (Serve(t) \/ Defer(t)))
  /\ \A t \in Callers : WF_vars(NotifyDone(t))

FairSpec == Spec /\ Fairness

-----------------------------------------------------------------------------
(* Properties. *)

(* The threads that own the connection they work on. *)
Working == {t \in Callers : pc[t] \in {"serve", "notifyDone", "requeue"}}

(* The places that own connections: socket map, queues, threads, notifier. *)
Places == <<setSockets, InQueue(queueItems), InQueue(queuePrioItems),
            {work[t] : t \in Working}, deferred>>

Held == UNION {Places[i] : i \in 1..5}

Distinct(q) == \A i, j \in 1..Len(q) : q[i] = q[j] => i = j

(* A connection is never in two places: no two threads work on one soap      *)
(* object, none is polled or queued while a thread works on it, and what     *)
(* epoll reports is in the map, where find(fd) is used unchecked.            *)
SoleOwner ==
  /\ epFD \subseteq setSockets
  /\ \A i, j \in 1..5 : i # j => Places[i] \cap Places[j] = {}
  /\ \A t, u \in Working : work[t] = work[u] => t = u
  /\ Distinct(queueItems) /\ Distinct(queuePrioItems)

(* An accepted connection is owned by someone or has been freed, once: no    *)
(* path of the dispatcher, up to and including its exit, forgets a soap      *)
(* object, frees it twice or keeps it when it is freed.                      *)
HeldOrFreed == \A c \in Conns :
  IF c \in accepted THEN freed[c] = (IF c \in Held THEN 0 ELSE 1)
  ELSE freed[c] = 0 /\ c \notin Held

(* A thread executes the request on c, or hands c back after its answer.     *)
Served(c)   == \E t \in Callers : work[t] = c /\ pc[t] = "serve"
Answered(c) == \E t \in Callers : work[t] = c /\ pc[t] \in {"notifyDone", "requeue"}

(* The stage of each connection, by the place that has it.  SoleOwner says   *)
(* that it has one; "astray" (lost, or freed twice) is no stage that         *)
(* ConnectionOwnership knows.                                                *)
Stage == [c \in Conns |->
  IF c \notin accepted THEN "new"
  ELSE IF freed[c] = 1 THEN "closed"
  ELSE IF freed[c] > 1 THEN "astray"
  ELSE IF c \in setSockets THEN "idle"
  ELSE IF c \in deferred THEN "deferred"
  ELSE IF Served(c) THEN "served"
  ELSE IF Answered(c) THEN "answered"
  ELSE IF c \in InQueue(queueItems) \cup InQueue(queuePrioItems) THEN "queued"
  ELSE "astray"]

Ownership == INSTANCE ConnectionOwnership WITH stage <- Stage, stopping <- bExit

(* The dispatcher, the notification manager and the exit together let each   *)
(* connection live as ConnectionOwnership says: it moves from owner to owner *)
(* in one step, nobody closes it while it waits or is served, but for a      *)
(* server that stops, and once closed it is never touched again.             *)
ImplementsOwnership == Ownership!Spec

(* No lost wakeup: while a thread sleeps on its condition, at least as many  *)
(* threads are on their way to the queue as there are items in it.           *)
Coming(ts) == {t \in ts : pc[t] \in {"woken", "next"}}
NoLostWakeup ==
  /\ Waiting # {} => Len(queueItems) <= Cardinality(Coming(Workers))
  /\ PrioWaiting # {} => Len(queuePrioItems) <= Cardinality(Coming({Prio}))

(* "This makes sure no new threads will be started": after the watchdog is   *)
(* deleted the pool only shrinks.                                            *)
NoThreadsDuringExit ==
  [][main \notin {"start", "loop", "watchdog"} => lstThreads' \subseteq lstThreads]_vars

(* A queued request is taken by a thread, even while the nominal number of   *)
(* threads is stuck in requests that never finish, and a priority request    *)
(* whatever the normal ones do.                                              *)
QueuedIsTaken ==
  \A c \in Conns :
    c \in InQueue(queueItems) \cup InQueue(queuePrioItems)
      ~> c \notin InQueue(queueItems) \cup InQueue(queuePrioItems) \/ bExit

(* SIGTERM ends the main loop: every thread leaves and is joined, unless one *)
(* is stuck in a request that never finishes.                                *)
Stuck == \E t \in Threads : pc[t] = "serve" /\ work[t] \in HangConns
ShutdownCompletes ==
  bExit ~> Stuck \/ main \in {"done", "reentered", "removed", "exited"}

(* When MainLoop returns no thread is left, nothing is queued, and only the  *)
(* notification manager can still have, or hand back, a connection.          *)
ExitLeavesNothing ==
  main \in {"done", "removed", "exited"} =>
    /\ \A t \in Threads : pc[t] = "off"
    /\ Held \subseteq deferred \cup (setSockets \cap DeferConns) \cup {work[Notifier]}
=============================================================================
