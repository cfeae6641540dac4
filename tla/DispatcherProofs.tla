-------------------------- MODULE DispatcherProofs --------------------------
(***************************************************************************)
(* Proofs about Dispatcher, for any number of connections, worker threads  *)
(* and reloads: every connection has one owner until it is freed, once; no *)
(* wakeup of a worker is lost; no thread starts while the server exits,    *)
(* and nothing is left when it has; and each connection lives as           *)
(* ConnectionOwnership says.                                               *)
(*                                                                         *)
(* The invariant has three parts besides the types: which threads exist and *)
(* how far the exit is (CInv), where each connection is (OwnInv), and what *)
(* is left of its keep-alive count (KeepInv).  NoLostWakeup is inductive   *)
(* given the types.                                                        *)
(***************************************************************************)
EXTENDS Dispatcher, FiniteSetTheorems, TLAPS

-----------------------------------------------------------------------------
(* Queues. *)

(* What Append does to the connections in a queue. *)
LEMMA QueueAppend ==
  ASSUME NEW q \in Seq(Conns), NEW c \in Conns
  PROVE  /\ Append(q, c) \in Seq(Conns)
         /\ InQueue(Append(q, c)) = InQueue(q) \cup {c}
         /\ Distinct(q) /\ c \notin InQueue(q) => Distinct(Append(q, c))
<1>1. /\ Append(q, c) \in Seq(Conns) /\ Len(Append(q, c)) = Len(q) + 1
      /\ \A i \in 1..Len(q) : Append(q, c)[i] = q[i]
      /\ Append(q, c)[Len(q) + 1] = c /\ Len(q) \in Nat
  OBVIOUS
<1>2. InQueue(Append(q, c)) = InQueue(q) \cup {c}
  <2>1. \A i \in 1..(Len(q) + 1) : i \in 1..Len(q) \/ i = Len(q) + 1
    BY <1>1
  <2>2. \A i \in 1..Len(q) : i \in 1..(Len(q) + 1)
    BY <1>1
  <2>3. Len(q) + 1 \in 1..(Len(q) + 1)
    BY <1>1
  <2> QED
    BY <1>1, <2>1, <2>2, <2>3 DEF InQueue
<1>3. ASSUME Distinct(q), c \notin InQueue(q) PROVE Distinct(Append(q, c))
  BY <1>1, <1>3 DEF Distinct, InQueue
<1> QED
  BY <1>1, <1>2, <1>3

(* What taking the first item of a queue leaves. *)
LEMMA QueueTail ==
  ASSUME NEW q \in Seq(Conns), q # <<>>
  PROVE  /\ Head(q) \in InQueue(q) /\ Head(q) \in Conns
         /\ Tail(q) \in Seq(Conns) /\ Len(Tail(q)) = Len(q) - 1
         /\ Distinct(q) => Distinct(Tail(q)) /\ InQueue(Tail(q)) = InQueue(q) \ {Head(q)}
<1>1. /\ Len(q) \in Nat \ {0} /\ Head(q) = q[1] /\ Tail(q) \in Seq(Conns)
      /\ Len(Tail(q)) = Len(q) - 1
      /\ \A i \in 1..(Len(q) - 1) : Tail(q)[i] = q[i + 1]
  OBVIOUS
<1>2. 1 \in 1..Len(q) /\ q[1] \in Conns
  BY <1>1
<1>3. ASSUME Distinct(q) PROVE Distinct(Tail(q))
  BY <1>1, <1>3 DEF Distinct
<1>4. ASSUME Distinct(q) PROVE InQueue(Tail(q)) = InQueue(q) \ {Head(q)}
  <2>1. \A i \in 1..(Len(q) - 1) : i + 1 \in 1..Len(q) /\ i + 1 # 1
    BY <1>1
  <2>2. \A i \in 1..Len(q) : i # 1 => i - 1 \in 1..(Len(q) - 1) /\ (i - 1) + 1 = i
    BY <1>1
  <2>3. InQueue(Tail(q)) \subseteq InQueue(q) \ {Head(q)}
    BY <1>1, <1>2, <1>4, <2>1 DEF Distinct, InQueue
  <2>4. InQueue(q) \ {Head(q)} \subseteq InQueue(Tail(q))
    BY <1>1, <2>2 DEF InQueue
  <2> QED
    BY <2>3, <2>4
<1> QED
  BY <1>1, <1>2, <1>3, <1>4 DEF InQueue

(* How often a connection occurs in a queue without duplicates. *)
LEMMA QueueCount ==
  ASSUME NEW q \in Seq(Conns), Distinct(q), NEW c \in Conns
  PROVE  Cardinality({i \in 1..Len(q) : q[i] = c}) = IF c \in InQueue(q) THEN 1 ELSE 0
<1> DEFINE I == {i \in 1..Len(q) : q[i] = c}
<1>1. CASE c \in InQueue(q)
  <2>1. PICK i \in 1..Len(q) : q[i] = c
    BY <1>1 DEF InQueue
  <2>2. I = {i}
    BY <2>1 DEF Distinct
  <2> QED
    BY <1>1, <2>2, FS_Singleton
<1>2. CASE c \notin InQueue(q)
  <2>1. I = {}
    BY <1>2 DEF InQueue
  <2> QED
    BY <1>2, <2>1, FS_EmptySet
<1> QED
  BY <1>1, <1>2

-----------------------------------------------------------------------------
(* The pool and the exit: which threads exist while the main thread is where. *)

Joined == {"joinprio", "drain", "close", "done", "reentered", "removed", "exited"}
Drained == {"close", "done", "reentered", "removed", "exited"}

(* The list of threads is the threads that run; none start once joined. *)
PoolInv ==
  /\ \A w \in Workers : pc[w] = "off" <=> w \notin lstThreads
  /\ main = "start" => lstThreads = {} /\ pc[Prio] = "off" /\ watchdog = FALSE
  /\ main \in Joined => lstThreads = {}
  /\ main \in Joined \ {"joinprio"} => pc[Prio] = "off"

(* The exit: no reload once it has been asked for, no watchdog, no queues. *)
ExitInv ==
  /\ bExit = TRUE <=> sig \in {"term", "quit"}
  /\ main \notin {"start", "loop"} => bExit = TRUE
  /\ main \notin {"start", "loop", "watchdog"} => watchdog = FALSE
  /\ main \in Drained => queueItems = <<>> /\ queuePrioItems = <<>>
  /\ main \in Drained \ {"close"} => setSockets \subseteq DeferConns

WorkPc == {"serve", "notifyDone", "requeue", "restart"}

(* A thread that works has work; the notifier only has deferred requests. *)
WorkInv ==
  /\ \A t \in Callers : pc[t] \in WorkPc => work[t] \in Conns
  /\ pc[Notifier] \in {"idle", "notifyDone", "requeue", "restart"}
  /\ pc[Notifier] # "idle" => work[Notifier] \in DeferConns
  /\ deferred \subseteq DeferConns

CInv == PoolInv /\ ExitInv /\ WorkInv

(* At most, threads are woken. *)
Wakes ==
  /\ pc' \in [Callers -> CallerPc]
  /\ \A t \in Callers : pc'[t] = pc[t] \/ (pc[t] = "waiting" /\ pc'[t] = "woken")

(* Waking threads that wait. *)
LEMMA WokenWakes ==
  ASSUME TypeOK, NEW ts, ts \subseteq Waiting \cup PrioWaiting, pc' = Woken(ts)
  PROVE  Wakes
  BY DEF TypeOK, Wakes, Woken, Waiting, PrioWaiting, CallerPc

(* Signalling a condition, with or without a waiter. *)
LEMMA SignalWakes ==
  ASSUME TypeOK, NEW ts, ts \subseteq Waiting \cup PrioWaiting, Signal(ts)
  PROVE  Wakes
<1>1. CASE ts = {}
  BY <1>1 DEF Signal, TypeOK, Wakes
<1>2. CASE ts # {}
  <2>1. PICK t \in ts : pc' = Woken({t})
    BY <1>2 DEF Signal
  <2> QED
    BY <2>1, WokenWakes
<1> QED
  BY <1>1, <1>2

(* Queueing a connection wakes at most one thread. *)
LEMMA QueueItemWakes == ASSUME TypeOK, NEW c \in Conns, QueueItem(c) PROVE Wakes
  BY SignalWakes DEF QueueItem

(* An event either closes a connection or queues it. *)
LEMMA SocketEventWakes == ASSUME TypeOK, NEW c \in Conns, SocketEvent(c) PROVE Wakes
  BY QueueItemWakes DEF SocketEvent, TypeOK, Wakes

(* The broadcasts of the main thread and of a reload. *)
LEMMA BroadcastWakes == ASSUME TypeOK, WakeAll \/ HupBroadcast PROVE Wakes
  BY WokenWakes DEF WakeAll, HupBroadcast

(* Threads are only started out of those that do not run. *)
LEMMA StartThreadsStarts ==
  ASSUME TypeOK, NEW n, StartThreads(n)
  PROVE  \E new \in SUBSET {w \in Workers : pc[w] = "off"} :
           /\ lstThreads' = lstThreads \cup new /\ pc' \in [Callers -> CallerPc]
           /\ \A t \in Callers : pc'[t] = IF t \in new THEN "next" ELSE pc[t]
<1>1. PICK new \in SUBSET {w \in Workers : pc[w] = "off"} :
        /\ lstThreads' = lstThreads \cup new
        /\ pc' = [t \in Callers |-> IF t \in new THEN "next" ELSE pc[t]]
  BY DEF StartThreads
<1>2. pc' \in [Callers -> CallerPc]
  BY <1>1 DEF TypeOK, CallerPc
<1> QED
  BY <1>1, <1>2

(* SetThreadCount(0) starts nothing. *)
LEMMA SetCountZeroStarts == ASSUME TypeOK, SetCountZero PROVE UNCHANGED <<lstThreads, pc>>
<1>1. Cardinality(lstThreads) \in Nat
  BY FS_Subset, FS_CardinalityType, DispatcherAssumption DEF TypeOK
<1> QED
  BY <1>1 DEF SetCountZero, ManagerSetThreadCount

(* A thread that takes an item has it, and goes on to serve it. *)
LEMMA TakeItemTakes ==
  ASSUME TypeOK, NEW t \in Threads, TakeItem(t)
  PROVE  /\ Head(QueueOf(t)) \in InQueue(QueueOf(t)) /\ Head(QueueOf(t)) \in Conns
         /\ work' = [work EXCEPT ![t] = Head(QueueOf(t))]
         /\ work'[t] \in Conns /\ \A u \in Callers : u # t => work'[u] = work[u]
         /\ pc' = [pc EXCEPT ![t] = "serve"]
         /\ queueItems' \in Seq(Conns) /\ queuePrioItems' \in Seq(Conns)
<1>1. QueueOf(t) \in Seq(Conns) /\ QueueOf(t) # <<>>
  BY DEF TakeItem, QueueOf, TypeOK
<1> QED
  BY <1>1, QueueTail DEF TakeItem, QueueOf, Goto, TypeOK, Callers

(* While a thread runs the main thread has neither to start nor left it.      *)
LEMMA RunsBetween ==
  ASSUME TypeOK, PoolInv, NEW t \in Threads, pc[t] # "off"
  PROVE  main \notin Joined \ {"joinprio"} /\ main # "start"
  BY DEF PoolInv, Joined, Threads

(* Initially nothing runs. *)
LEMMA ControlInit == Init => CInv
  BY DispatcherAssumption DEF Init, CInv, PoolInv, ExitInv, WorkInv, WorkPc, Joined,
     Drained, Callers, Threads

(* The control invariant is inductive, given the types. *)
LEMMA ControlNext == TypeOK /\ CInv /\ [Next]_vars => CInv'
<1> SUFFICES ASSUME TypeOK, CInv, [Next]_vars PROVE CInv'
  OBVIOUS
<1> USE DispatcherAssumption DEF TypeOK, CInv, PoolInv, ExitInv, WorkInv, WorkPc, Joined,
       Drained, Callers, Threads, Goto, serverVars, poolVars, queueVars, connVars
<1>1. CASE MainStart
  BY <1>1 DEF MainStart
<1>2. CASE LoopExit
  BY <1>2 DEF LoopExit
<1>3. CASE DeleteWatchDog
  BY <1>3 DEF DeleteWatchDog
<1>4. CASE SetCountZero
  BY <1>4, SetCountZeroStarts DEF SetCountZero
<1>5. CASE WakeAll
  BY <1>5, BroadcastWakes DEF WakeAll, Wakes
<1>6. CASE JoinWorkers
  BY <1>6 DEF JoinWorkers
<1>7. CASE DrainQueues
  BY <1>7 DEF DrainQueues
<1>8. CASE CloseSockets
  BY <1>8 DEF CloseSockets
<1>9. CASE MainLoopReturned
  BY <1>9 DEF MainLoopReturned
<1>10. CASE DeleteSessionManager
  BY <1>10 DEF DeleteSessionManager
<1>11. ASSUME NEW c \in Conns, Accept(c) PROVE CInv'
  BY <1>11 DEF Accept
<1>12. ASSUME NEW c \in Conns, IdleTimeout(c) PROVE CInv'
  BY <1>12 DEF IdleTimeout
<1>13. ASSUME NEW c \in Conns, SocketEvent(c) PROVE CInv'
  BY <1>13, SocketEventWakes DEF SocketEvent, Wakes
<1>14. ASSUME NEW c \in Conns, ClientSend(c) PROVE CInv'
  BY <1>14 DEF ClientSend
<1>15. ASSUME NEW c \in Conns, ClientClose(c) PROVE CInv'
  BY <1>15 DEF ClientClose
<1>16. ASSUME NEW n \in HupThreads, Hup(n) PROVE CInv'
  <2>1. CASE StartThreads(n - Cardinality(lstThreads)) /\ main # "start"
    <3>1. PICK new \in SUBSET {w \in Workers : pc[w] = "off"} :
            /\ lstThreads' = lstThreads \cup new /\ pc' \in [Callers -> CallerPc]
            /\ \A t \in Callers : pc'[t] = IF t \in new THEN "next" ELSE pc[t]
      BY <2>1, StartThreadsStarts
    <3> QED
      BY <1>16, <2>1, <3>1 DEF Hup
  <2>2. CASE UNCHANGED <<lstThreads, pc>>
    BY <1>16, <2>2 DEF Hup
  <2> QED
    BY <1>16, <2>1, <2>2 DEF Hup, ManagerSetThreadCount
<1>17. CASE HupBroadcast
  BY <1>17, BroadcastWakes DEF HupBroadcast, Wakes
<1>18. CASE Term
  BY <1>18 DEF Term
<1>19. CASE Quit
  BY <1>19 DEF Quit
<1>20. ASSUME NEW c \in Conns, ForceAddThread(c) PROVE CInv'
  <2>1. PICK new \in SUBSET {w \in Workers : pc[w] = "off"} :
          /\ lstThreads' = lstThreads \cup new /\ pc' \in [Callers -> CallerPc]
          /\ \A t \in Callers : pc'[t] = IF t \in new THEN "next" ELSE pc[t]
    BY <1>20, StartThreadsStarts DEF ForceAddThread
  <2> QED
    BY <1>20, <2>1 DEF ForceAddThread
<1>21. ASSUME NEW t \in Threads, GetNext(t) PROVE CInv'
  <2>1. main \notin Drained /\ main # "start" /\ pc[t] # "off"
    BY <1>21, RunsBetween DEF GetNext
  <2>2. CASE TakeItem(t)
    <3>1. work'[t] \in Conns /\ pc' = [pc EXCEPT ![t] = "serve"]
          /\ \A u \in Callers : u # t => work'[u] = work[u]
      BY <2>2, TakeItemTakes
    <3> QED
      BY <1>21, <2>1, <3>1 DEF GetNext
  <2>3. ASSUME UNCHANGED <<work, queueVars>>,
               Goto(t, "idle") \/ Goto(t, "next") \/ Goto(t, "waiting")
        PROVE  CInv'
    BY <1>21, <2>1, <2>3 DEF GetNext
  <2> QED
    BY <1>21, <2>2, <2>3 DEF GetNext
<1>22. ASSUME NEW t \in Threads, NotifyIdle(t) PROVE CInv'
  <2>1. main \notin Drained /\ main # "start" /\ pc[t] # "off" /\ t # Notifier
    BY <1>22, RunsBetween DEF NotifyIdle
  <2>2. CASE t = Prio
    BY <1>22, <2>2 DEF NotifyIdle
  <2>3. CASE t \in Workers /\ lstThreads' = lstThreads \ {t} /\ Goto(t, "off")
    BY <1>22, <2>1, <2>3 DEF NotifyIdle
  <2>4. CASE t \in Workers /\ UNCHANGED lstThreads /\ Goto(t, "getwait")
    BY <1>22, <2>1, <2>4 DEF NotifyIdle
  <2> QED
    BY <1>22, <2>2, <2>3, <2>4 DEF NotifyIdle
<1>23. ASSUME NEW t \in Threads, GetWait(t) PROVE CInv'
  <2>1. main \notin Drained /\ main # "start" /\ pc[t] # "off"
    BY <1>23, RunsBetween DEF GetWait
  <2>2. CASE TakeItem(t)
    <3>1. work'[t] \in Conns /\ pc' = [pc EXCEPT ![t] = "serve"]
          /\ \A u \in Callers : u # t => work'[u] = work[u]
      BY <2>2, TakeItemTakes
    <3> QED
      BY <1>23, <2>1, <3>1 DEF GetWait
  <2>3. ASSUME UNCHANGED <<work, queueVars>>,
               Goto(t, "idle") \/ Goto(t, "next") \/ Goto(t, "waiting")
        PROVE  CInv'
    BY <1>23, <2>1, <2>3 DEF GetWait
  <2> QED
    BY <1>23, <2>2, <2>3 DEF GetWait
<1>24. ASSUME NEW t \in Threads, AfterWait(t) PROVE CInv'
  <2>1. main \notin Drained /\ main # "start" /\ pc[t] # "off"
    BY <1>24, RunsBetween DEF AfterWait
  <2>2. CASE TakeItem(t)
    <3>1. work'[t] \in Conns /\ pc' = [pc EXCEPT ![t] = "serve"]
          /\ \A u \in Callers : u # t => work'[u] = work[u]
      BY <2>2, TakeItemTakes
    <3> QED
      BY <1>24, <2>1, <3>1 DEF AfterWait
  <2>3. ASSUME UNCHANGED <<work, queueVars>>,
               Goto(t, "idle") \/ Goto(t, "next") \/ Goto(t, "waiting")
        PROVE  CInv'
    BY <1>24, <2>1, <2>3 DEF AfterWait
  <2> QED
    BY <1>24, <2>2, <2>3 DEF AfterWait
<1>25. ASSUME NEW t \in Threads, SpuriousWakeup(t) PROVE CInv'
  BY <1>25 DEF SpuriousWakeup
<1>26. ASSUME NEW t \in Threads, Serve(t) PROVE CInv'
  BY <1>26 DEF Serve
<1>27. ASSUME NEW t \in Threads, Defer(t) PROVE CInv'
  BY <1>27 DEF Defer
<1>28. ASSUME NEW t \in Callers, NotifyDoneFree(t) PROVE CInv'
  BY <1>28 DEF NotifyDoneFree, AfterDone
<1>29. ASSUME NEW t \in Callers, NotifyDoneKeep(t) PROVE CInv'
  BY <1>29 DEF NotifyDoneKeep
<1>30. ASSUME NEW t \in Callers, InsertSocket(t) PROVE CInv'
  BY <1>30 DEF InsertSocket
<1>31. ASSUME NEW t \in Callers, NotifyRestart(t) PROVE CInv'
  BY <1>31 DEF NotifyRestart, AfterDone
<1>32. ASSUME NEW t \in Callers, NotifyDoneDangling(t) PROVE CInv'
  BY <1>32 DEF NotifyDoneDangling
<1>33. ASSUME NEW c \in Conns, NotifierReply(c) PROVE CInv'
  BY <1>33 DEF NotifierReply
<1>34. CASE UNCHANGED vars
  BY <1>34 DEF vars
<1>35. ASSUME NEW t \in Threads, NEW d \in Conns, Replace(t, d) PROVE CInv'
  BY <1>35 DEF Replace
<1> QED
  BY <1>1, <1>2, <1>3, <1>4, <1>5, <1>6, <1>7, <1>8, <1>9, <1>10, <1>11,
     <1>12, <1>13, <1>14, <1>15, <1>16, <1>17, <1>18, <1>19, <1>20, <1>21,
     <1>22, <1>23, <1>24, <1>25, <1>26, <1>27, <1>28, <1>29, <1>30, <1>31,
     <1>32, <1>33, <1>34, <1>35
     DEF Next, MainThread, WorkerStep, NotifyDone, Terminated

-----------------------------------------------------------------------------
(* Ownership: every connection is in one place, or has been freed.           *)

Busy == {work[t] : t \in Working}
UniqueWork == \A t, u \in Working : work[t] = work[u] => t = u

(* SoleOwner, place by place. *)
OneOwner ==
  /\ epFD \subseteq setSockets
  /\ UniqueWork /\ Distinct(queueItems) /\ Distinct(queuePrioItems)
  /\ \A c \in setSockets :
       c \notin InQueue(queueItems) \cup InQueue(queuePrioItems) \cup Busy \cup deferred
  /\ \A c \in InQueue(queueItems) : c \notin InQueue(queuePrioItems) \cup Busy \cup deferred
  /\ \A c \in InQueue(queuePrioItems) : c \notin Busy \cup deferred
  /\ \A c \in Busy : c \notin deferred

Somewhere ==
  setSockets \cup InQueue(queueItems) \cup InQueue(queuePrioItems) \cup Busy \cup deferred

(* HeldOrFreed, with the places spelled out. *)
FreedOnce == \A c \in Conns :
  IF c \in accepted THEN freed[c] = (IF c \in Somewhere THEN 0 ELSE 1)
  ELSE freed[c] = 0 /\ c \notin Somewhere

OwnInv == OneOwner /\ FreedOnce

(* The places by number and by name. *)
LEMMA PlacesAre ==
  /\ Places[1] = setSockets /\ Places[2] = InQueue(queueItems)
  /\ Places[3] = InQueue(queuePrioItems) /\ Places[4] = Busy /\ Places[5] = deferred
  BY DEF Places, Busy

(* What is held is what is in one of the five places. *)
LEMMA HeldIsSomewhere == Held = Somewhere
<1>1. \A i \in 1..5 : i = 1 \/ i = 2 \/ i = 3 \/ i = 4 \/ i = 5
  OBVIOUS
<1>2. Held \subseteq Somewhere
  BY <1>1, PlacesAre DEF Held, Somewhere
<1>3. Somewhere \subseteq Held
  <2>1. 1 \in 1..5 /\ 2 \in 1..5 /\ 3 \in 1..5 /\ 4 \in 1..5 /\ 5 \in 1..5
    OBVIOUS
  <2> QED
    BY <2>1, PlacesAre DEF Held, Somewhere
<1> QED
  BY <1>2, <1>3

(* The invariant implies the properties it spells out. *)
LEMMA OwnersImply == OwnInv => SoleOwner /\ HeldOrFreed
<1> SUFFICES ASSUME OwnInv PROVE SoleOwner /\ HeldOrFreed
  OBVIOUS
<1>1. HeldOrFreed
  BY HeldIsSomewhere DEF OwnInv, FreedOnce, HeldOrFreed
<1>2. \A i \in 1..5 : i = 1 \/ i = 2 \/ i = 3 \/ i = 4 \/ i = 5
  OBVIOUS
<1>3. \A i, j \in 1..5 : i # j => Places[i] \cap Places[j] = {}
  BY <1>2, PlacesAre DEF OwnInv, OneOwner
<1> QED
  BY <1>1, <1>3 DEF OwnInv, OneOwner, UniqueWork, SoleOwner

(* The threads that work, and on what, stay the same. *)
LEMMA BusySame ==
  ASSUME \A t \in Callers : (t \in Working <=> t \in Working') /\
                            (t \in Working => work'[t] = work[t])
  PROVE  Busy' = Busy /\ (UniqueWork => UniqueWork')
<1>1. Working' = Working
  BY DEF Working
<1>2. \A t \in Working : work'[t] = work[t]
  BY DEF Working
<1> QED
  BY <1>1, <1>2 DEF Busy, UniqueWork

(* A thread begins to work on a connection nobody works on. *)
LEMMA BusyEnter ==
  ASSUME NEW t \in Callers, t \notin Working, t \in Working', work'[t] \notin Busy,
         \A u \in Callers : u # t => (u \in Working <=> u \in Working') /\
                                     (u \in Working => work'[u] = work[u])
  PROVE  Busy' = Busy \cup {work'[t]} /\ (UniqueWork => UniqueWork')
<1>1. Working' = Working \cup {t}
  BY DEF Working
<1>2. \A u \in Working : work'[u] = work[u]
  BY DEF Working
<1>3. Busy' = {work'[u] : u \in Working'}
  BY DEF Busy
<1>4. UniqueWork' = \A v, u \in Working' : work'[v] = work'[u] => v = u
  BY DEF UniqueWork
<1> QED
  BY <1>1, <1>2, <1>3, <1>4 DEF Busy, UniqueWork

(* A thread is done with its connection. *)
LEMMA BusyLeave ==
  ASSUME NEW t \in Callers, t \in Working, t \notin Working', UniqueWork,
         \A u \in Callers : u # t => (u \in Working <=> u \in Working') /\
                                     (u \in Working => work'[u] = work[u])
  PROVE  Busy' = Busy \ {work[t]} /\ UniqueWork'
<1>1. Working' = Working \ {t}
  BY DEF Working
<1>2. \A u \in Working' : work'[u] = work[u]
  BY <1>1 DEF Working
<1>3. Busy' = {work'[u] : u \in Working'}
  BY DEF Busy
<1>4. UniqueWork' = \A v, u \in Working' : work'[v] = work'[u] => v = u
  BY DEF UniqueWork
<1> QED
  BY <1>1, <1>2, <1>3, <1>4 DEF Busy, UniqueWork

(* A thread goes on with another connection that nobody works on.            *)
LEMMA BusyChange ==
  ASSUME NEW t \in Callers, t \in Working, t \in Working', UniqueWork,
         work'[t] \notin Busy,
         \A u \in Callers : u # t => (u \in Working <=> u \in Working') /\
                                     (u \in Working => work'[u] = work[u])
  PROVE  Busy' = (Busy \ {work[t]}) \cup {work'[t]} /\ UniqueWork'
<1>1. Working' = Working
  BY DEF Working
<1>2. \A u \in Working : u # t => work'[u] = work[u] /\ work[u] # work[t]
  BY DEF Working, UniqueWork
<1>3. Busy' = {work'[u] : u \in Working'}
  BY DEF Busy
<1>4. UniqueWork' = \A v, u \in Working' : work'[v] = work'[u] => v = u
  BY DEF UniqueWork
<1> QED
  BY <1>1, <1>2, <1>3, <1>4 DEF Busy, UniqueWork

(* The threads keep the work they have. *)
SameWork ==
  \A t \in Callers : (t \in Working <=> t \in Working') /\
                     (t \in Working => work'[t] = work[t])

(* A step that moves no connection keeps the invariant. *)
LEMMA SameOwnersKeep ==
  ASSUME OwnInv, SameWork,
         UNCHANGED <<setSockets, epFD, queueVars, deferred, accepted, freed>>
  PROVE  OwnInv'
<1>1. Busy' = Busy /\ (UniqueWork => UniqueWork')
  BY BusySame DEF SameWork
<1>2. OneOwner'
  BY <1>1 DEF OwnInv, OneOwner, queueVars
<1>3. Somewhere' = Somewhere
  BY <1>1 DEF Somewhere, queueVars
<1>4. FreedOnce'
  BY <1>3 DEF OwnInv, FreedOnce
<1> QED
  BY <1>2, <1>4 DEF OwnInv

(* Waking threads moves no connection; nor does starting them. *)
LEMMA WakesSameWork == ASSUME Wakes, UNCHANGED work PROVE SameWork
  BY DEF Wakes, SameWork, Working

(* Threads that are started have no work yet. *)
LEMMA StartsSameWork ==
  ASSUME TypeOK, NEW n, StartThreads(n), UNCHANGED work
  PROVE  SameWork
<1>1. PICK new \in SUBSET {w \in Workers : pc[w] = "off"} :
        \A t \in Callers : pc'[t] = IF t \in new THEN "next" ELSE pc[t]
  BY StartThreadsStarts
<1> QED
  BY <1>1 DEF SameWork, Working

(* A connection moves from the front of a queue to the thread that takes it. *)
LEMMA TakeKeeps ==
  ASSUME TypeOK, OwnInv, NEW t \in Threads, TakeItem(t), pc[t] \notin WorkPc,
         UNCHANGED <<setSockets, epFD, deferred, accepted, freed>>
  PROVE  OwnInv'
<1> DEFINE c == Head(QueueOf(t))
<1>1. /\ c \in InQueue(QueueOf(t)) /\ c \in Conns /\ work'[t] = c
      /\ \A u \in Callers : u # t => work'[u] = work[u] /\ pc'[u] = pc[u]
      /\ pc'[t] = "serve" /\ t \in Callers
  BY TakeItemTakes DEF TypeOK, Callers
<1>2. c \notin Busy
  BY <1>1 DEF OwnInv, OneOwner, QueueOf
<1>3. Busy' = Busy \cup {c} /\ (UniqueWork => UniqueWork')
  <2>1. t \notin Working /\ t \in Working'
    BY <1>1 DEF Working, WorkPc
  <2>2. \A u \in Callers : u # t => (u \in Working <=> u \in Working') /\
                                    (u \in Working => work'[u] = work[u])
    BY <1>1 DEF Working
  <2> QED
    BY <1>1, <1>2, <2>1, <2>2, BusyEnter
<1>4. CASE t = Prio
  <2>1. queuePrioItems # <<>> /\ c = Head(queuePrioItems)
        /\ queuePrioItems' = Tail(queuePrioItems) /\ UNCHANGED queueItems
    BY <1>4 DEF TakeItem, QueueOf
  <2>2. c \in InQueue(queuePrioItems) /\ Distinct(queuePrioItems)'
        /\ InQueue(queuePrioItems)' = InQueue(queuePrioItems) \ {c}
    BY <2>1, QueueTail DEF TypeOK, OwnInv, OneOwner
  <2>3. InQueue(queueItems)' = InQueue(queueItems) /\ Distinct(queueItems)'
    BY <2>1 DEF OwnInv, OneOwner
  <2>4. OneOwner'
    BY <1>3, <2>2, <2>3 DEF OwnInv, OneOwner
  <2>5. Somewhere' = Somewhere
    BY <1>3, <2>2, <2>3 DEF Somewhere
  <2> QED
    BY <2>4, <2>5 DEF OwnInv, FreedOnce
<1>5. CASE t # Prio
  <2>1. queueItems # <<>> /\ c = Head(queueItems)
        /\ queueItems' = Tail(queueItems) /\ UNCHANGED queuePrioItems
    BY <1>5 DEF TakeItem, QueueOf
  <2>2. c \in InQueue(queueItems) /\ Distinct(queueItems)'
        /\ InQueue(queueItems)' = InQueue(queueItems) \ {c}
    BY <2>1, QueueTail DEF TypeOK, OwnInv, OneOwner
  <2>3. InQueue(queuePrioItems)' = InQueue(queuePrioItems) /\ Distinct(queuePrioItems)'
    BY <2>1 DEF OwnInv, OneOwner
  <2>4. OneOwner'
    BY <1>3, <2>2, <2>3 DEF OwnInv, OneOwner
  <2>5. Somewhere' = Somewhere
    BY <1>3, <2>2, <2>3 DEF Somewhere
  <2> QED
    BY <2>4, <2>5 DEF OwnInv, FreedOnce
<1> QED
  BY <1>4, <1>5

(* A connection that was in none of the places is queued. *)
LEMMA QueueItemQueues ==
  ASSUME TypeOK, OneOwner, NEW c \in Conns, QueueItem(c),
         c \notin InQueue(queueItems) \cup InQueue(queuePrioItems)
  PROVE  /\ Distinct(queueItems)' /\ Distinct(queuePrioItems)'
         /\ \/ /\ InQueue(queueItems)' = InQueue(queueItems) \cup {c}
               /\ InQueue(queuePrioItems)' = InQueue(queuePrioItems)
            \/ /\ InQueue(queueItems)' = InQueue(queueItems)
               /\ InQueue(queuePrioItems)' = InQueue(queuePrioItems) \cup {c}
<1>1. CASE queueItems' = Append(queueItems, c) /\ UNCHANGED queuePrioItems
  BY <1>1, QueueAppend DEF TypeOK, OneOwner
<1>2. CASE queuePrioItems' = Append(queuePrioItems, c) /\ UNCHANGED queueItems
  BY <1>2, QueueAppend DEF TypeOK, OneOwner
<1> QED
  BY <1>1, <1>2 DEF QueueItem

(* Initially there are no connections. *)
LEMMA OwnersInit == Init => OwnInv
<1> SUFFICES ASSUME Init PROVE OwnInv
  OBVIOUS
<1>1. Working = {}
  BY DEF Init, Working
<1>2. Busy = {} /\ UniqueWork
  BY <1>1 DEF Busy, UniqueWork
<1>3. InQueue(queueItems) = {} /\ InQueue(queuePrioItems) = {}
      /\ Distinct(queueItems) /\ Distinct(queuePrioItems)
  BY DEF Init, InQueue, Distinct
<1> QED
  BY <1>2, <1>3 DEF Init, OwnInv, OneOwner, FreedOnce, Somewhere

(* The ownership invariant is inductive, given types and control. *)
LEMMA OwnersNext == TypeOK /\ CInv /\ OwnInv /\ [Next]_vars => OwnInv'
<1> SUFFICES ASSUME TypeOK, CInv, OwnInv, [Next]_vars PROVE OwnInv'
  OBVIOUS
<1> USE DispatcherAssumption DEF CInv, Goto, serverVars, poolVars, queueVars, connVars
<1>1. CASE MainStart
  <2>1. SameWork
    BY <1>1 DEF MainStart, SameWork, Working, PoolInv, Threads, Callers, TypeOK
  <2> QED
    BY <1>1, <2>1, SameOwnersKeep DEF MainStart
<1>2. CASE LoopExit
  <2>1. SameWork
    BY <1>2 DEF LoopExit, SameWork, Working
  <2> QED
    BY <1>2, <2>1, SameOwnersKeep DEF LoopExit
<1>3. CASE DeleteWatchDog
  <2>1. SameWork
    BY <1>3 DEF DeleteWatchDog, SameWork, Working
  <2> QED
    BY <1>3, <2>1, SameOwnersKeep DEF DeleteWatchDog
<1>4. CASE SetCountZero
  <2>1. SameWork
    BY <1>4, SetCountZeroStarts DEF SetCountZero, SameWork, Working
  <2> QED
    BY <1>4, <2>1, SameOwnersKeep DEF SetCountZero
<1>5. CASE WakeAll
  <2>1. SameWork
    BY <1>5, BroadcastWakes, WakesSameWork DEF WakeAll
  <2> QED
    BY <1>5, <2>1, SameOwnersKeep DEF WakeAll
<1>6. CASE JoinWorkers
  <2>1. SameWork
    BY <1>6 DEF JoinWorkers, SameWork, Working
  <2> QED
    BY <1>6, <2>1, SameOwnersKeep DEF JoinWorkers
<1>7. CASE DrainQueues
  <2> USE DEF DrainQueues
  <2>1. Busy' = Busy /\ UniqueWork'
    BY <1>7, BusySame DEF OwnInv, OneOwner, Working
  <2>2. InQueue(queueItems)' = {} /\ InQueue(queuePrioItems)' = {}
        /\ Distinct(queueItems)' /\ Distinct(queuePrioItems)'
    BY <1>7 DEF InQueue, Distinct
  <2>3. OneOwner'
    BY <1>7, <2>1, <2>2 DEF OwnInv, OneOwner
  <2>4. Distinct(queueItems) /\ Distinct(queuePrioItems)
        /\ queueItems \in Seq(Conns) /\ queuePrioItems \in Seq(Conns)
    BY DEF OwnInv, OneOwner, TypeOK
  <2>5. \A c \in Conns : freed'[c] = freed[c]
          + (IF c \in InQueue(queueItems) THEN 1 ELSE 0)
          + (IF c \in InQueue(queuePrioItems) THEN 1 ELSE 0)
    BY <1>7, <2>4, QueueCount
  <2>6. Somewhere' = setSockets \cup Busy \cup deferred
    BY <1>7, <2>1, <2>2 DEF Somewhere
  <2>7. ASSUME NEW c \in Conns
        PROVE  IF c \in accepted THEN freed'[c] = (IF c \in Somewhere' THEN 0 ELSE 1)
               ELSE freed'[c] = 0 /\ c \notin Somewhere'
    <3>1. IF c \in accepted THEN freed[c] = (IF c \in Somewhere THEN 0 ELSE 1)
          ELSE freed[c] = 0 /\ c \notin Somewhere
      BY DEF OwnInv, FreedOnce
    <3>2. CASE c \in InQueue(queueItems)
      <4>1. c \notin InQueue(queuePrioItems) /\ c \in Somewhere /\ c \notin Somewhere'
        BY <2>6, <3>2 DEF OwnInv, OneOwner, Somewhere
      <4> QED
        BY <2>5, <3>1, <3>2, <4>1
    <3>3. CASE c \in InQueue(queuePrioItems)
      <4>1. c \notin InQueue(queueItems) /\ c \in Somewhere /\ c \notin Somewhere'
        BY <2>6, <3>3 DEF OwnInv, OneOwner, Somewhere
      <4> QED
        BY <2>5, <3>1, <3>3, <4>1
    <3>4. CASE c \notin InQueue(queueItems) \cup InQueue(queuePrioItems)
      <4>1. c \in Somewhere' <=> c \in Somewhere
        BY <2>6, <3>4 DEF Somewhere
      <4> QED
        BY <2>5, <3>1, <3>4, <4>1
    <3> QED
      BY <3>2, <3>3, <3>4
  <2>8. FreedOnce'
    BY <1>7, <2>7 DEF FreedOnce
  <2> QED
    BY <2>3, <2>8 DEF OwnInv
<1>8. CASE CloseSockets
  <2> USE DEF CloseSockets
  <2>1. Busy' = Busy /\ UniqueWork'
    BY <1>8, BusySame DEF OwnInv, OneOwner, Working
  <2>2. OneOwner'
    BY <1>8, <2>1 DEF OwnInv, OneOwner
  <2>3. FreedOnce'
    BY <1>8, <2>1 DEF OwnInv, OneOwner, FreedOnce, Somewhere
  <2> QED
    BY <2>2, <2>3 DEF OwnInv
<1>9. CASE MainLoopReturned
  <2>1. SameWork
    BY <1>9 DEF MainLoopReturned, SameWork, Working
  <2> QED
    BY <1>9, <2>1, SameOwnersKeep DEF MainLoopReturned
<1>10. CASE DeleteSessionManager
  <2> USE DEF DeleteSessionManager
  <2>1. Busy' = Busy /\ UniqueWork'
    BY <1>10, BusySame DEF OwnInv, OneOwner, Working
  <2>2. OneOwner'
    BY <1>10, <2>1 DEF OwnInv, OneOwner
  <2>3. FreedOnce'
    BY <1>10, <2>1 DEF OwnInv, OneOwner, FreedOnce, Somewhere
  <2> QED
    BY <2>2, <2>3 DEF OwnInv
<1>11. ASSUME NEW c \in Conns, Accept(c) PROVE OwnInv'
  <2> USE DEF Accept, Free
  <2>1. Busy' = Busy /\ UniqueWork' /\ c \notin Somewhere /\ freed[c] = 0
    BY <1>11, BusySame DEF OwnInv, OneOwner, Working, FreedOnce
  <2>2. OneOwner'
    BY <1>11, <2>1 DEF OwnInv, OneOwner, Somewhere
  <2>3. FreedOnce'
    BY <1>11, <2>1 DEF OwnInv, FreedOnce, Somewhere, TypeOK
  <2> QED
    BY <2>2, <2>3 DEF OwnInv
<1>12. ASSUME NEW c \in Conns, IdleTimeout(c) PROVE OwnInv'
  <2>1. SameWork
    BY <1>12 DEF IdleTimeout, SameWork, Working
  <2> QED
    BY <1>12, <2>1, SameOwnersKeep DEF IdleTimeout
<1>13. ASSUME NEW c \in Conns, SocketEvent(c) PROVE OwnInv'
  <2> USE DEF SocketEvent, Free
  <2>1. SameWork
    BY <1>13, SocketEventWakes, WakesSameWork
  <2>2. Busy' = Busy /\ UniqueWork'
    BY <2>1, BusySame DEF SameWork, OwnInv, OneOwner
  <2>3. c \in setSockets /\ c \notin Somewhere \ setSockets
    BY <1>13 DEF OwnInv, OneOwner, Somewhere
  <2>4. CASE Free(c) /\ UNCHANGED <<queueVars, pc>>
    <3>1. OneOwner'
      BY <1>13, <2>2, <2>4 DEF OwnInv, OneOwner
    <3>2. FreedOnce'
      BY <1>13, <2>2, <2>3, <2>4 DEF OwnInv, FreedOnce, OneOwner, Somewhere, TypeOK
    <3> QED
      BY <3>1, <3>2 DEF OwnInv
  <2>5. CASE QueueItem(c) /\ UNCHANGED freed
    <3>1. c \notin InQueue(queueItems) \cup InQueue(queuePrioItems)
      BY <2>3 DEF OwnInv, OneOwner
    <3>2. /\ Distinct(queueItems)' /\ Distinct(queuePrioItems)'
          /\ \/ /\ InQueue(queueItems)' = InQueue(queueItems) \cup {c}
                /\ InQueue(queuePrioItems)' = InQueue(queuePrioItems)
             \/ /\ InQueue(queueItems)' = InQueue(queueItems)
                /\ InQueue(queuePrioItems)' = InQueue(queuePrioItems) \cup {c}
      BY <2>5, <3>1, QueueItemQueues DEF OwnInv
    <3>3. OneOwner'
      BY <1>13, <2>2, <2>3, <3>2 DEF OwnInv, OneOwner
    <3>4. Somewhere' = Somewhere
      BY <1>13, <2>2, <2>3, <3>2 DEF Somewhere
    <3>5. FreedOnce'
      BY <1>13, <2>5, <3>4 DEF OwnInv, FreedOnce
    <3> QED
      BY <3>3, <3>5 DEF OwnInv
  <2> QED
    BY <1>13, <2>4, <2>5
<1>14. ASSUME NEW c \in Conns, ClientSend(c) PROVE OwnInv'
  <2>1. SameWork
    BY <1>14 DEF ClientSend, SameWork, Working
  <2> QED
    BY <1>14, <2>1, SameOwnersKeep DEF ClientSend
<1>15. ASSUME NEW c \in Conns, ClientClose(c) PROVE OwnInv'
  <2>1. SameWork
    BY <1>15 DEF ClientClose, SameWork, Working
  <2> QED
    BY <1>15, <2>1, SameOwnersKeep DEF ClientClose
<1>16. ASSUME NEW n \in HupThreads, Hup(n) PROVE OwnInv'
  <2>1. SameWork
    <3>1. CASE UNCHANGED pc
      BY <1>16, <3>1 DEF Hup, SameWork, Working
    <3>2. CASE StartThreads(n - Cardinality(lstThreads))
      BY <1>16, <3>2, StartsSameWork DEF Hup
    <3> QED
      BY <1>16, <3>1, <3>2 DEF Hup, ManagerSetThreadCount
  <2> QED
    BY <1>16, <2>1, SameOwnersKeep DEF Hup
<1>17. CASE HupBroadcast
  <2>1. SameWork
    BY <1>17, BroadcastWakes, WakesSameWork DEF HupBroadcast
  <2> QED
    BY <1>17, <2>1, SameOwnersKeep DEF HupBroadcast
<1>18. CASE Term
  <2>1. SameWork
    BY <1>18 DEF Term, SameWork, Working
  <2> QED
    BY <1>18, <2>1, SameOwnersKeep DEF Term
<1>19. CASE Quit
  <2>1. SameWork
    BY <1>19 DEF Quit, SameWork, Working
  <2> QED
    BY <1>19, <2>1, SameOwnersKeep DEF Quit
<1>20. ASSUME NEW c \in Conns, ForceAddThread(c) PROVE OwnInv'
  <2>1. SameWork
    BY <1>20, StartsSameWork DEF ForceAddThread
  <2> QED
    BY <1>20, <2>1, SameOwnersKeep DEF ForceAddThread
<1>21. ASSUME NEW t \in Threads, GetNext(t) PROVE OwnInv'
  <2>1. CASE TakeItem(t)
    BY <1>21, <2>1, TakeKeeps DEF GetNext, WorkPc
  <2>2. ASSUME UNCHANGED <<work, queueVars>>,
               Goto(t, "idle") \/ Goto(t, "next") \/ Goto(t, "waiting")
        PROVE  OwnInv'
    <3>1. SameWork
      BY <1>21, <2>2 DEF GetNext, SameWork, Working, TypeOK, Callers
    <3> QED
      BY <1>21, <2>2, <3>1, SameOwnersKeep DEF GetNext
  <2> QED
    BY <1>21, <2>1, <2>2 DEF GetNext
<1>22. ASSUME NEW t \in Threads, NotifyIdle(t) PROVE OwnInv'
  <2>1. SameWork
    BY <1>22 DEF NotifyIdle, SameWork, Working, TypeOK, Callers
  <2> QED
    BY <1>22, <2>1, SameOwnersKeep DEF NotifyIdle
<1>23. ASSUME NEW t \in Threads, GetWait(t) PROVE OwnInv'
  <2>1. CASE TakeItem(t)
    BY <1>23, <2>1, TakeKeeps DEF GetWait, WorkPc
  <2>2. ASSUME UNCHANGED <<work, queueVars>>,
               Goto(t, "idle") \/ Goto(t, "next") \/ Goto(t, "waiting")
        PROVE  OwnInv'
    <3>1. SameWork
      BY <1>23, <2>2 DEF GetWait, SameWork, Working, TypeOK, Callers
    <3> QED
      BY <1>23, <2>2, <3>1, SameOwnersKeep DEF GetWait
  <2> QED
    BY <1>23, <2>1, <2>2 DEF GetWait
<1>24. ASSUME NEW t \in Threads, AfterWait(t) PROVE OwnInv'
  <2>1. CASE TakeItem(t)
    BY <1>24, <2>1, TakeKeeps DEF AfterWait, WorkPc
  <2>2. ASSUME UNCHANGED <<work, queueVars>>,
               Goto(t, "idle") \/ Goto(t, "next") \/ Goto(t, "waiting")
        PROVE  OwnInv'
    <3>1. SameWork
      BY <1>24, <2>2 DEF AfterWait, SameWork, Working, TypeOK, Callers
    <3> QED
      BY <1>24, <2>2, <3>1, SameOwnersKeep DEF AfterWait
  <2> QED
    BY <1>24, <2>1, <2>2 DEF AfterWait
<1>25. ASSUME NEW t \in Threads, SpuriousWakeup(t) PROVE OwnInv'
  <2>1. SameWork
    BY <1>25 DEF SpuriousWakeup, SameWork, Working, TypeOK, Callers
  <2> QED
    BY <1>25, <2>1, SameOwnersKeep DEF SpuriousWakeup
<1>26. ASSUME NEW t \in Threads, Serve(t) PROVE OwnInv'
  <2>1. SameWork
    BY <1>26 DEF Serve, SameWork, Working, TypeOK, Callers
  <2> QED
    BY <1>26, <2>1, SameOwnersKeep DEF Serve
<1>27. ASSUME NEW t \in Threads, Defer(t) PROVE OwnInv'
  <2> DEFINE c == work[t]
  <2> USE DEF Defer
  <2>1. t \in Callers /\ t \in Working /\ t \notin Working' /\ c \in Busy /\ c \in Conns
    BY <1>27 DEF Working, Busy, WorkInv, WorkPc, TypeOK, Callers
  <2>2. \A u \in Callers : u # t => (u \in Working <=> u \in Working') /\
                                    (u \in Working => work'[u] = work[u])
    BY <1>27 DEF Working, TypeOK
  <2>3. Busy' = Busy \ {c} /\ UniqueWork'
    BY <2>1, <2>2, BusyLeave DEF OwnInv, OneOwner
  <2>4. OneOwner'
    BY <1>27, <2>1, <2>3 DEF OwnInv, OneOwner
  <2>5. FreedOnce'
    BY <1>27, <2>1, <2>3 DEF OwnInv, OneOwner, FreedOnce, Somewhere, TypeOK
  <2> QED
    BY <2>4, <2>5 DEF OwnInv
<1>28. ASSUME NEW t \in Callers, NotifyDoneFree(t) PROVE OwnInv'
  <2> DEFINE c == work[t]
  <2> USE DEF NotifyDoneFree, AfterDone, Free
  <2>1. t \in Callers /\ t \in Working /\ t \notin Working' /\ c \in Busy /\ c \in Conns
    BY <1>28 DEF Working, Busy, WorkInv, WorkPc, TypeOK, Callers
  <2>2. \A u \in Callers : u # t => (u \in Working <=> u \in Working') /\
                                    (u \in Working => work'[u] = work[u])
    BY <1>28 DEF Working, TypeOK
  <2>3. Busy' = Busy \ {c} /\ UniqueWork'
    BY <2>1, <2>2, BusyLeave DEF OwnInv, OneOwner
  <2>4. OneOwner'
    BY <1>28, <2>1, <2>3 DEF OwnInv, OneOwner
  <2>5. FreedOnce'
    BY <1>28, <2>1, <2>3 DEF OwnInv, OneOwner, FreedOnce, Somewhere, TypeOK
  <2> QED
    BY <2>4, <2>5 DEF OwnInv
<1>29. ASSUME NEW t \in Callers, NotifyDoneKeep(t) PROVE OwnInv'
  <2>1. SameWork
    BY <1>29 DEF NotifyDoneKeep, SameWork, Working, TypeOK, Callers
  <2> QED
    BY <1>29, <2>1, SameOwnersKeep DEF NotifyDoneKeep
<1>30. ASSUME NEW t \in Callers, InsertSocket(t) PROVE OwnInv'
  <2> DEFINE c == work[t]
  <2> USE DEF InsertSocket
  <2>1. t \in Callers /\ t \in Working /\ t \notin Working' /\ c \in Busy /\ c \in Conns
    BY <1>30 DEF Working, Busy, WorkInv, WorkPc, TypeOK, Callers
  <2>2. \A u \in Callers : u # t => (u \in Working <=> u \in Working') /\
                                    (u \in Working => work'[u] = work[u])
    BY <1>30 DEF Working, TypeOK
  <2>3. Busy' = Busy \ {c} /\ UniqueWork'
    BY <2>1, <2>2, BusyLeave DEF OwnInv, OneOwner
  <2>4. OneOwner'
    BY <1>30, <2>1, <2>3 DEF OwnInv, OneOwner
  <2>5. FreedOnce'
    BY <1>30, <2>1, <2>3 DEF OwnInv, OneOwner, FreedOnce, Somewhere, TypeOK
  <2> QED
    BY <2>4, <2>5 DEF OwnInv
<1>31. ASSUME NEW t \in Callers, NotifyRestart(t) PROVE OwnInv'
  <2> USE DEF NotifyRestart
  <2>1. SameWork
    BY <1>31 DEF SameWork, Working, TypeOK, AfterDone
  <2>2. Busy' = Busy /\ UniqueWork'
    BY <2>1, BusySame DEF SameWork, OwnInv, OneOwner
  <2>3. OneOwner'
    BY <1>31, <2>2 DEF OwnInv, OneOwner
  <2>4. FreedOnce'
    BY <1>31, <2>2 DEF OwnInv, FreedOnce, Somewhere
  <2> QED
    BY <2>3, <2>4 DEF OwnInv
<1>32. ASSUME NEW t \in Callers, NotifyDoneDangling(t) PROVE OwnInv'
  <2>1. SameWork
    BY <1>32 DEF NotifyDoneDangling, SameWork, Working
  <2> QED
    BY <1>32, <2>1, SameOwnersKeep DEF NotifyDoneDangling
<1>33. ASSUME NEW c \in Conns, NotifierReply(c) PROVE OwnInv'
  <2> USE DEF NotifierReply
  <2>1. /\ Notifier \in Callers /\ Notifier \notin Working /\ Notifier \in Working'
        /\ work'[Notifier] = c /\ c \notin Busy /\ c \in deferred
    BY <1>33 DEF Working, TypeOK, Callers, OwnInv, OneOwner
  <2>2. \A u \in Callers : u # Notifier => (u \in Working <=> u \in Working') /\
                                           (u \in Working => work'[u] = work[u])
    BY <1>33 DEF Working, TypeOK
  <2>3. Busy' = Busy \cup {c} /\ UniqueWork'
    BY <2>1, <2>2, BusyEnter DEF OwnInv, OneOwner
  <2>4. OneOwner'
    BY <1>33, <2>1, <2>3 DEF OwnInv, OneOwner
  <2>5. FreedOnce'
    BY <1>33, <2>1, <2>3 DEF OwnInv, FreedOnce, Somewhere
  <2> QED
    BY <2>4, <2>5 DEF OwnInv
<1>34. CASE UNCHANGED vars
  <2>1. SameWork
    BY <1>34 DEF vars, SameWork, Working
  <2> QED
    BY <1>34, <2>1, SameOwnersKeep DEF vars
<1>35. ASSUME NEW t \in Threads, NEW d \in Conns, Replace(t, d) PROVE OwnInv'
  <2> DEFINE c == work[t]
  <2> USE DEF Replace
  <2>1. /\ t \in Callers /\ t \in Working /\ t \in Working' /\ c \in Busy /\ c \in Conns
        /\ work'[t] = d /\ d \notin Busy /\ c # d
    BY <1>35 DEF Working, Busy, WorkInv, WorkPc, TypeOK, Callers, OwnInv, OneOwner
  <2>2. \A u \in Callers : u # t => (u \in Working <=> u \in Working') /\
                                    (u \in Working => work'[u] = work[u])
    BY <1>35 DEF Working, TypeOK
  <2>3. Busy' = (Busy \ {c}) \cup {d} /\ UniqueWork'
    BY <2>1, <2>2, BusyChange DEF OwnInv, OneOwner
  <2>4. OneOwner'
    BY <1>35, <2>1, <2>3 DEF OwnInv, OneOwner
  <2>5. FreedOnce'
    BY <1>35, <2>1, <2>3 DEF OwnInv, OneOwner, FreedOnce, Somewhere
  <2> QED
    BY <2>4, <2>5 DEF OwnInv
<1> QED
  BY <1>1, <1>2, <1>3, <1>4, <1>5, <1>6, <1>7, <1>8, <1>9, <1>10, <1>11,
     <1>12, <1>13, <1>14, <1>15, <1>16, <1>17, <1>18, <1>19, <1>20, <1>21,
     <1>22, <1>23, <1>24, <1>25, <1>26, <1>27, <1>28, <1>29, <1>30, <1>31,
     <1>32, <1>33, <1>34, <1>35
     DEF Next, MainThread, WorkerStep, NotifyDone, Terminated

-----------------------------------------------------------------------------
(* Keep-alive: the count of requests left on a connection.                   *)

KeepInv ==
  /\ \A c \in Conns : freed[c] = 0 => keep[c] >= 0
  /\ \A t \in Callers : pc[t] = "notifyDone" /\ open[work[t]] => keep[work[t]] > 0

(* The connection a thread works on has been accepted and not freed.         *)
LEMMA WorkIsUnfreed ==
  ASSUME CInv, OwnInv, NEW t \in Callers, t \in Working
  PROVE  work[t] \in Conns /\ work[t] \in accepted /\ freed[work[t]] = 0
<1>1. work[t] \in Conns /\ work[t] \in Busy
  BY DEF CInv, WorkInv, WorkPc, Working, Busy
<1> QED
  BY <1>1 DEF OwnInv, FreedOnce, Somewhere

(* A step that answers no request keeps the counts. *)
LEMMA SameKeepKeeps ==
  ASSUME KeepInv, UNCHANGED keep, \A c \in Conns : freed'[c] = 0 => freed[c] = 0,
         \A t \in Callers : pc'[t] = "notifyDone" =>
           pc[t] = "notifyDone" /\ work'[t] = work[t] /\ open'[work[t]] = open[work[t]]
  PROVE  KeepInv'
  BY DEF KeepInv

(* Nothing is freed that is not freed afterwards. *)
LEMMA FreedStays ==
  ASSUME TypeOK, NEW c \in Conns, freed' = [freed EXCEPT ![c] = @ + 1], NEW d \in Conns
  PROVE  freed'[d] = 0 => freed[d] = 0
  BY DEF TypeOK

(* The keep-alive invariant is inductive, given types, control and ownership. *)
LEMMA KeepNext == TypeOK /\ CInv /\ OwnInv /\ KeepInv /\ [Next]_vars => KeepInv'
<1> SUFFICES ASSUME TypeOK, CInv, OwnInv, KeepInv, [Next]_vars PROVE KeepInv'
  OBVIOUS
<1> USE DispatcherAssumption DEF Goto, serverVars, poolVars, queueVars, connVars
<1>1. CASE MainStart
  BY <1>1, SameKeepKeeps DEF MainStart, TypeOK
<1>2. CASE LoopExit
  BY <1>2, SameKeepKeeps DEF LoopExit
<1>3. CASE DeleteWatchDog
  BY <1>3, SameKeepKeeps DEF DeleteWatchDog
<1>4. CASE SetCountZero
  BY <1>4, SameKeepKeeps, SetCountZeroStarts DEF SetCountZero
<1>5. CASE WakeAll
  BY <1>5, SameKeepKeeps, BroadcastWakes DEF WakeAll, Wakes
<1>6. CASE JoinWorkers
  BY <1>6, SameKeepKeeps DEF JoinWorkers
<1>7. CASE DrainQueues
  <2>1. ASSUME NEW d \in Conns, freed'[d] = 0 PROVE freed[d] = 0
    <3>1. queueItems \in Seq(Conns) /\ queuePrioItems \in Seq(Conns) /\ freed[d] \in Nat
          /\ Distinct(queueItems) /\ Distinct(queuePrioItems)
      BY DEF TypeOK, OwnInv, OneOwner
    <3>2. Cardinality({i \in 1..Len(queueItems) : queueItems[i] = d}) \in Nat
          /\ Cardinality({i \in 1..Len(queuePrioItems) : queuePrioItems[i] = d}) \in Nat
      BY <3>1, QueueCount
    <3> QED
      BY <1>7, <2>1, <3>1, <3>2 DEF DrainQueues
  <2> QED
    BY <1>7, <2>1, SameKeepKeeps DEF DrainQueues
<1>8. CASE CloseSockets
  BY <1>8, SameKeepKeeps DEF CloseSockets, TypeOK
<1>9. CASE MainLoopReturned
  BY <1>9, SameKeepKeeps DEF MainLoopReturned
<1>10. CASE DeleteSessionManager
  BY <1>10, SameKeepKeeps DEF DeleteSessionManager, TypeOK
<1>11. ASSUME NEW c \in Conns, Accept(c) PROVE KeepInv'
  <2>1. \A t \in Callers : pc[t] = "notifyDone" => work[t] \in Conns /\ work[t] # c
    BY <1>11, WorkIsUnfreed DEF Accept, Working
  <2>2. \A t \in Callers : pc[t] = "notifyDone" => open'[work[t]] = open[work[t]]
    BY <1>11, <2>1 DEF Accept, TypeOK
  <2>3. \A d \in Conns : freed'[d] = 0 => freed[d] = 0
    BY <1>11, FreedStays DEF Accept, Free
  <2> QED
    BY <1>11, <2>2, <2>3, SameKeepKeeps DEF Accept
<1>12. ASSUME NEW c \in Conns, IdleTimeout(c) PROVE KeepInv'
  BY <1>12, SameKeepKeeps DEF IdleTimeout
<1>13. ASSUME NEW c \in Conns, SocketEvent(c) PROVE KeepInv'
  <2>1. \A d \in Conns : freed'[d] = 0 => freed[d] = 0
    BY <1>13, FreedStays DEF SocketEvent, Free
  <2> QED
    BY <1>13, <2>1, SocketEventWakes, SameKeepKeeps DEF SocketEvent, Wakes
<1>14. ASSUME NEW c \in Conns, ClientSend(c) PROVE KeepInv'
  BY <1>14, SameKeepKeeps DEF ClientSend
<1>15. ASSUME NEW c \in Conns, ClientClose(c) PROVE KeepInv'
  BY <1>15, SameKeepKeeps DEF ClientClose
<1>16. ASSUME NEW n \in HupThreads, Hup(n) PROVE KeepInv'
  <2>1. \A t \in Callers : pc'[t] \in {pc[t], "next"}
    BY <1>16, StartThreadsStarts DEF Hup, ManagerSetThreadCount
  <2> QED
    BY <1>16, <2>1, SameKeepKeeps DEF Hup
<1>17. CASE HupBroadcast
  BY <1>17, SameKeepKeeps, BroadcastWakes DEF HupBroadcast, Wakes
<1>18. CASE Term
  BY <1>18, SameKeepKeeps DEF Term
<1>19. CASE Quit
  BY <1>19, SameKeepKeeps DEF Quit
<1>20. ASSUME NEW c \in Conns, ForceAddThread(c) PROVE KeepInv'
  <2>1. \A t \in Callers : pc'[t] \in {pc[t], "next"}
    BY <1>20, StartThreadsStarts DEF ForceAddThread
  <2> QED
    BY <1>20, <2>1, SameKeepKeeps DEF ForceAddThread
<1>21. ASSUME NEW t \in Threads, GetNext(t) PROVE KeepInv'
  <2>1. \A u \in Callers : pc'[u] = "notifyDone" => pc[u] = "notifyDone" /\ work'[u] = work[u]
    <3>1. CASE TakeItem(t)
      BY <1>21, <3>1, TakeItemTakes DEF GetNext, TypeOK
    <3>2. ASSUME UNCHANGED <<work, queueVars>>,
                 Goto(t, "idle") \/ Goto(t, "next") \/ Goto(t, "waiting")
          PROVE  \A u \in Callers :
                   pc'[u] = "notifyDone" => pc[u] = "notifyDone" /\ work'[u] = work[u]
      BY <3>2 DEF TypeOK
    <3> QED
      BY <1>21, <3>1, <3>2 DEF GetNext
  <2> QED
    BY <1>21, <2>1, SameKeepKeeps DEF GetNext
<1>22. ASSUME NEW t \in Threads, NotifyIdle(t) PROVE KeepInv'
  BY <1>22, SameKeepKeeps DEF NotifyIdle, TypeOK
<1>23. ASSUME NEW t \in Threads, GetWait(t) PROVE KeepInv'
  <2>1. \A u \in Callers : pc'[u] = "notifyDone" => pc[u] = "notifyDone" /\ work'[u] = work[u]
    <3>1. CASE TakeItem(t)
      BY <1>23, <3>1, TakeItemTakes DEF GetWait, TypeOK
    <3>2. ASSUME UNCHANGED <<work, queueVars>>,
                 Goto(t, "idle") \/ Goto(t, "next") \/ Goto(t, "waiting")
          PROVE  \A u \in Callers :
                   pc'[u] = "notifyDone" => pc[u] = "notifyDone" /\ work'[u] = work[u]
      BY <3>2 DEF TypeOK
    <3> QED
      BY <1>23, <3>1, <3>2 DEF GetWait
  <2> QED
    BY <1>23, <2>1, SameKeepKeeps DEF GetWait
<1>24. ASSUME NEW t \in Threads, AfterWait(t) PROVE KeepInv'
  <2>1. \A u \in Callers : pc'[u] = "notifyDone" => pc[u] = "notifyDone" /\ work'[u] = work[u]
    <3>1. CASE TakeItem(t)
      BY <1>24, <3>1, TakeItemTakes DEF AfterWait, TypeOK
    <3>2. ASSUME UNCHANGED <<work, queueVars>>,
                 Goto(t, "idle") \/ Goto(t, "next") \/ Goto(t, "waiting")
          PROVE  \A u \in Callers :
                   pc'[u] = "notifyDone" => pc[u] = "notifyDone" /\ work'[u] = work[u]
      BY <3>2 DEF TypeOK
    <3> QED
      BY <1>24, <3>1, <3>2 DEF AfterWait
  <2> QED
    BY <1>24, <2>1, SameKeepKeeps DEF AfterWait
<1>25. ASSUME NEW t \in Threads, SpuriousWakeup(t) PROVE KeepInv'
  BY <1>25, SameKeepKeeps DEF SpuriousWakeup, TypeOK
<1>26. ASSUME NEW t \in Threads, Serve(t) PROVE KeepInv'
  <2> DEFINE c == work[t]
  <2>1. t \in Callers /\ c \in Conns /\ t \in Working
    BY <1>26 DEF Serve, Working, CInv, WorkInv, WorkPc, Callers
  <2>2. \A u \in Callers : u # t /\ pc[u] = "notifyDone" => work[u] # c
    BY <2>1 DEF OwnInv, OneOwner, UniqueWork, Working
  <2>3. open'[c] => (open[c] /\ keep[c] > 0) \/ open'[c] = FALSE
    BY <1>26, <2>1 DEF Serve, TypeOK
  <2>4. \A u \in Callers : pc'[u] = "notifyDone" => u = t \/ pc[u] = "notifyDone"
    BY <1>26 DEF Serve, TypeOK
  <2>5. \A d \in Conns : d # c => open'[d] = open[d]
    BY <1>26 DEF Serve, TypeOK
  <2>6. \A u \in Callers : pc[u] = "notifyDone" => work[u] \in Conns
    BY DEF CInv, WorkInv, WorkPc
  <2> QED
    BY <1>26, <2>2, <2>3, <2>4, <2>5, <2>6 DEF Serve, KeepInv
<1>27. ASSUME NEW t \in Threads, Defer(t) PROVE KeepInv'
  BY <1>27, SameKeepKeeps DEF Defer, TypeOK
<1>28. ASSUME NEW t \in Callers, NotifyDoneFree(t) PROVE KeepInv'
  <2> DEFINE c == work[t]
  <2>1. c \in Conns /\ freed[c] = 0 /\ t \in Working
    BY <1>28, WorkIsUnfreed DEF NotifyDoneFree, Working
  <2>2. /\ freed'[c] = 1
        /\ \A d \in Conns : d # c => freed'[d] = freed[d] /\ keep'[d] = keep[d]
    BY <1>28, <2>1 DEF NotifyDoneFree, Free, TypeOK
  <2>3. \A u \in Callers : pc'[u] = "notifyDone" =>
          u # t /\ pc[u] = "notifyDone" /\ work'[u] = work[u]
    BY <1>28 DEF NotifyDoneFree, TypeOK, AfterDone
  <2>4. \A u \in Callers : u # t /\ pc[u] = "notifyDone" => work[u] \in Conns /\ work[u] # c
    BY <2>1 DEF OwnInv, OneOwner, UniqueWork, Working, CInv, WorkInv, WorkPc
  <2> QED
    BY <1>28, <2>2, <2>3, <2>4 DEF NotifyDoneFree, KeepInv
<1>29. ASSUME NEW t \in Callers, NotifyDoneKeep(t) PROVE KeepInv'
  <2> DEFINE c == work[t]
  <2>1. c \in Conns /\ t \in Working /\ keep[c] \in Int /\ keep[c] > 0
    BY <1>29, WorkIsUnfreed DEF NotifyDoneKeep, Working, KeepInv, TypeOK
  <2>2. /\ keep'[c] = keep[c] - 1 /\ \A d \in Conns : d # c => keep'[d] = keep[d]
    BY <1>29, <2>1 DEF NotifyDoneKeep, TypeOK
  <2>3. \A u \in Callers : pc'[u] = "notifyDone" => u # t /\ pc[u] = "notifyDone"
    BY <1>29 DEF NotifyDoneKeep, TypeOK
  <2>4. \A u \in Callers : u # t /\ pc[u] = "notifyDone" => work[u] \in Conns /\ work[u] # c
    BY <2>1 DEF OwnInv, OneOwner, UniqueWork, Working, CInv, WorkInv, WorkPc
  <2> QED
    BY <1>29, <2>1, <2>2, <2>3, <2>4 DEF NotifyDoneKeep, KeepInv
<1>30. ASSUME NEW t \in Callers, InsertSocket(t) PROVE KeepInv'
  BY <1>30, SameKeepKeeps DEF InsertSocket, TypeOK
<1>31. ASSUME NEW t \in Callers, NotifyRestart(t) PROVE KeepInv'
  BY <1>31, SameKeepKeeps DEF NotifyRestart, TypeOK, AfterDone
<1>32. ASSUME NEW t \in Callers, NotifyDoneDangling(t) PROVE KeepInv'
  BY <1>32, SameKeepKeeps DEF NotifyDoneDangling
<1>33. ASSUME NEW c \in Conns, NotifierReply(c) PROVE KeepInv'
  <2>1. \A u \in Callers : u # Notifier /\ pc[u] = "notifyDone" =>
          work[u] \in Conns /\ work[u] # c
    BY <1>33 DEF NotifierReply, OwnInv, OneOwner, Busy, Working, CInv, WorkInv, WorkPc
  <2>2. \A u \in Callers : u # Notifier /\ pc'[u] = "notifyDone" =>
          pc[u] = "notifyDone" /\ work'[u] = work[u] /\ open'[work[u]] = open[work[u]]
    BY <1>33, <2>1 DEF NotifierReply, TypeOK
  <2>3. Notifier \in Callers /\ work'[Notifier] = c
    BY <1>33 DEF NotifierReply, TypeOK, Callers
  <2>4. open'[c] => keep[c] > 0
    BY <1>33 DEF NotifierReply, TypeOK
  <2> QED
    BY <1>33, <2>2, <2>3, <2>4 DEF NotifierReply, KeepInv
<1>34. CASE UNCHANGED vars
  BY <1>34, SameKeepKeeps DEF vars
<1>35. ASSUME NEW t \in Threads, NEW d \in Conns, Replace(t, d) PROVE KeepInv'
  <2>1. \A u \in Callers : u # t /\ pc[u] = "notifyDone" =>
          work[u] \in Conns /\ work[u] # d
    BY <1>35 DEF Replace, OwnInv, OneOwner, Busy, Working, CInv, WorkInv, WorkPc
  <2>2. \A u \in Callers : u # t /\ pc'[u] = "notifyDone" =>
          pc[u] = "notifyDone" /\ work'[u] = work[u] /\ open'[work[u]] = open[work[u]]
    BY <1>35, <2>1 DEF Replace, TypeOK
  <2>3. t \in Callers /\ work'[t] = d
    BY <1>35 DEF Replace, TypeOK, Callers
  <2>4. open'[d] => keep[d] > 0
    BY <1>35 DEF Replace, TypeOK
  <2> QED
    BY <1>35, <2>2, <2>3, <2>4 DEF Replace, KeepInv
<1> QED
  BY <1>1, <1>2, <1>3, <1>4, <1>5, <1>6, <1>7, <1>8, <1>9, <1>10, <1>11,
     <1>12, <1>13, <1>14, <1>15, <1>16, <1>17, <1>18, <1>19, <1>20, <1>21,
     <1>22, <1>23, <1>24, <1>25, <1>26, <1>27, <1>28, <1>29, <1>30, <1>31,
     <1>32, <1>33, <1>34, <1>35
     DEF Next, MainThread, WorkerStep, NotifyDone, Terminated

(* How often a connection is queued is a number. *)
LEMMA CountType ==
  ASSUME TypeOK
  PROVE  \A d \in Conns :
           /\ Cardinality({i \in 1..Len(queueItems) : queueItems[i] = d}) \in Nat
           /\ Cardinality({i \in 1..Len(queuePrioItems) : queuePrioItems[i] = d}) \in Nat
<1> SUFFICES ASSUME NEW q \in Seq(Conns), NEW d \in Conns
             PROVE  Cardinality({i \in 1..Len(q) : q[i] = d}) \in Nat
  BY DEF TypeOK
<1>1. 1 \in Int /\ Len(q) \in Int
  OBVIOUS
<1>2. IsFiniteSet(1..Len(q))
  BY <1>1, FS_Interval
<1> QED
  BY <1>2, FS_Subset, FS_CardinalityType

-----------------------------------------------------------------------------
(* Types. *)

(* Freeing a connection counts. *)
LEMMA FreeType ==
  ASSUME TypeOK, NEW c \in Conns, Free(c)
  PROVE  freed' \in [Conns -> Nat]
  BY DEF TypeOK, Free

(* Queueing keeps the queues what they are. *)
LEMMA QueueItemType ==
  ASSUME TypeOK, NEW c \in Conns, QueueItem(c)
  PROVE  queueItems' \in Seq(Conns) /\ queuePrioItems' \in Seq(Conns)
<1>1. CASE queueItems' = Append(queueItems, c) /\ UNCHANGED queuePrioItems
  BY <1>1, QueueAppend DEF TypeOK
<1>2. CASE queuePrioItems' = Append(queuePrioItems, c) /\ UNCHANGED queueItems
  BY <1>2, QueueAppend DEF TypeOK
<1> QED
  BY <1>1, <1>2 DEF QueueItem

(* Every step keeps the types; that no count of keep-alive requests falls    *)
(* below -1 rests on the other invariants.                                   *)
LEMMA TypeNext == TypeOK /\ CInv /\ OwnInv /\ KeepInv /\ [Next]_vars => TypeOK'
<1> SUFFICES ASSUME TypeOK, CInv, OwnInv, KeepInv, [Next]_vars PROVE TypeOK'
  OBVIOUS
<1> USE DispatcherAssumption DEF TypeOK, CallerPc, MainPc, Goto, serverVars, poolVars,
       queueVars, connVars
<1> /\ Prio \in Callers /\ Notifier \in Callers
    /\ Workers \subseteq Callers /\ Threads \subseteq Callers
  BY DEF Callers, Threads
<1>1. CASE MainStart
  BY <1>1 DEF MainStart
<1>2. CASE LoopExit
  BY <1>2 DEF LoopExit
<1>3. CASE DeleteWatchDog
  BY <1>3 DEF DeleteWatchDog
<1>4. CASE SetCountZero
  <2>1. 0 \in 0..Cardinality(Workers)
    BY FS_CardinalityType
  <2> QED
    BY <1>4, <2>1, SetCountZeroStarts DEF SetCountZero, ManagerSetThreadCount
<1>5. CASE WakeAll
  BY <1>5, BroadcastWakes DEF WakeAll, Wakes
<1>6. CASE JoinWorkers
  BY <1>6 DEF JoinWorkers
<1>7. CASE DrainQueues
  <2>1. \A d \in Conns :
          Cardinality({i \in 1..Len(queueItems) : queueItems[i] = d}) \in Nat
          /\ Cardinality({i \in 1..Len(queuePrioItems) : queuePrioItems[i] = d}) \in Nat
    BY CountType
  <2>2. freed' \in [Conns -> Nat]
    <3>1. freed \in [Conns -> Nat]
      OBVIOUS
    <3> HIDE DEF TypeOK
    <3> QED
      BY <1>7, <2>1, <3>1 DEF DrainQueues
  <2>3. queueItems' \in Seq(Conns) /\ queuePrioItems' \in Seq(Conns) /\ main' \in MainPc
    BY <1>7 DEF DrainQueues
  <2> QED
    BY <1>7, <2>2, <2>3 DEF DrainQueues
<1>8. CASE CloseSockets
  BY <1>8 DEF CloseSockets
<1>9. CASE MainLoopReturned
  BY <1>9 DEF MainLoopReturned
<1>10. CASE DeleteSessionManager
  BY <1>10 DEF DeleteSessionManager
<1>11. ASSUME NEW c \in Conns, Accept(c) PROVE TypeOK'
  <2>1. freed' \in [Conns -> Nat]
    BY <1>11, FreeType DEF Accept
  <2>2. open' \in [Conns -> BOOLEAN] /\ setSockets' \subseteq Conns /\ epFD' \subseteq Conns
    BY <1>11 DEF Accept
  <2> QED
    BY <1>11, <2>1, <2>2 DEF Accept
<1>12. ASSUME NEW c \in Conns, IdleTimeout(c) PROVE TypeOK'
  BY <1>12 DEF IdleTimeout
<1>13. ASSUME NEW c \in Conns, SocketEvent(c) PROVE TypeOK'
  <2>1. queueItems' \in Seq(Conns) /\ queuePrioItems' \in Seq(Conns)
    BY <1>13, QueueItemType DEF SocketEvent
  <2>2. pc' \in [Callers -> CallerPc]
    BY <1>13, SocketEventWakes DEF Wakes
  <2>3. freed' \in [Conns -> Nat]
    BY <1>13, FreeType DEF SocketEvent
  <2> QED
    BY <1>13, <2>1, <2>2, <2>3 DEF SocketEvent
<1>14. ASSUME NEW c \in Conns, ClientSend(c) PROVE TypeOK'
  BY <1>14 DEF ClientSend
<1>15. ASSUME NEW c \in Conns, ClientClose(c) PROVE TypeOK'
  BY <1>15 DEF ClientClose
<1>16. ASSUME NEW n \in HupThreads, Hup(n) PROVE TypeOK'
  <2>1. lstThreads' \subseteq Workers /\ pc' \in [Callers -> CallerPc]
    BY <1>16, StartThreadsStarts DEF Hup, ManagerSetThreadCount
  <2>2. ulThreads' \in 0..Cardinality(Workers)
    BY <1>16 DEF Hup, ManagerSetThreadCount
  <2>3. hups' \in 0..MaxHup
    BY <1>16 DEF Hup
  <2>4. sig' \in {"wait", "hup"}
    BY <1>16 DEF Hup
  <2>5. astray' \in BOOLEAN
    BY <1>16 DEF Hup
  <2>6. UNCHANGED <<main, bExit, watchdog, work, queueVars, setSockets, epFD,
                    deferred, connVars>>
    BY <1>16 DEF Hup
  <2> QED
    BY <2>1, <2>2, <2>3, <2>4, <2>5, <2>6
<1>17. CASE HupBroadcast
  BY <1>17, BroadcastWakes DEF HupBroadcast, Wakes
<1>18. CASE Term
  BY <1>18 DEF Term
<1>19. CASE Quit
  BY <1>19 DEF Quit
<1>20. ASSUME NEW c \in Conns, ForceAddThread(c) PROVE TypeOK'
  BY <1>20, StartThreadsStarts DEF ForceAddThread
<1>21. ASSUME NEW t \in Threads, GetNext(t) PROVE TypeOK'
  <2>1. CASE TakeItem(t)
    <3>1. pc' \in [Callers -> CallerPc] /\ work' \in [Callers -> Conns \cup {None}]
          /\ queueItems' \in Seq(Conns) /\ queuePrioItems' \in Seq(Conns)
      BY <2>1, TakeItemTakes
    <3> QED
      BY <1>21, <3>1 DEF GetNext
  <2>2. ASSUME UNCHANGED <<work, queueVars>>,
               Goto(t, "idle") \/ Goto(t, "next") \/ Goto(t, "waiting")
        PROVE  TypeOK'
    BY <1>21, <2>2 DEF GetNext
  <2> QED
    BY <1>21, <2>1, <2>2 DEF GetNext
<1>22. ASSUME NEW t \in Threads, NotifyIdle(t) PROVE TypeOK'
  BY <1>22 DEF NotifyIdle
<1>23. ASSUME NEW t \in Threads, GetWait(t) PROVE TypeOK'
  <2>1. CASE TakeItem(t)
    <3>1. pc' \in [Callers -> CallerPc] /\ work' \in [Callers -> Conns \cup {None}]
          /\ queueItems' \in Seq(Conns) /\ queuePrioItems' \in Seq(Conns)
      BY <2>1, TakeItemTakes
    <3> QED
      BY <1>23, <3>1 DEF GetWait
  <2>2. ASSUME UNCHANGED <<work, queueVars>>,
               Goto(t, "idle") \/ Goto(t, "next") \/ Goto(t, "waiting")
        PROVE  TypeOK'
    BY <1>23, <2>2 DEF GetWait
  <2> QED
    BY <1>23, <2>1, <2>2 DEF GetWait
<1>24. ASSUME NEW t \in Threads, AfterWait(t) PROVE TypeOK'
  <2>1. CASE TakeItem(t)
    <3>1. pc' \in [Callers -> CallerPc] /\ work' \in [Callers -> Conns \cup {None}]
          /\ queueItems' \in Seq(Conns) /\ queuePrioItems' \in Seq(Conns)
      BY <2>1, TakeItemTakes
    <3> QED
      BY <1>24, <3>1 DEF AfterWait
  <2>2. ASSUME UNCHANGED <<work, queueVars>>,
               Goto(t, "idle") \/ Goto(t, "next") \/ Goto(t, "waiting")
        PROVE  TypeOK'
    BY <1>24, <2>2 DEF AfterWait
  <2> QED
    BY <1>24, <2>1, <2>2 DEF AfterWait
<1>25. ASSUME NEW t \in Threads, SpuriousWakeup(t) PROVE TypeOK'
  BY <1>25 DEF SpuriousWakeup
<1>26. ASSUME NEW t \in Threads, Serve(t) PROVE TypeOK'
  BY <1>26 DEF Serve, CInv, WorkInv, WorkPc
<1>27. ASSUME NEW t \in Threads, Defer(t) PROVE TypeOK'
  BY <1>27 DEF Defer, CInv, WorkInv, WorkPc
<1>28. ASSUME NEW t \in Callers, NotifyDoneFree(t) PROVE TypeOK'
  <2> DEFINE c == work[t]
  <2>1. c \in Conns /\ freed[c] = 0
    BY <1>28, WorkIsUnfreed DEF NotifyDoneFree, Working
  <2>2. keep[c] - 1 \in -1..MaxKeepAlive
    BY <2>1 DEF KeepInv
  <2>3. keep' \in [Conns -> -1..MaxKeepAlive]
    <3>1. CASE UNCHANGED keep
      BY <3>1
    <3>2. CASE keep' = [keep EXCEPT ![c] = keep[c] - 1]
      BY <2>2, <3>2
    <3> QED
      BY <1>28, <3>1, <3>2 DEF NotifyDoneFree
  <2>4. freed' \in [Conns -> Nat]
    BY <1>28, <2>1, FreeType DEF NotifyDoneFree
  <2>5. pc' \in [Callers -> CallerPc] /\ work' \in [Callers -> Conns \cup {None}]
    BY <1>28 DEF NotifyDoneFree, AfterDone
  <2>6. UNCHANGED <<serverVars, poolVars, queueVars, setSockets, epFD, deferred,
                    astray, accepted, open, input>>
    BY <1>28 DEF NotifyDoneFree
  <2> QED
    BY <2>3, <2>4, <2>5, <2>6
<1>29. ASSUME NEW t \in Callers, NotifyDoneKeep(t) PROVE TypeOK'
  <2> DEFINE c == work[t]
  <2>1. c \in Conns /\ freed[c] = 0
    BY <1>29, WorkIsUnfreed DEF NotifyDoneKeep, Working
  <2>2. keep' \in [Conns -> -1..MaxKeepAlive]
    BY <1>29, <2>1 DEF NotifyDoneKeep, KeepInv
  <2> QED
    BY <1>29, <2>2 DEF NotifyDoneKeep
<1>30. ASSUME NEW t \in Callers, InsertSocket(t) PROVE TypeOK'
  BY <1>30 DEF InsertSocket, CInv, WorkInv, WorkPc
<1>31. ASSUME NEW t \in Callers, NotifyRestart(t) PROVE TypeOK'
  BY <1>31 DEF NotifyRestart, AfterDone
<1>32. ASSUME NEW t \in Callers, NotifyDoneDangling(t) PROVE TypeOK'
  BY <1>32 DEF NotifyDoneDangling
<1>33. ASSUME NEW c \in Conns, NotifierReply(c) PROVE TypeOK'
  BY <1>33 DEF NotifierReply
<1>34. CASE UNCHANGED vars
  BY <1>34 DEF vars
<1>35. ASSUME NEW t \in Threads, NEW d \in Conns, Replace(t, d) PROVE TypeOK'
  <2>1. pc' \in [Callers -> CallerPc] /\ work' \in [Callers -> Conns \cup {None}]
    BY <1>35 DEF Replace
  <2>2. open' \in [Conns -> BOOLEAN] /\ input' \in [Conns -> {"none", "data", "eof", "hup"}]
    BY <1>35 DEF Replace
  <2>3. deferred' \subseteq Conns
    BY <1>35 DEF Replace, CInv, WorkInv, WorkPc
  <2>4. UNCHANGED <<serverVars, poolVars, queueVars, setSockets, epFD, astray,
                    accepted, freed, keep>>
    BY <1>35 DEF Replace
  <2> QED
    BY <2>1, <2>2, <2>3, <2>4
<1> QED
  BY <1>1, <1>2, <1>3, <1>4, <1>5, <1>6, <1>7, <1>8, <1>9, <1>10, <1>11,
     <1>12, <1>13, <1>14, <1>15, <1>16, <1>17, <1>18, <1>19, <1>20, <1>21,
     <1>22, <1>23, <1>24, <1>25, <1>26, <1>27, <1>28, <1>29, <1>30, <1>31,
     <1>32, <1>33, <1>34, <1>35
     DEF Next, MainThread, WorkerStep, NotifyDone, Terminated

-----------------------------------------------------------------------------
(* Wakeups: threads on their way to a queue, and items in it.                *)

AwakePc == {"woken", "next"}

(* Enough of the threads in ts come for n items. *)
EnoughCome(ts, n) == (\E t \in ts : pc[t] = "waiting") => n <= Cardinality(Coming(ts))

(* No wakeup is lost when for each queue enough threads come. *)
LEMMA WakeupIsEnough ==
  NoLostWakeup <=> /\ EnoughCome(Workers, Len(queueItems))
                   /\ EnoughCome({Prio}, Len(queuePrioItems))
  BY DEF NoLostWakeup, EnoughCome, Waiting, PrioWaiting

(* Counting the threads that come. *)
LEMMA ComingIsCounted ==
  ASSUME NEW ts, IsFiniteSet(ts)
  PROVE  IsFiniteSet(Coming(ts)) /\ Cardinality(Coming(ts)) \in Nat
  BY FS_Subset, FS_CardinalityType DEF Coming

(* The same after a step. *)
LEMMA ComingIsCountedNext ==
  ASSUME NEW ts, IsFiniteSet(ts)
  PROVE  IsFiniteSet(Coming(ts)') /\ Cardinality(Coming(ts)') \in Nat
<1>1. Coming(ts)' \subseteq ts
  BY DEF Coming
<1> QED
  BY <1>1, FS_Subset, FS_CardinalityType

(* Nobody who comes goes astray, nobody else goes to sleep, nothing is added. *)
LEMMA NobodyLeaves ==
  ASSUME NEW ts, IsFiniteSet(ts), NEW n \in Nat, NEW m \in Nat, m <= n,
         EnoughCome(ts, n),
         \A t \in ts : pc[t] \in AwakePc => pc'[t] \in AwakePc,
         \A t \in ts : pc'[t] = "waiting" => pc[t] = "waiting"
  PROVE  (\E t \in ts : pc'[t] = "waiting") => m <= Cardinality(Coming(ts)')
<1>1. Coming(ts) \subseteq Coming(ts)'
  BY DEF Coming, AwakePc
<1>2. Cardinality(Coming(ts)) <= Cardinality(Coming(ts)')
  BY <1>1, ComingIsCountedNext, FS_Subset
<1> QED
  BY <1>2, ComingIsCounted, ComingIsCountedNext DEF EnoughCome

(* One more item, and one of the threads that wait, if any does, is woken. *)
LEMMA OneMoreComes ==
  ASSUME NEW ts, IsFiniteSet(ts), ts \subseteq Callers, NEW n \in Nat,
         EnoughCome(ts, n), Signal({t \in ts : pc[t] = "waiting"})
  PROVE  (\E t \in ts : pc'[t] = "waiting") => n + 1 <= Cardinality(Coming(ts)')
<1> SUFFICES ASSUME NEW s \in ts, pc'[s] = "waiting"
             PROVE  n + 1 <= Cardinality(Coming(ts)')
  OBVIOUS
<1>1. PICK u \in ts : pc[u] = "waiting" /\ pc' = Woken({u})
  BY DEF Signal
<1>2. Coming(ts)' = Coming(ts) \cup {u}
  BY <1>1 DEF Coming, Woken
<1>3. u \notin Coming(ts)
  BY <1>1 DEF Coming
<1>4. Cardinality(Coming(ts)') = Cardinality(Coming(ts)) + 1
  BY <1>2, <1>3, ComingIsCounted, FS_AddElement
<1>5. n <= Cardinality(Coming(ts))
  BY <1>1 DEF EnoughCome
<1> QED
  BY <1>4, <1>5, ComingIsCounted

(* A thread that comes takes an item. *)
LEMMA OneTakesOne ==
  ASSUME NEW ts, IsFiniteSet(ts), ts \subseteq Callers, NEW n \in Nat \ {0},
         pc \in [Callers -> CallerPc], EnoughCome(ts, n), NEW u \in ts,
         pc' = [pc EXCEPT ![u] = "serve"]
  PROVE  (\E t \in ts : pc'[t] = "waiting") => n - 1 <= Cardinality(Coming(ts)')
<1> SUFFICES ASSUME NEW s \in ts, pc'[s] = "waiting"
             PROVE  n - 1 <= Cardinality(Coming(ts)')
  OBVIOUS
<1>1. pc[s] = "waiting"
  OBVIOUS
<1>2. n <= Cardinality(Coming(ts))
  BY <1>1 DEF EnoughCome
<1>3. Coming(ts)' = Coming(ts) \ {u}
  BY DEF Coming
<1>4. CASE u \in Coming(ts)
  <2>1. Cardinality(Coming(ts)') = Cardinality(Coming(ts)) - 1
    BY <1>3, <1>4, ComingIsCounted, FS_RemoveElement
  <2> QED
    BY <1>2, <2>1, ComingIsCounted
<1>5. CASE u \notin Coming(ts)
  <2>1. Coming(ts)' = Coming(ts)
    BY <1>3, <1>5
  <2> QED
    BY <1>2, <2>1, ComingIsCounted
<1> QED
  BY <1>4, <1>5

(* The sets of threads that are counted, and their queues.                   *)
LEMMA SidesAreFinite ==
  ASSUME TypeOK
  PROVE  /\ IsFiniteSet(Workers) /\ IsFiniteSet({Prio})
         /\ Workers \subseteq Callers /\ {Prio} \subseteq Callers
         /\ Len(queueItems) \in Nat /\ Len(queuePrioItems) \in Nat
<1>1. queueItems \in Seq(Conns) /\ queuePrioItems \in Seq(Conns)
  BY DEF TypeOK
<1>2. Len(queueItems) \in Nat /\ Len(queuePrioItems) \in Nat
  BY <1>1
<1>3. IsFiniteSet(Workers) /\ IsFiniteSet({Prio})
  BY DispatcherAssumption, FS_Singleton
<1> QED
  BY <1>2, <1>3 DEF Callers, Threads

(* A step that queues and takes nothing, and puts nobody to sleep.           *)
LEMMA SameQueuesKeep ==
  ASSUME TypeOK, NoLostWakeup, UNCHANGED queueVars,
         \A t \in Threads : pc[t] \in AwakePc => pc'[t] \in AwakePc,
         \A t \in Threads : pc'[t] = "waiting" => pc[t] = "waiting"
  PROVE  NoLostWakeup'
<1>1. EnoughCome(Workers, Len(queueItems)) /\ EnoughCome({Prio}, Len(queuePrioItems))
  BY WakeupIsEnough
<1>2. Workers \subseteq Threads /\ {Prio} \subseteq Threads
  BY DEF Threads
<1>3. (\E t \in Workers : pc'[t] = "waiting")
         => Len(queueItems) <= Cardinality(Coming(Workers)')
  BY <1>1, <1>2, SidesAreFinite, NobodyLeaves
<1>4. (\E t \in {Prio} : pc'[t] = "waiting")
         => Len(queuePrioItems) <= Cardinality(Coming({Prio})')
  BY <1>1, <1>2, SidesAreFinite, NobodyLeaves
<1> QED
  BY <1>3, <1>4, WakeupIsEnough DEF EnoughCome, queueVars, NoLostWakeup, Waiting, PrioWaiting

(* A thread takes an item. *)
LEMMA TakeWakeup ==
  ASSUME TypeOK, NoLostWakeup, NEW t \in Threads, TakeItem(t)
  PROVE  NoLostWakeup'
<1>1. EnoughCome(Workers, Len(queueItems)) /\ EnoughCome({Prio}, Len(queuePrioItems))
  BY WakeupIsEnough
<1>2. /\ pc' = [pc EXCEPT ![t] = "serve"] /\ pc \in [Callers -> CallerPc] /\ t \in Callers
      /\ queueItems \in Seq(Conns) /\ queuePrioItems \in Seq(Conns)
      /\ Workers \subseteq Callers /\ Prio \in Callers
  BY DEF TakeItem, Goto, TypeOK, Callers, Threads
<1>3. CASE t = Prio
  <2>1. queuePrioItems # <<>> /\ Len(queuePrioItems') = Len(queuePrioItems) - 1
        /\ Len(queuePrioItems) \in Nat \ {0} /\ UNCHANGED queueItems
    BY <1>2, <1>3 DEF TakeItem, QueueOf
  <2>2. (\E u \in {Prio} : pc'[u] = "waiting")
          => Len(queuePrioItems) - 1 <= Cardinality(Coming({Prio})')
    BY <1>1, <1>2, <1>3, <2>1, SidesAreFinite, OneTakesOne
  <2>3. \A u \in Workers : pc'[u] = pc[u]
    BY <1>2, <1>3, DispatcherAssumption
  <2>4. (\E u \in Workers : pc'[u] = "waiting")
          => Len(queueItems) <= Cardinality(Coming(Workers)')
    BY <1>1, <2>3, SidesAreFinite, NobodyLeaves
  <2> QED
    BY <2>1, <2>2, <2>4 DEF NoLostWakeup, Waiting, PrioWaiting
<1>4. CASE t # Prio
  <2>1. queueItems # <<>> /\ Len(queueItems') = Len(queueItems) - 1
        /\ Len(queueItems) \in Nat \ {0} /\ UNCHANGED queuePrioItems
    BY <1>2, <1>4 DEF TakeItem, QueueOf
  <2>2. (\E u \in Workers : pc'[u] = "waiting")
          => Len(queueItems) - 1 <= Cardinality(Coming(Workers)')
    <3>1. t \in Workers
      BY <1>4 DEF Threads
    <3> QED
      BY <1>1, <1>2, <2>1, <3>1, SidesAreFinite, OneTakesOne
  <2>3. \A u \in {Prio} : pc'[u] = pc[u]
    BY <1>2, <1>4
  <2>4. (\E u \in {Prio} : pc'[u] = "waiting")
          => Len(queuePrioItems) <= Cardinality(Coming({Prio})')
    BY <1>1, <2>3, SidesAreFinite, NobodyLeaves
  <2> QED
    BY <2>1, <2>2, <2>4 DEF NoLostWakeup, Waiting, PrioWaiting
<1> QED
  BY <1>3, <1>4

(* A connection is queued. *)
LEMMA QueueItemWakeup ==
  ASSUME TypeOK, NoLostWakeup, NEW c \in Conns, QueueItem(c)
  PROVE  NoLostWakeup'
<1>1. EnoughCome(Workers, Len(queueItems)) /\ EnoughCome({Prio}, Len(queuePrioItems))
  BY WakeupIsEnough
<1>2. /\ queueItems \in Seq(Conns) /\ queuePrioItems \in Seq(Conns)
      /\ \A t \in Callers : pc'[t] = pc[t] \/ (pc[t] = "waiting" /\ pc'[t] = "woken")
      /\ Workers \subseteq Callers /\ {Prio} \subseteq Callers
  BY QueueItemWakes DEF Wakes, TypeOK, Callers, Threads
<1>3. CASE queuePrioItems' = Append(queuePrioItems, c) /\ UNCHANGED queueItems
           /\ Signal(PrioWaiting)
  <2>1. Len(queuePrioItems') = Len(queuePrioItems) + 1
    BY <1>2, <1>3
  <2>2. (\E u \in {Prio} : pc'[u] = "waiting")
          => Len(queuePrioItems) + 1 <= Cardinality(Coming({Prio})')
    BY <1>1, <1>3, SidesAreFinite, OneMoreComes DEF PrioWaiting
  <2>3. (\E u \in Workers : pc'[u] = "waiting")
          => Len(queueItems) <= Cardinality(Coming(Workers)')
    BY <1>1, <1>2, SidesAreFinite, NobodyLeaves DEF AwakePc
  <2> QED
    BY <1>3, <2>1, <2>2, <2>3 DEF NoLostWakeup, Waiting, PrioWaiting
<1>4. CASE queueItems' = Append(queueItems, c) /\ UNCHANGED queuePrioItems
           /\ Signal(Waiting)
  <2>1. Len(queueItems') = Len(queueItems) + 1
    BY <1>2, <1>4
  <2>2. (\E u \in Workers : pc'[u] = "waiting")
          => Len(queueItems) + 1 <= Cardinality(Coming(Workers)')
    BY <1>1, <1>4, SidesAreFinite, OneMoreComes DEF Waiting
  <2>3. (\E u \in {Prio} : pc'[u] = "waiting")
          => Len(queuePrioItems) <= Cardinality(Coming({Prio})')
    BY <1>1, <1>2, SidesAreFinite, NobodyLeaves DEF AwakePc
  <2> QED
    BY <1>4, <2>1, <2>2, <2>3 DEF NoLostWakeup, Waiting, PrioWaiting
<1> QED
  BY <1>3, <1>4 DEF QueueItem

(* A thread goes idle or to sleep after it found its queue empty.            *)
LEMMA EmptyWakeup ==
  ASSUME TypeOK, NoLostWakeup, NEW t \in Threads, QueueOf(t) = <<>>,
         UNCHANGED queueVars,
         \A u \in Threads : u # t => pc'[u] = pc[u]
  PROVE  NoLostWakeup'
<1>1. EnoughCome(Workers, Len(queueItems)) /\ EnoughCome({Prio}, Len(queuePrioItems))
  BY WakeupIsEnough
<1>2. CASE t = Prio
  <2>1. \A u \in Workers : pc'[u] = pc[u]
    BY <1>2, DispatcherAssumption DEF Threads
  <2>2. (\E u \in Workers : pc'[u] = "waiting")
          => Len(queueItems) <= Cardinality(Coming(Workers)')
    BY <1>1, <2>1, SidesAreFinite, NobodyLeaves
  <2>3. Len(queuePrioItems) = 0 /\ Cardinality(Coming({Prio})') \in Nat
    BY <1>2, SidesAreFinite, ComingIsCountedNext DEF QueueOf
  <2> QED
    BY <2>2, <2>3 DEF NoLostWakeup, Waiting, PrioWaiting, queueVars
<1>3. CASE t # Prio
  <2>1. \A u \in {Prio} : pc'[u] = pc[u]
    BY <1>3 DEF Threads
  <2>2. (\E u \in {Prio} : pc'[u] = "waiting")
          => Len(queuePrioItems) <= Cardinality(Coming({Prio})')
    BY <1>1, <2>1, SidesAreFinite, NobodyLeaves
  <2>3. Len(queueItems) = 0 /\ Cardinality(Coming(Workers)') \in Nat
    BY <1>3, SidesAreFinite, ComingIsCountedNext DEF QueueOf
  <2> QED
    BY <2>2, <2>3 DEF NoLostWakeup, Waiting, PrioWaiting, queueVars
<1> QED
  BY <1>2, <1>3

(* NoLostWakeup is inductive by itself, given the types.                     *)
LEMMA WakeupNext == TypeOK /\ CInv /\ NoLostWakeup /\ [Next]_vars => NoLostWakeup'
<1> SUFFICES ASSUME TypeOK, CInv, NoLostWakeup, [Next]_vars PROVE NoLostWakeup'
  OBVIOUS
<1> USE DispatcherAssumption DEF Goto, serverVars, poolVars, connVars
<1> /\ Workers \subseteq Threads /\ Threads \subseteq Callers /\ Prio \in Threads
    /\ pc \in [Callers -> CallerPc]
  BY DEF Callers, Threads, TypeOK
<1>1. CASE MainStart
  BY <1>1, SameQueuesKeep DEF MainStart, AwakePc
<1>2. CASE LoopExit
  BY <1>2, SameQueuesKeep DEF LoopExit, AwakePc
<1>3. CASE DeleteWatchDog
  BY <1>3, SameQueuesKeep DEF DeleteWatchDog, AwakePc
<1>4. CASE SetCountZero
  BY <1>4, SetCountZeroStarts, SameQueuesKeep DEF SetCountZero
<1>5. CASE WakeAll
  BY <1>5, BroadcastWakes, SameQueuesKeep DEF WakeAll, Wakes, AwakePc
<1>6. CASE JoinWorkers
  BY <1>6, SameQueuesKeep DEF JoinWorkers, AwakePc
<1>7. CASE DrainQueues
  <2>1. Len(queueItems') = 0 /\ Len(queuePrioItems') = 0
    BY <1>7 DEF DrainQueues
  <2>2. Cardinality(Coming(Workers)') \in Nat /\ Cardinality(Coming({Prio})') \in Nat
    BY SidesAreFinite, ComingIsCountedNext
  <2> QED
    BY <2>1, <2>2 DEF NoLostWakeup
<1>8. CASE CloseSockets
  BY <1>8, SameQueuesKeep DEF CloseSockets, AwakePc
<1>9. CASE MainLoopReturned
  BY <1>9, SameQueuesKeep DEF MainLoopReturned, AwakePc
<1>10. CASE DeleteSessionManager
  BY <1>10, SameQueuesKeep DEF DeleteSessionManager, AwakePc
<1>11. ASSUME NEW c \in Conns, Accept(c) PROVE NoLostWakeup'
  BY <1>11, SameQueuesKeep DEF Accept, AwakePc
<1>12. ASSUME NEW c \in Conns, IdleTimeout(c) PROVE NoLostWakeup'
  BY <1>12, SameQueuesKeep DEF IdleTimeout, AwakePc
<1>13. ASSUME NEW c \in Conns, SocketEvent(c) PROVE NoLostWakeup'
  <2>1. CASE QueueItem(c)
    BY <2>1, QueueItemWakeup
  <2>2. CASE UNCHANGED <<queueVars, pc>>
    BY <2>2, SameQueuesKeep
  <2> QED
    BY <1>13, <2>1, <2>2 DEF SocketEvent
<1>14. ASSUME NEW c \in Conns, ClientSend(c) PROVE NoLostWakeup'
  BY <1>14, SameQueuesKeep DEF ClientSend, AwakePc
<1>15. ASSUME NEW c \in Conns, ClientClose(c) PROVE NoLostWakeup'
  BY <1>15, SameQueuesKeep DEF ClientClose, AwakePc
<1>16. ASSUME NEW n \in HupThreads, Hup(n) PROVE NoLostWakeup'
  <2>1. \A t \in Callers : pc'[t] \in {pc[t], "next"}
    BY <1>16, StartThreadsStarts DEF Hup, ManagerSetThreadCount
  <2> QED
    BY <1>16, <2>1, SameQueuesKeep DEF Hup, AwakePc
<1>17. CASE HupBroadcast
  BY <1>17, BroadcastWakes, SameQueuesKeep DEF HupBroadcast, Wakes, AwakePc
<1>18. CASE Term
  BY <1>18, SameQueuesKeep DEF Term, AwakePc
<1>19. CASE Quit
  BY <1>19, SameQueuesKeep DEF Quit, AwakePc
<1>20. ASSUME NEW c \in Conns, ForceAddThread(c) PROVE NoLostWakeup'
  <2>1. \A t \in Callers : pc'[t] \in {pc[t], "next"}
    BY <1>20, StartThreadsStarts DEF ForceAddThread
  <2> QED
    BY <1>20, <2>1, SameQueuesKeep DEF ForceAddThread, AwakePc
<1>21. ASSUME NEW t \in Threads, GetNext(t) PROVE NoLostWakeup'
  <2>1. CASE TakeItem(t)
    BY <2>1, TakeWakeup
  <2>2. CASE QueueOf(t) = <<>> /\ Goto(t, "idle") /\ UNCHANGED <<work, queueVars>>
    BY <2>2, EmptyWakeup
  <2> QED
    BY <1>21, <2>1, <2>2 DEF GetNext
<1>22. ASSUME NEW t \in Threads, NotifyIdle(t) PROVE NoLostWakeup'
  BY <1>22, SameQueuesKeep DEF NotifyIdle, AwakePc
<1>23. ASSUME NEW t \in Threads, GetWait(t) PROVE NoLostWakeup'
  <2>1. CASE TakeItem(t)
    BY <2>1, TakeWakeup
  <2>2. CASE /\ QueueOf(t) = <<>> /\ Goto(t, IF bExit THEN "next" ELSE "waiting")
             /\ UNCHANGED <<work, queueVars>>
    BY <2>2, EmptyWakeup
  <2> QED
    BY <1>23, <2>1, <2>2 DEF GetWait
<1>24. ASSUME NEW t \in Threads, AfterWait(t) PROVE NoLostWakeup'
  <2>1. CASE TakeItem(t)
    BY <2>1, TakeWakeup
  <2>2. CASE Goto(t, "next") /\ UNCHANGED <<work, queueVars>>
    BY <2>2, SameQueuesKeep DEF AwakePc
  <2> QED
    BY <1>24, <2>1, <2>2 DEF AfterWait
<1>25. ASSUME NEW t \in Threads, SpuriousWakeup(t) PROVE NoLostWakeup'
  BY <1>25, SameQueuesKeep DEF SpuriousWakeup, AwakePc
<1>26. ASSUME NEW t \in Threads, Serve(t) PROVE NoLostWakeup'
  BY <1>26, SameQueuesKeep DEF Serve, AwakePc
<1>27. ASSUME NEW t \in Threads, Defer(t) PROVE NoLostWakeup'
  BY <1>27, SameQueuesKeep DEF Defer, AwakePc
<1>28. ASSUME NEW t \in Callers, NotifyDoneFree(t) PROVE NoLostWakeup'
  BY <1>28, SameQueuesKeep DEF NotifyDoneFree, AwakePc, AfterDone
<1>29. ASSUME NEW t \in Callers, NotifyDoneKeep(t) PROVE NoLostWakeup'
  BY <1>29, SameQueuesKeep DEF NotifyDoneKeep, AwakePc
<1>30. ASSUME NEW t \in Callers, InsertSocket(t) PROVE NoLostWakeup'
  BY <1>30, SameQueuesKeep DEF InsertSocket, AwakePc
<1>31. ASSUME NEW t \in Callers, NotifyRestart(t) PROVE NoLostWakeup'
  BY <1>31, SameQueuesKeep DEF NotifyRestart, AwakePc, AfterDone
<1>32. ASSUME NEW t \in Callers, NotifyDoneDangling(t) PROVE NoLostWakeup'
  BY <1>32, SameQueuesKeep DEF NotifyDoneDangling, AwakePc
<1>33. ASSUME NEW c \in Conns, NotifierReply(c) PROVE NoLostWakeup'
  BY <1>33, SameQueuesKeep DEF NotifierReply, AwakePc
<1>34. CASE UNCHANGED vars
  BY <1>34, SameQueuesKeep DEF vars, AwakePc
<1>35. ASSUME NEW t \in Threads, NEW d \in Conns, Replace(t, d) PROVE NoLostWakeup'
  BY <1>35, SameQueuesKeep DEF Replace, AwakePc
<1> QED
  BY <1>1, <1>2, <1>3, <1>4, <1>5, <1>6, <1>7, <1>8, <1>9, <1>10, <1>11,
     <1>12, <1>13, <1>14, <1>15, <1>16, <1>17, <1>18, <1>19, <1>20, <1>21,
     <1>22, <1>23, <1>24, <1>25, <1>26, <1>27, <1>28, <1>29, <1>30, <1>31,
     <1>32, <1>33, <1>34, <1>35
     DEF Next, MainThread, WorkerStep, NotifyDone, Terminated

-----------------------------------------------------------------------------
(* The theorems. *)

IInv == TypeOK /\ CInv /\ OwnInv /\ KeepInv

(* The initial state satisfies the invariant. *)
LEMMA InvInit == Init => IInv /\ NoLostWakeup
<1> SUFFICES ASSUME Init PROVE IInv /\ NoLostWakeup
  OBVIOUS
<1> USE DispatcherAssumption DEF Init
<1>1. \A t \in Callers : pc[t] \in {"idle", "off"}
  OBVIOUS
<1>2. Cardinality(Workers) \in Nat
  BY FS_CardinalityType
<1>3. TypeOK
  <2>1. pc \in [Callers -> CallerPc] /\ work \in [Callers -> Conns \cup {None}]
    BY DEF CallerPc
  <2>2. main \in MainPc
    BY DEF MainPc
  <2>3. keep \in [Conns -> -1..MaxKeepAlive] /\ ulThreads \in 0..Cardinality(Workers)
    BY <1>2
  <2>4. queueItems \in Seq(Conns) /\ queuePrioItems \in Seq(Conns) /\ hups \in 0..MaxHup
    OBVIOUS
  <2> QED
    BY <2>1, <2>2, <2>3, <2>4 DEF TypeOK
<1>4. KeepInv
  BY <1>1 DEF KeepInv
<1>5. NoLostWakeup
  BY <1>1 DEF NoLostWakeup, Waiting, PrioWaiting, Callers, Threads
<1> QED
  BY <1>3, <1>4, <1>5, ControlInit, OwnersInit DEF IInv

(* The invariant is inductive, so it always holds. *)
THEOREM Invariance == Spec => [](IInv /\ NoLostWakeup)
<1>1. IInv /\ [Next]_vars => IInv'
  BY TypeNext, ControlNext, OwnersNext, KeepNext DEF IInv
<1>2. IInv /\ NoLostWakeup /\ [Next]_vars => NoLostWakeup'
  BY WakeupNext DEF IInv
<1> QED
  BY <1>1, <1>2, InvInit, PTL DEF Spec

(* Type correctness of the dispatcher's and the thread manager's state.      *)
THEOREM TypeCorrect == Spec => []TypeOK
<1>1. IInv => TypeOK
  BY DEF IInv
<1> QED
  BY <1>1, Invariance, PTL

(* A `struct soap *' is handed from the socket map to a queue, a thread, the *)
(* notification manager and back without ever being in two places.           *)
THEOREM ConnectionsHaveOneOwner == Spec => []SoleOwner
<1>1. IInv => SoleOwner
  BY OwnersImply DEF IInv
<1> QED
  BY <1>1, Invariance, PTL

(* Every soap object is freed exactly once, or somebody still has it.        *)
THEOREM ConnectionsAreFreedOnce == Spec => []HeldOrFreed
<1>1. IInv => HeldOrFreed
  BY OwnersImply DEF IInv
<1> QED
  BY <1>1, Invariance, PTL

(* QueueItem's signals suffice: no item waits for a thread that sleeps,      *)
(* though the watchdog, a reload and the other queue wake threads as well.   *)
THEOREM WakeupsAreNotLost == Spec => []NoLostWakeup
BY Invariance, PTL

(* "This makes sure no new threads will be started": neither the watchdog    *)
(* nor a reload adds a thread while MainLoop joins them.                     *)
THEOREM NoThreadsWhileExiting == Spec => NoThreadsDuringExit
<1> DEFINE Step == main \notin {"start", "loop", "watchdog"} => lstThreads' \subseteq lstThreads
<1>1. IInv /\ [Next]_vars => Step
  <2> SUFFICES ASSUME IInv, [Next]_vars, main \notin {"start", "loop", "watchdog"}
               PROVE  lstThreads' \subseteq lstThreads
    OBVIOUS
  <2>1. watchdog = FALSE /\ sig # "wait"
    BY DEF IInv, CInv, ExitInv
  <2>2. ASSUME NEW t \in Threads, NotifyIdle(t) PROVE lstThreads' \subseteq lstThreads
    BY <2>2 DEF NotifyIdle
  <2>3. CASE SetCountZero
    BY <2>3, SetCountZeroStarts DEF IInv
  <2> QED
    BY <2>1, <2>2, <2>3
       DEF Next, MainThread, MainStart, LoopExit, DeleteWatchDog, WakeAll, JoinWorkers,
           DrainQueues, CloseSockets, MainLoopReturned, DeleteSessionManager, Accept,
           IdleTimeout, SocketEvent, ClientSend, ClientClose, Hup, HupBroadcast, Term,
           Quit, ForceAddThread, WorkerStep, GetNext, GetWait, AfterWait,
           SpuriousWakeup, Serve, Defer, Replace, NotifyDone, NotifyDoneFree,
           NotifyDoneKeep, InsertSocket, NotifyRestart, NotifyDoneDangling, NotifierReply, Terminated,
           vars, poolVars
<1> QED
  BY <1>1, Invariance, PTL DEF Spec, NoThreadsDuringExit

(* MainLoop returns only after every thread has left and every connection    *)
(* it had is closed; what remains is the notification manager's.             *)
THEOREM NothingLeftAtExit == Spec => []ExitLeavesNothing
<1>1. IInv => ExitLeavesNothing
  <2> SUFFICES ASSUME IInv, main \in {"done", "removed", "exited"}
               PROVE  /\ \A t \in Threads : pc[t] = "off"
                      /\ Held \subseteq deferred \cup (setSockets \cap DeferConns)
                                        \cup {work[Notifier]}
    BY DEF ExitLeavesNothing
  <2> USE DEF IInv, CInv, PoolInv, ExitInv, WorkInv, Joined, Drained
  <2>1. \A t \in Threads : pc[t] = "off"
    BY DEF Threads
  <2>2. Working \subseteq {Notifier}
    BY <2>1 DEF Working, Callers
  <2>3. Busy \subseteq {work[Notifier]}
    BY <2>2 DEF Busy
  <2>4. InQueue(queueItems) = {} /\ InQueue(queuePrioItems) = {}
    BY DEF InQueue
  <2>5. setSockets \subseteq DeferConns
    OBVIOUS
  <2> QED
    BY <2>1, <2>3, <2>4, <2>5, HeldIsSomewhere DEF Somewhere
<1> QED
  BY <1>1, Invariance, PTL

-----------------------------------------------------------------------------
(* The refinement of ConnectionOwnership.                                    *)

Queued == InQueue(queueItems) \cup InQueue(queuePrioItems)

(* What the stage of a connection tells, while the invariant holds.          *)
StageIs(c) ==
  /\ Stage[c] \in Ownership!Stages
  /\ Stage[c] = "new" <=> c \notin accepted
  /\ Stage[c] = "closed" <=> freed[c] = 1
  /\ Stage[c] = "idle" <=> c \in setSockets
  /\ Stage[c] = "queued" <=> c \in Queued
  /\ Stage[c] = "served" <=> Served(c)
  /\ Stage[c] = "answered" <=> Answered(c)
  /\ Stage[c] = "deferred" <=> c \in deferred

StagesAre == \A c \in Conns : StageIs(c)

(* A connection is busy when it is served or handed back, and never is both. *)
LEMMA BusyIsServedOrAnswered ==
  ASSUME UniqueWork, NEW c
  PROVE  (c \in Busy <=> Served(c) \/ Answered(c)) /\ ~(Served(c) /\ Answered(c))
  BY DEF UniqueWork, Busy, Working, Served, Answered

(* The stages are told apart by the invariant. *)
LEMMA StagesAreTold == IInv => StagesAre
<1> SUFFICES ASSUME IInv, NEW c \in Conns PROVE StageIs(c)
  BY DEF StagesAre
<1>1. /\ c \in accepted => freed[c] = (IF c \in Somewhere THEN 0 ELSE 1)
      /\ c \notin accepted => freed[c] = 0 /\ c \notin Somewhere
  BY DEF IInv, OwnInv, FreedOnce
<1>2. (c \in Busy <=> Served(c) \/ Answered(c)) /\ ~(Served(c) /\ Answered(c))
  BY BusyIsServedOrAnswered DEF IInv, OwnInv, OneOwner
<1>3. /\ c \in setSockets => c \notin Queued \cup Busy \cup deferred
      /\ c \in Queued => c \notin Busy \cup deferred
      /\ c \in Busy => c \notin deferred
  BY DEF IInv, OwnInv, OneOwner, Queued
<1>4. c \in Somewhere <=> c \in setSockets \cup Queued \cup Busy \cup deferred
  BY DEF Somewhere, Queued
<1>5. Stage[c] =
        IF c \notin accepted THEN "new" ELSE IF freed[c] = 1 THEN "closed"
        ELSE IF freed[c] > 1 THEN "astray" ELSE IF c \in setSockets THEN "idle"
        ELSE IF c \in deferred THEN "deferred" ELSE IF Served(c) THEN "served"
        ELSE IF Answered(c) THEN "answered" ELSE IF c \in Queued THEN "queued"
        ELSE "astray"
  BY DEF Stage, Queued
<1> QED
  BY <1>1, <1>2, <1>3, <1>4, <1>5 DEF StageIs, Ownership!Stages

(* A connection that stays where it is keeps its stage. *)
LEMMA StageStays ==
  ASSUME NEW c \in Conns,
         c \in accepted <=> c \in accepted', freed'[c] = freed[c],
         c \in setSockets <=> c \in setSockets', c \in deferred <=> c \in deferred',
         Served(c) <=> Served(c)', Answered(c) <=> Answered(c)',
         c \in Queued <=> c \in Queued'
  PROVE  Stage'[c] = Stage[c]
  BY DEF Stage, Queued

(* ... as do those that a step of thread t does not touch. *)
LEMMA OthersStay ==
  ASSUME NEW t, \A u \in Callers : u # t => pc'[u] = pc[u] /\ work'[u] = work[u],
         NEW c, t \in Callers =>
                  /\ pc[t] \in {"serve", "notifyDone", "requeue"} => work[t] # c
                  /\ pc'[t] \in {"serve", "notifyDone", "requeue"} => work'[t] # c
  PROVE  (Served(c) <=> Served(c)') /\ (Answered(c) <=> Answered(c)')
  BY DEF Served, Answered

(* Threads that wake or start, or go on without their connection. *)
StayPut ==
  \A t \in Callers :
    /\ pc[t] = "serve" <=> pc'[t] = "serve"
    /\ pc[t] \in {"notifyDone", "requeue"} <=> pc'[t] \in {"notifyDone", "requeue"}
    /\ pc[t] \in {"serve", "notifyDone", "requeue"} => work'[t] = work[t]

(* Then nobody begins or ends serving or answering a connection. *)
LEMMA StayPutStays ==
  ASSUME StayPut, NEW c
  PROVE  (Served(c) <=> Served(c)') /\ (Answered(c) <=> Answered(c)')
  BY DEF StayPut, Served, Answered

(* Waking threads, and starting them, are such steps. *)
LEMMA WakesStayPut == ASSUME Wakes, UNCHANGED work PROVE StayPut
  BY DEF Wakes, StayPut

(* A thread that is started serves nobody yet. *)
LEMMA StartsStayPut ==
  ASSUME TypeOK, NEW n, StartThreads(n), UNCHANGED work
  PROVE  StayPut
<1>1. PICK new \in SUBSET {w \in Workers : pc[w] = "off"} :
        \A t \in Callers : pc'[t] = IF t \in new THEN "next" ELSE pc[t]
  BY StartThreadsStarts
<1> QED
  BY <1>1 DEF StayPut

(* Stage is a function on the connections. *)
LEMMA StageIsFunction ==
  Stage = [c \in Conns |-> Stage[c]] /\ Stage' = [c \in Conns |-> Stage'[c]]
<1> DEFINE S(c) ==
      IF c \notin accepted THEN "new" ELSE IF freed[c] = 1 THEN "closed"
      ELSE IF freed[c] > 1 THEN "astray" ELSE IF c \in setSockets THEN "idle"
      ELSE IF c \in deferred THEN "deferred" ELSE IF Served(c) THEN "served"
      ELSE IF Answered(c) THEN "answered"
      ELSE IF c \in InQueue(queueItems) \cup InQueue(queuePrioItems) THEN "queued"
      ELSE "astray"
<1>1. Stage = [c \in Conns |-> S(c)]
  BY DEF Stage
<1>2. Stage' = [c \in Conns |-> S(c)']
  BY DEF Stage
<1> HIDE DEF S
<1> QED
  BY <1>1, <1>2

(* A step that moves no connection is a stutter. *)
LEMMA NothingMoves ==
  ASSUME StayPut, UNCHANGED <<accepted, freed, setSockets, deferred, queueVars, bExit>>
  PROVE  UNCHANGED Ownership!vars
<1>1. ASSUME NEW c \in Conns PROVE Stage'[c] = Stage[c]
  BY StayPutStays, StageStays DEF queueVars, Queued
<1>2. Stage' = Stage
  BY <1>1, StageIsFunction
<1> QED
  BY <1>2 DEF Ownership!vars

(* A step that moves connection c only, to a stage that may come next.       *)
LEMMA OneMoves ==
  ASSUME NEW c \in Conns, \A d \in Conns \ {c} : Stage'[d] = Stage[d], UNCHANGED bExit,
         \/ (Stage[c] = "new" \/ Stage[c] = "answered") /\ Stage'[c] = "idle"
         \/ Stage[c] = "idle" /\ Stage'[c] = "queued"
         \/ Stage[c] = "queued" /\ Stage'[c] = "served"
         \/ Stage[c] = "served" /\ Stage'[c] = "deferred"
         \/ (Stage[c] = "served" \/ Stage[c] = "deferred") /\ Stage'[c] = "answered"
         \/ (Stage[c] = "new" \/ Stage[c] = "idle" \/ Stage[c] = "answered")
              /\ Stage'[c] = "closed"
  PROVE  Ownership!Next
<1>1. Stage' = [Stage EXCEPT ![c] = Stage'[c]]
  BY StageIsFunction
<1>2. \A from : Stage[c] \in from => Ownership!Move(c, from, Stage'[c])
  BY <1>1 DEF Ownership!Move
<1>3. \/ Ownership!Poll(c) \/ Ownership!Queue(c) \/ Ownership!Take(c)
      \/ Ownership!Defer(c) \/ Ownership!Answer(c) \/ Ownership!Close(c)
  BY <1>2 DEF Ownership!Poll, Ownership!Queue, Ownership!Take, Ownership!Defer,
     Ownership!Answer, Ownership!Close
<1> QED
  BY <1>3 DEF Ownership!Next

(* The queues lose the connection a thread takes, and no other. *)
LEMMA TakeQueued ==
  ASSUME TypeOK, OwnInv, NEW t \in Threads, TakeItem(t)
  PROVE  /\ work'[t] \in Queued /\ work'[t] \in Conns
         /\ \A d \in Conns \ {work'[t]} : d \in Queued <=> d \in Queued'
<1> DEFINE c == Head(QueueOf(t))
<1>1. c \in InQueue(QueueOf(t)) /\ c \in Conns /\ work'[t] = c
  BY TakeItemTakes DEF TypeOK, Callers
<1>2. CASE t = Prio
  <2>1. queuePrioItems # <<>> /\ c = Head(queuePrioItems)
        /\ queuePrioItems' = Tail(queuePrioItems) /\ UNCHANGED queueItems
    BY <1>2 DEF TakeItem, QueueOf
  <2>2. InQueue(queuePrioItems)' = InQueue(queuePrioItems) \ {c}
    BY <2>1, QueueTail DEF TypeOK, OwnInv, OneOwner
  <2> QED
    BY <1>1, <1>2, <2>1, <2>2 DEF Queued, QueueOf
<1>3. CASE t # Prio
  <2>1. queueItems # <<>> /\ c = Head(queueItems)
        /\ queueItems' = Tail(queueItems) /\ UNCHANGED queuePrioItems
    BY <1>3 DEF TakeItem, QueueOf
  <2>2. InQueue(queueItems)' = InQueue(queueItems) \ {c}
    BY <2>1, QueueTail DEF TypeOK, OwnInv, OneOwner
  <2> QED
    BY <1>1, <1>3, <2>1, <2>2 DEF Queued, QueueOf
<1> QED
  BY <1>2, <1>3

(* A thread takes a connection: from queued to served. *)
LEMMA TakeMoves ==
  ASSUME IInv, StagesAre, StagesAre', NEW t \in Threads, TakeItem(t),
         pc[t] \in {"next", "getwait", "woken"},
         UNCHANGED <<setSockets, deferred, accepted, freed, bExit>>
  PROVE  Ownership!Next
<1> DEFINE c == work'[t]
<1>1. /\ c \in Queued /\ c \in Conns
      /\ \A d \in Conns \ {c} : d \in Queued <=> d \in Queued'
  BY TakeQueued DEF IInv
<1>2. t \in Callers /\ pc' = [pc EXCEPT ![t] = "serve"]
      /\ \A u \in Callers : u # t => work'[u] = work[u]
  BY TakeItemTakes DEF IInv, Callers
<1>3. \A u \in Callers : u # t => pc'[u] = pc[u] /\ work'[u] = work[u]
  BY <1>2 DEF IInv, TypeOK
<1>4. pc'[t] = "serve"
  BY <1>2 DEF IInv, TypeOK
<1>5. \A d \in Conns \ {c} : Stage'[d] = Stage[d]
  BY <1>1, <1>3, OthersStay, StageStays
<1>6. Stage[c] = "queued"
  BY <1>1 DEF StagesAre, StageIs
<1>7. Stage'[c] = "served"
  BY <1>1, <1>2, <1>4 DEF StagesAre, StageIs, Served
<1> QED
  BY <1>1, <1>5, <1>6, <1>7, OneMoves

(* All connections at one stage are closed. *)
LEMMA AllMove ==
  ASSUME StagesAre, StagesAre', NEW waiting \in {"idle", "queued", "deferred"},
         bExit, UNCHANGED bExit,
         \A c \in Conns : IF Stage[c] = waiting THEN freed'[c] = 1
                           ELSE Stage'[c] = Stage[c]
  PROVE  Ownership!Next
<1>1. \A c \in Conns : Stage'[c] = IF Stage[c] = waiting THEN "closed" ELSE Stage[c]
  BY DEF StagesAre, StageIs
<1>2. Stage' = [c \in Conns |-> IF Stage[c] = waiting THEN "closed" ELSE Stage[c]]
  BY <1>1, StageIsFunction
<1> QED
  BY <1>2 DEF Ownership!Next, Ownership!CloseAll

(* What is drained is freed once for each queue it is in: that is one. *)
LEMMA DrainCounts ==
  ASSUME TypeOK, OwnInv, DrainQueues, NEW c \in Conns
  PROVE  freed'[c] = freed[c] + (IF c \in Queued THEN 1 ELSE 0)
<1>1. queueItems \in Seq(Conns) /\ queuePrioItems \in Seq(Conns) /\ freed[c] \in Nat
      /\ Distinct(queueItems) /\ Distinct(queuePrioItems)
      /\ (c \in InQueue(queueItems) => c \notin InQueue(queuePrioItems))
  BY DEF TypeOK, OwnInv, OneOwner
<1>2. Cardinality({i \in 1..Len(queueItems) : queueItems[i] = c})
        = (IF c \in InQueue(queueItems) THEN 1 ELSE 0)
      /\ Cardinality({i \in 1..Len(queuePrioItems) : queuePrioItems[i] = c})
           = (IF c \in InQueue(queuePrioItems) THEN 1 ELSE 0)
  BY <1>1, QueueCount
<1> QED
  BY <1>1, <1>2 DEF DrainQueues, Queued

(* Every step is one of ConnectionOwnership's, or moves no connection.       *)
LEMMA StepOwns ==
  ASSUME IInv, StagesAre, StagesAre', [Next]_vars
  PROVE  [Ownership!Next]_(Ownership!vars)
<1> USE DispatcherAssumption DEF IInv, TypeOK, CInv, Goto, serverVars, poolVars,
       queueVars, connVars
<1>1. CASE MainStart
  <2>1. StayPut
    BY <1>1 DEF MainStart, StayPut, PoolInv, Threads, Callers
  <2> QED
    BY <1>1, <2>1, NothingMoves DEF MainStart
<1>2. CASE LoopExit
  BY <1>2, NothingMoves DEF LoopExit, StayPut
<1>3. CASE DeleteWatchDog
  BY <1>3, NothingMoves DEF DeleteWatchDog, StayPut
<1>4. CASE SetCountZero
  BY <1>4, SetCountZeroStarts, NothingMoves DEF SetCountZero, StayPut
<1>5. CASE WakeAll
  BY <1>5, BroadcastWakes, WakesStayPut, NothingMoves DEF WakeAll
<1>6. CASE JoinWorkers
  BY <1>6, NothingMoves DEF JoinWorkers, StayPut
<1>7. CASE DrainQueues
  <2> USE DEF DrainQueues
  <2>1. \A c \in Conns : freed'[c] = freed[c] + (IF c \in Queued THEN 1 ELSE 0)
    BY <1>7, DrainCounts
  <2>2. StayPut /\ Queued' = {}
    BY <1>7 DEF StayPut, Queued, InQueue
  <2>3. ASSUME NEW c \in Conns
        PROVE  IF Stage[c] = "queued" THEN freed'[c] = 1 ELSE Stage'[c] = Stage[c]
    <3>1. CASE c \in Queued
      BY <2>1, <3>1 DEF StagesAre, StageIs, OwnInv, FreedOnce, Somewhere, Queued
    <3>2. CASE c \notin Queued
      <4>1. freed'[c] = freed[c] /\ Stage[c] # "queued"
        BY <2>1, <3>2 DEF StagesAre, StageIs
      <4> QED
        BY <1>7, <2>2, <3>2, <4>1, StayPutStays, StageStays
    <3> QED
      BY <3>1, <3>2
  <2> QED
    BY <1>7, <2>3, AllMove DEF ExitInv
<1>8. CASE CloseSockets
  <2> USE DEF CloseSockets
  <2>1. StayPut /\ Queued' = Queued
    BY <1>8 DEF StayPut, Queued
  <2>2. ASSUME NEW c \in Conns
        PROVE  IF Stage[c] = "idle" THEN freed'[c] = 1 ELSE Stage'[c] = Stage[c]
    <3>1. CASE c \in setSockets
      BY <1>8, <3>1 DEF StagesAre, StageIs, OwnInv, FreedOnce, Somewhere
    <3>2. CASE c \notin setSockets
      BY <1>8, <2>1, <3>2, StayPutStays, StageStays DEF StagesAre, StageIs
    <3> QED
      BY <3>1, <3>2
  <2> QED
    BY <1>8, <2>2, AllMove DEF ExitInv
<1>9. CASE MainLoopReturned
  BY <1>9, NothingMoves DEF MainLoopReturned, StayPut
<1>10. CASE DeleteSessionManager
  <2> USE DEF DeleteSessionManager
  <2>1. StayPut /\ Queued' = Queued
    BY <1>10 DEF StayPut, Queued
  <2>2. ASSUME NEW c \in Conns
        PROVE  IF Stage[c] = "deferred" THEN freed'[c] = 1 ELSE Stage'[c] = Stage[c]
    <3>1. CASE c \in deferred
      BY <1>10, <3>1 DEF StagesAre, StageIs, OwnInv, FreedOnce, Somewhere
    <3>2. CASE c \notin deferred
      BY <1>10, <2>1, <3>2, StayPutStays, StageStays DEF StagesAre, StageIs
    <3> QED
      BY <3>1, <3>2
  <2> QED
    BY <1>10, <2>2, AllMove DEF ExitInv
<1>11. ASSUME NEW c \in Conns, Accept(c) PROVE Ownership!Next
  <2> USE DEF Accept, Free
  <2>1. \A d \in Conns \ {c} : Stage'[d] = Stage[d]
    <3>1. StayPut /\ Queued' = Queued
      BY <1>11 DEF StayPut, Queued
    <3> QED
      BY <1>11, <3>1, StayPutStays, StageStays
  <2>2. Stage[c] = "new"
    BY <1>11 DEF StagesAre, StageIs
  <2>3. Stage'[c] = "idle" \/ Stage'[c] = "closed"
    BY <1>11 DEF StagesAre, StageIs, OwnInv, FreedOnce
  <2> QED
    BY <1>11, <2>1, <2>2, <2>3, OneMoves
<1>12. ASSUME NEW c \in Conns, IdleTimeout(c) PROVE UNCHANGED Ownership!vars
  BY <1>12, NothingMoves DEF IdleTimeout, StayPut
<1>13. ASSUME NEW c \in Conns, SocketEvent(c) PROVE Ownership!Next
  <2> USE DEF SocketEvent
  <2>1. StayPut
    BY <1>13, SocketEventWakes, WakesStayPut
  <2>2. c \in setSockets /\ c \notin Queued /\ freed[c] = 0
    BY <1>13 DEF OwnInv, OneOwner, Queued, FreedOnce, Somewhere
  <2>3. \/ freed' = [freed EXCEPT ![c] = 1] /\ Queued' = Queued
        \/ freed' = freed /\ Queued' = Queued \cup {c}
    BY <1>13, <2>2, QueueItemQueues DEF Queued, Free, OwnInv
  <2>4. \A d \in Conns \ {c} : Stage'[d] = Stage[d]
    BY <1>13, <2>1, <2>3, StayPutStays, StageStays
  <2>5. Stage[c] = "idle"
    BY <2>2 DEF StagesAre, StageIs
  <2>6. Stage'[c] = "closed" \/ Stage'[c] = "queued"
    BY <1>13, <2>3 DEF StagesAre, StageIs
  <2> QED
    BY <1>13, <2>4, <2>5, <2>6, OneMoves
<1>14. ASSUME NEW c \in Conns, ClientSend(c) PROVE UNCHANGED Ownership!vars
  BY <1>14, NothingMoves DEF ClientSend, StayPut
<1>15. ASSUME NEW c \in Conns, ClientClose(c) PROVE UNCHANGED Ownership!vars
  BY <1>15, NothingMoves DEF ClientClose, StayPut
<1>16. ASSUME NEW n \in HupThreads, Hup(n) PROVE UNCHANGED Ownership!vars
  <2>1. StayPut
    <3>1. CASE \E m : StartThreads(m)
      BY <1>16, <3>1, StartsStayPut DEF Hup
    <3>2. CASE UNCHANGED pc
      BY <1>16, <3>2 DEF Hup, StayPut
    <3> QED
      BY <1>16, <3>1, <3>2 DEF Hup, ManagerSetThreadCount
  <2> QED
    BY <1>16, <2>1, NothingMoves DEF Hup
<1>17. CASE HupBroadcast
  BY <1>17, BroadcastWakes, WakesStayPut, NothingMoves DEF HupBroadcast
<1>18. CASE Term
  <2>1. Stage' = Stage
    BY <1>18 DEF Term, Stage, Served, Answered
  <2> QED
    BY <1>18, <2>1 DEF Term, Ownership!Next, Ownership!Stop
<1>19. CASE Quit
  BY <1>19, NothingMoves DEF Quit, StayPut
<1>20. ASSUME NEW c \in Conns, ForceAddThread(c) PROVE UNCHANGED Ownership!vars
  BY <1>20, StartsStayPut, NothingMoves DEF ForceAddThread
<1>21. ASSUME NEW t \in Threads, GetNext(t) PROVE [Ownership!Next]_(Ownership!vars)
  <2>1. CASE TakeItem(t)
    BY <1>21, <2>1, TakeMoves DEF GetNext
  <2>2. CASE Goto(t, "idle") /\ UNCHANGED <<work, queueVars>>
    BY <1>21, <2>2, NothingMoves DEF GetNext, StayPut
  <2> QED
    BY <1>21, <2>1, <2>2 DEF GetNext
<1>22. ASSUME NEW t \in Threads, NotifyIdle(t) PROVE UNCHANGED Ownership!vars
  BY <1>22, NothingMoves DEF NotifyIdle, StayPut
<1>23. ASSUME NEW t \in Threads, GetWait(t) PROVE [Ownership!Next]_(Ownership!vars)
  <2>1. CASE TakeItem(t)
    BY <1>23, <2>1, TakeMoves DEF GetWait
  <2>2. CASE Goto(t, IF bExit THEN "next" ELSE "waiting") /\ UNCHANGED <<work, queueVars>>
    BY <1>23, <2>2, NothingMoves DEF GetWait, StayPut
  <2> QED
    BY <1>23, <2>1, <2>2 DEF GetWait
<1>24. ASSUME NEW t \in Threads, AfterWait(t) PROVE [Ownership!Next]_(Ownership!vars)
  <2>1. CASE TakeItem(t)
    BY <1>24, <2>1, TakeMoves DEF AfterWait
  <2>2. CASE Goto(t, "next") /\ UNCHANGED <<work, queueVars>>
    BY <1>24, <2>2, NothingMoves DEF AfterWait, StayPut
  <2> QED
    BY <1>24, <2>1, <2>2 DEF AfterWait
<1>25. ASSUME NEW t \in Threads, SpuriousWakeup(t) PROVE UNCHANGED Ownership!vars
  BY <1>25, NothingMoves DEF SpuriousWakeup, StayPut
<1>26. ASSUME NEW t \in Threads, Serve(t) PROVE Ownership!Next
  <2> DEFINE c == work[t]
  <2> USE DEF Serve
  <2>1. t \in Callers /\ c \in Conns
    BY <1>26 DEF WorkInv, WorkPc, Callers
  <2>2. Stage[c] = "served"
    BY <1>26, <2>1 DEF StagesAre, StageIs, Served, Answered
  <2>3. Stage'[c] = "answered"
    BY <1>26, <2>1, <2>2 DEF StagesAre, StageIs, Served, Answered
  <2>4. \A d \in Conns \ {c} : Stage'[d] = Stage[d]
    <3>1. \A u \in Callers : u # t => pc'[u] = pc[u] /\ work'[u] = work[u]
      BY <1>26
    <3>2. pc'[t] \in {"serve", "notifyDone", "requeue"} => work'[t] = c
      BY <1>26, <2>1
    <3> QED
      BY <1>26, <3>1, <3>2, OthersStay, StageStays DEF Queued
  <2> QED
    BY <1>26, <2>1, <2>2, <2>3, <2>4, OneMoves
<1>27. ASSUME NEW t \in Threads, Defer(t) PROVE Ownership!Next
  <2> DEFINE c == work[t]
  <2> USE DEF Defer
  <2>1. t \in Callers /\ c \in Conns
    BY <1>27 DEF WorkInv, WorkPc, Callers
  <2>2. Stage[c] = "served"
    BY <1>27, <2>1 DEF StagesAre, StageIs, Served, Answered
  <2>3. Stage'[c] = "deferred"
    BY <1>27, <2>1, <2>2 DEF StagesAre, StageIs, Served, Answered
  <2>4. \A d \in Conns \ {c} : Stage'[d] = Stage[d]
    <3>1. \A u \in Callers : u # t => pc'[u] = pc[u] /\ work'[u] = work[u]
      BY <1>27
    <3>2. pc'[t] \in {"serve", "notifyDone", "requeue"} => work'[t] = c
      BY <1>27, <2>1
    <3> QED
      BY <1>27, <3>1, <3>2, OthersStay, StageStays DEF Queued
  <2> QED
    BY <1>27, <2>1, <2>2, <2>3, <2>4, OneMoves
<1>28. ASSUME NEW t \in Callers, NotifyDoneFree(t) PROVE Ownership!Next
  <2> DEFINE c == work[t]
  <2> USE DEF NotifyDoneFree, Free, AfterDone
  <2>1. t \in Callers /\ c \in Conns
    BY <1>28 DEF WorkInv, WorkPc, Callers
  <2>2. Stage[c] = "answered"
    BY <1>28, <2>1 DEF StagesAre, StageIs, Served, Answered
  <2>3. Stage'[c] = "closed"
    <3>1. freed[c] = 0
      BY <1>28, WorkIsUnfreed DEF Working
    <3> QED
      BY <1>28, <2>1, <3>1 DEF StagesAre, StageIs
  <2>4. \A d \in Conns \ {c} : Stage'[d] = Stage[d]
    <3>1. \A u \in Callers : u # t => pc'[u] = pc[u] /\ work'[u] = work[u]
      BY <1>28
    <3>2. pc'[t] \in {"serve", "notifyDone", "requeue"} => work'[t] = c
      BY <1>28, <2>1
    <3> QED
      BY <1>28, <3>1, <3>2, OthersStay, StageStays DEF Queued
  <2> QED
    BY <1>28, <2>1, <2>2, <2>3, <2>4, OneMoves
<1>29. ASSUME NEW t \in Callers, NotifyDoneKeep(t) PROVE UNCHANGED Ownership!vars
  BY <1>29, NothingMoves DEF NotifyDoneKeep, StayPut
<1>30. ASSUME NEW t \in Callers, InsertSocket(t) PROVE Ownership!Next
  <2> DEFINE c == work[t]
  <2> USE DEF InsertSocket
  <2>1. t \in Callers /\ c \in Conns
    BY <1>30 DEF WorkInv, WorkPc, Callers
  <2>2. Stage[c] = "answered"
    BY <1>30, <2>1 DEF StagesAre, StageIs, Served, Answered
  <2>3. Stage'[c] = "idle"
    BY <1>30, <2>1, <2>2 DEF StagesAre, StageIs, Served, Answered
  <2>4. \A d \in Conns \ {c} : Stage'[d] = Stage[d]
    <3>1. \A u \in Callers : u # t => pc'[u] = pc[u] /\ work'[u] = work[u]
      BY <1>30
    <3>2. pc'[t] \in {"serve", "notifyDone", "requeue"} => work'[t] = c
      BY <1>30, <2>1
    <3> QED
      BY <1>30, <3>1, <3>2, OthersStay, StageStays DEF Queued
  <2> QED
    BY <1>30, <2>1, <2>2, <2>3, <2>4, OneMoves
<1>31. ASSUME NEW t \in Callers, NotifyRestart(t) PROVE UNCHANGED Ownership!vars
  BY <1>31, NothingMoves DEF NotifyRestart, AfterDone, StayPut
<1>32. ASSUME NEW t \in Callers, NotifyDoneDangling(t) PROVE UNCHANGED Ownership!vars
  BY <1>32, NothingMoves DEF NotifyDoneDangling, StayPut
<1>33. ASSUME NEW c \in Conns, NotifierReply(c) PROVE Ownership!Next
  <2> USE DEF NotifierReply
  <2>1. Notifier \in Callers /\ pc'[Notifier] = "notifyDone" /\ work'[Notifier] = c
    BY <1>33 DEF Callers
  <2>2. Stage[c] = "deferred"
    BY <1>33 DEF StagesAre, StageIs
  <2>3. Stage'[c] = "answered"
    BY <1>33, <2>1 DEF StagesAre, StageIs, Answered
  <2>4. \A d \in Conns \ {c} : Stage'[d] = Stage[d]
    <3>1. \A u \in Callers : u # Notifier => pc'[u] = pc[u] /\ work'[u] = work[u]
      BY <1>33
    <3> QED
      BY <1>33, <2>1, <3>1, OthersStay, StageStays DEF Queued
  <2> QED
    BY <1>33, <2>2, <2>3, <2>4, OneMoves
<1>34. CASE UNCHANGED vars
  BY <1>34, NothingMoves DEF vars, StayPut
<1>35. ASSUME NEW t \in Threads, NEW d \in Conns, Replace(t, d) PROVE Ownership!Next
  <2> DEFINE c == work[t]
  <2> USE DEF Replace
  <2>1. t \in Callers /\ c \in Conns /\ work'[t] = d /\ pc'[t] = "notifyDone"
    BY <1>35 DEF WorkInv, WorkPc, Callers
  <2>2. Stage[c] = "served" /\ Stage[d] = "deferred"
    BY <1>35, <2>1 DEF StagesAre, StageIs, Served
  <2>3. Stage'[c] = "deferred" /\ Stage'[d] = "answered"
    BY <1>35, <2>1 DEF StagesAre, StageIs, Answered
  <2>4. \A e \in Conns \ {c, d} : Stage'[e] = Stage[e]
    <3>1. \A u \in Callers : u # t => pc'[u] = pc[u] /\ work'[u] = work[u]
      BY <1>35
    <3> QED
      BY <1>35, <2>1, <3>1, OthersStay, StageStays DEF Queued
  <2>5. Stage' = [Stage EXCEPT ![c] = "deferred", ![d] = "answered"]
    BY <1>35, <2>1, <2>2, <2>3, <2>4, StageIsFunction
  <2>6. Ownership!Replace(c, d)
    BY <1>35, <2>2, <2>5 DEF Ownership!Replace
  <2> QED
    BY <2>1, <2>6 DEF Ownership!Next
<1> QED
  BY <1>1, <1>2, <1>3, <1>4, <1>5, <1>6, <1>7, <1>8, <1>9, <1>10, <1>11,
     <1>12, <1>13, <1>14, <1>15, <1>16, <1>17, <1>18, <1>19, <1>20, <1>21,
     <1>22, <1>23, <1>24, <1>25, <1>26, <1>27, <1>28, <1>29, <1>30, <1>31,
     <1>32, <1>33, <1>34, <1>35
     DEF Next, MainThread, WorkerStep, NotifyDone, Terminated

(* Whatever the threads do and however the server stops, each connection     *)
(* lives as ConnectionOwnership says.                                        *)
THEOREM ConnectionsAreOwned == Spec => ImplementsOwnership
<1>1. Init => Ownership!Init
  <2> SUFFICES ASSUME Init PROVE Ownership!Init
    OBVIOUS
  <2>1. \A c \in Conns : Stage[c] = "new"
    BY DEF Init, Stage
  <2> QED
    BY <2>1, StageIsFunction DEF Init, Ownership!Init
<1>2. IInv /\ IInv' /\ [Next]_vars => [Ownership!Next]_(Ownership!vars)
  <2>1. IInv => StagesAre
    BY StagesAreTold
  <2>2. IInv' => StagesAre'
    BY <2>1, PTL
  <2> QED
    BY <2>1, <2>2, StepOwns
<1> QED
  BY <1>1, <1>2, Invariance, PTL DEF Spec, ImplementsOwnership, Ownership!Spec
=============================================================================
