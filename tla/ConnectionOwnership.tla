------------------------- MODULE ConnectionOwnership -------------------------
(***************************************************************************)
(* The life of a connection, as the dispatcher promises it to the code     *)
(* that serves requests (src/provider/server/ECThreadManager.cpp): who     *)
(* may touch a `struct soap' at which stage, who may close it, and that    *)
(* closing it is the end.  How many threads there are, how they wait and   *)
(* in which order they take requests is left to the implementation.        *)
(***************************************************************************)
CONSTANT Conns

VARIABLES
  stage,    \* of each connection
  stopping  \* the server was asked to stop

Stages == {"new",      \* not accepted yet
           "idle",     \* polled, until the client sends a request
           "queued",   \* has a request that no thread has taken
           "served",   \* a thread executes its request
           "deferred", \* its request waits in the notification manager
           "answered", \* its request has an answer, a thread hands it back
           "closed"}

vars == <<stage, stopping>>

Init == stage = [c \in Conns |-> "new"] /\ stopping = FALSE

Move(c, from, to) ==
  /\ stage[c] \in from /\ stage' = [stage EXCEPT ![c] = to]
  /\ UNCHANGED stopping

Poll(c)   == Move(c, {"new", "answered"}, "idle")
Queue(c)  == Move(c, {"idle"}, "queued")
Take(c)   == Move(c, {"queued"}, "served")
Defer(c)  == Move(c, {"served"}, "deferred")
Answer(c) == Move(c, {"served", "deferred"}, "answered")

(* A request is never closed before its answer ... *)
Close(c)  == Move(c, {"new", "idle", "answered"}, "closed")

(* The request on c is deferred in place of that on d, which is answered. *)
Replace(c, d) ==
  /\ stage[c] = "served" /\ stage[d] = "deferred"
  /\ stage' = [stage EXCEPT ![c] = "deferred", ![d] = "answered"]
  /\ UNCHANGED stopping

Stop == stopping' = TRUE /\ UNCHANGED stage

(* ... except that a server that stops closes all that wait at one stage.    *)
CloseAll(waiting) ==
  /\ stopping
  /\ stage' = [c \in Conns |-> IF stage[c] = waiting THEN "closed" ELSE stage[c]]
  /\ UNCHANGED stopping

Next ==
  \/ \E c \in Conns : \/ Poll(c) \/ Queue(c) \/ Take(c) \/ Defer(c)
                      \/ Answer(c) \/ Close(c)
  \/ \E c, d \in Conns : Replace(c, d)
  \/ Stop
  \/ \E waiting \in {"idle", "queued", "deferred"} : CloseAll(waiting)

Spec == Init /\ [][Next]_vars
=============================================================================
