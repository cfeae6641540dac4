----------------------------- MODULE SessionLife -----------------------------
(***************************************************************************)
(* The life of a session, as session management promises it to the code    *)
(* that executes requests (src/provider/libserver/ECSessionManager.h): a   *)
(* session is used only while it is registered, is removed once, and is    *)
(* not freed before its last user is done; one whose users do not end is   *)
(* given up and never freed.  How users are counted, who removes a session *)
(* and what becomes of its group is left to the implementation.            *)
(***************************************************************************)
CONSTANTS Sids, Procs

VARIABLES
  stage,    \* of each session
  users,    \* the threads that use it
  accepting \* requests are executed

Stages == {"none", "starting", "open", "ending", "freed", "leaked"}

vars == <<stage, users, accepting>>

Init ==
  /\ stage = [s \in Sids |-> "none"] /\ users = [s \in Sids |-> {}]
  /\ accepting = TRUE

Move(s, from, to) == stage[s] = from /\ stage' = [stage EXCEPT ![s] = to]

(* A client logs on: its session is created, and registered or dropped.      *)
Create(s) == accepting /\ Move(s, "none", "starting") /\ UNCHANGED <<users, accepting>>

(* A thread uses one session at a time. *)
Enter(s, p) ==
  /\ \A u \in Sids : p \notin users[u]
  /\ users' = [users EXCEPT ![s] = @ \cup {p}]

Register(s, p) == Enter(s, p) /\ Move(s, "starting", "open") /\ UNCHANGED accepting

Drop(s) == Move(s, "starting", "ending") /\ UNCHANGED <<users, accepting>>

Use(s, p) ==
  accepting /\ stage[s] = "open" /\ Enter(s, p) /\ UNCHANGED <<stage, accepting>>

Leave(s, p) ==
  /\ p \in users[s] /\ users' = [users EXCEPT ![s] = @ \ {p}]
  /\ UNCHANGED <<stage, accepting>>

Ended(S) ==
  /\ \A s \in S : stage[s] = "open"
  /\ stage' = [s \in Sids |-> IF s \in S THEN "ending" ELSE stage[s]]

(* Sessions are removed, by a logoff, after their timeout or at the exit.    *)
End(S) == Ended(S) /\ UNCHANGED <<users, accepting>>

Free(s) == users[s] = {} /\ Move(s, "ending", "freed") /\ UNCHANGED <<users, accepting>>

GiveUp(s) == users[s] # {} /\ Move(s, "ending", "leaked") /\ UNCHANGED <<users, accepting>>

(* No request is under way when the server exits, and none begins after.     *)
Exit ==
  /\ \A s \in Sids : users[s] = {} /\ stage[s] # "starting"
  /\ Ended({s \in Sids : stage[s] = "open"})
  /\ accepting' = FALSE /\ UNCHANGED users

Next ==
  \/ \E s \in Sids : \/ Create(s) \/ Drop(s) \/ Free(s) \/ GiveUp(s)
                     \/ \E p \in Procs : Register(s, p) \/ Use(s, p) \/ Leave(s, p)
  \/ \E S \in SUBSET Sids : End(S)
  \/ Exit

Spec == Init /\ [][Next]_vars
=============================================================================
