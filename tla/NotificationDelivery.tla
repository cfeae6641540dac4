------------------------- MODULE NotificationDelivery -------------------------
(***************************************************************************)
(* What the notification manager and a session group promise to clients    *)
(* (src/provider/libserver/ECNotificationManager.cpp): the notifications   *)
(* of a group go into answers in the order of sending, each into one; what *)
(* is collected for a request is sent to that client; a request gets one   *)
(* answer.  How requests are parked, sessions marked and threads woken is  *)
(* left to the implementation.                                             *)
(***************************************************************************)
EXTENDS Integers, Sequences

CONSTANTS Sids, Conns, None

VARIABLES
  live,      \* the sessions of the group that have not ended
  asked,     \* the session a client waits for on its connection
  preparing, \* the request that is being answered
  sent,      \* number of notifications sent to the group
  pending,   \* those that are not in an answer yet
  delivered, \* those that are
  gone       \* connections that are closed

vars == <<live, asked, preparing, sent, pending, delivered, gone>>

Init ==
  /\ live = Sids /\ asked = [c \in Conns |-> None] /\ preparing = None
  /\ sent = 0 /\ pending = <<>> /\ delivered = <<>> /\ gone = {}

Ask(c, s) ==
  /\ asked[c] = None /\ c \notin gone /\ asked' = [asked EXCEPT ![c] = s]
  /\ UNCHANGED <<live, preparing, sent, pending, delivered, gone>>

Send ==
  /\ sent' = sent + 1 /\ pending' = Append(pending, sent + 1)
  /\ UNCHANGED <<live, asked, preparing, delivered, gone>>

(* An answer has all there is; only if the session has ended it may have     *)
(* nothing, although there is something.                                     *)
Prepare(c) ==
  /\ preparing = None /\ asked[c] # None /\ preparing' = c
  /\ \/ delivered' = delivered \o pending /\ pending' = <<>>
     \/ asked[c] \notin live /\ UNCHANGED <<delivered, pending>>
  /\ UNCHANGED <<live, asked, sent, gone>>

(* The client on c has its answer; the connection may not survive that.      *)
Answered(c) ==
  /\ asked[c] # None /\ asked' = [asked EXCEPT ![c] = None]
  /\ gone' = gone \/ gone' = gone \cup {c}

Answer(c) ==
  /\ preparing = c /\ preparing' = None /\ Answered(c)
  /\ UNCHANGED <<live, sent, pending, delivered>>

(* A request that is not being answered gives way to a later one.            *)
Displace(c) ==
  /\ preparing # c /\ \E d \in Conns \ {c} : asked[d] = asked[c]
  /\ Answered(c)
  /\ UNCHANGED <<live, preparing, sent, pending, delivered>>

(* Sessions end; what is pending is dropped only when the last one has.      *)
End(S) ==
  /\ live' = live \ S
  /\ pending' = pending \/ (live' = {} /\ pending' = <<>>)
  /\ UNCHANGED <<asked, preparing, sent, delivered, gone>>

(* The server exits: whoever still waits finds its connection closed.        *)
Exit ==
  /\ live = {} /\ preparing = None
  /\ gone' = gone \cup {c \in Conns : asked[c] # None}
  /\ asked' = [c \in Conns |-> None]
  /\ UNCHANGED <<live, preparing, sent, pending, delivered>>

Next ==
  \/ \E c \in Conns, s \in Sids : Ask(c, s)
  \/ \E c \in Conns : Prepare(c) \/ Answer(c) \/ Displace(c)
  \/ Send \/ Exit \/ \E S \in SUBSET Sids : End(S)

Spec == Init /\ [][Next]_vars
=============================================================================
