----------------------------- MODULE AtomicImport ------------------------------
(* What importMessageFromStream promises (provider/libserver/ZarafaCmd.cpp):   *)
(* the message is replaced as a whole or not at all, the client is told which, *)
(* and nothing changes after that. What it does not promise is the attachment  *)
(* files of the old message: they are removed before the database commits, so  *)
(* that the old message can be left without them.                              *)
CONSTANTS None

VARIABLES
    message,    \* what a reader finds: old, damaged (old, without files) or new
    answer      \* what the client was told: None, ok or error

vars == <<message, answer>>

Init == message = "old" /\ answer = None

Damage == /\ answer = None
          /\ message = "old" /\ message' = "damaged"
          /\ UNCHANGED answer

Replace == /\ answer = None
           /\ message \in {"old", "damaged"} /\ message' = "new"
           /\ UNCHANGED answer

Succeed == /\ answer = None
           /\ message = "new" /\ answer' = "ok"
           /\ UNCHANGED message

Refuse == /\ answer = None
          /\ message \in {"old", "damaged"} /\ answer' = "error"
          /\ UNCHANGED message

Next == Damage \/ Replace \/ Succeed \/ Refuse

Spec == Init /\ [][Next]_vars
================================================================================
