------------------------------ MODULE Session ------------------------------
(***************************************************************************)
(* What the connection of one exchange promises to those who open and      *)
(* close it: handlers run on one thread, which is there from the opening   *)
(* until the closing is over and ends between two handlers.  How it is     *)
(* stopped and waited for is left out.                                     *)
(***************************************************************************)
VARIABLES
  phase,   \* "closed", "open", "closing"
  thread   \* "none", "waiting", "working": inside a handler

vars == <<phase, thread>>

Init == phase = "closed" /\ thread = "none"

Open ==
  /\ phase = "closed" /\ thread = "none"
  /\ phase' = "open" /\ thread' = "waiting"

Work ==
  /\ phase # "closed" /\ thread = "waiting"
  /\ thread' = "working"
  /\ UNCHANGED phase

Rest ==
  /\ thread = "working"
  /\ thread' = "waiting"
  /\ UNCHANGED phase

Close ==
  /\ phase = "open"
  /\ phase' = "closing"
  /\ UNCHANGED thread

End ==
  /\ phase = "closing" /\ thread = "waiting"
  /\ thread' = "none"
  /\ UNCHANGED phase

Closed ==
  /\ phase = "closing" /\ thread = "none"
  /\ phase' = "closed"
  /\ UNCHANGED thread

Next == Open \/ Work \/ Rest \/ Close \/ End \/ Closed

Spec == Init /\ [][Next]_vars
=============================================================================
