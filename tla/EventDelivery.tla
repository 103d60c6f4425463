--------------------------- MODULE EventDelivery ---------------------------
(***************************************************************************)
(* What an event loop promises: posted events are handled one at a time,   *)
(* each at most once, in the order they were posted, none lost; while the  *)
(* loop is on, it gets round to the next one.  No threads, no mutex, no    *)
(* condition variable.                                                     *)
(***************************************************************************)
EXTENDS Naturals, Sequences

VARIABLES
  on,        \* the loop accepts to handle events
  pending,   \* posted and not handled, oldest first
  handled    \* how many were handled

vars == <<on, pending, handled>>

Init == on = FALSE /\ pending = <<>> /\ handled = 0

(* The n-th event posted is event n. *)
Post ==
  /\ pending' = Append(pending, handled + Len(pending) + 1)
  /\ UNCHANGED <<on, handled>>

(* An event that the loop had in hand when it was turned off is finished.  *)
Handle ==
  /\ pending # <<>>
  /\ Head(pending) = handled + 1
  /\ handled' = handled + 1
  /\ pending' = Tail(pending)
  /\ UNCHANGED on

Turn == on' = ~on /\ UNCHANGED <<pending, handled>>

Next == Post \/ Handle \/ Turn

Spec == Init /\ [][Next]_vars /\ WF_vars(on /\ Handle)
=============================================================================
