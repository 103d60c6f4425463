------------------------ MODULE OpportunityLifecycle ------------------------
(***************************************************************************)
(* What the order manager promises of an accepted opportunity, without     *)
(* timers, threads or ids: two legs, one outcome.                          *)
(*                                                                         *)
(*   - both legs are placed together, at most once;                        *)
(*   - a placed leg only moves between NEW, EXECUTED and CANCELLED, and    *)
(*     never returns to NEW;                                               *)
(*   - the outcome is EXECUTED_AS_PLANNED only when both legs are          *)
(*     executed, and is then final: neither it nor the legs change again;  *)
(*   - it is CANCELLED only on a leg that was cancelled, and               *)
(*     EXECUTION_TIMEOUT only when a leg has left NEW and before it is     *)
(*     executed as planned.                                                *)
(*                                                                         *)
(* OrderManager implements this specification (its property Lifecycle).    *)
(***************************************************************************)
CONSTANT Opps

VARIABLES
  legs,     \* the states of the two orders of each opportunity
  outcome   \* the state of each opportunity

vars == <<legs, outcome>>

Leg == {"buy", "sell"}
BothLegs(s) == [l \in Leg |-> s]
Planned(o) == outcome[o] = "EXECUTED_AS_PLANNED"

Init ==
  /\ legs = [o \in Opps |-> BothLegs("NONE")]
  /\ outcome = [o \in Opps |-> "ACCEPTED"]

(* Both orders come into being in one step. *)
Place(o) ==
  /\ legs[o] = BothLegs("NONE")
  /\ legs' = [legs EXCEPT ![o] = BothLegs("NEW")]
  /\ UNCHANGED outcome

(* A placed leg of an opportunity that is not settled is executed. *)
Fill(o, l) ==
  /\ legs[o][l] # "NONE"
  /\ ~Planned(o)
  /\ legs' = [legs EXCEPT ![o][l] = "EXECUTED"]
  /\ UNCHANGED outcome

(* A placed leg of an opportunity that is not settled is cancelled. *)
Cancel(o, l) ==
  /\ legs[o][l] # "NONE"
  /\ ~Planned(o)
  /\ legs' = [legs EXCEPT ![o][l] = "CANCELLED"]
  /\ UNCHANGED outcome

(* A report on leg l: it is executed, and the opportunity is judged on     *)
(* both legs as they then are.                                             *)
Report(o, l) ==
  LET now == [legs[o] EXCEPT ![l] = "EXECUTED"]
  IN  /\ legs[o][l] # "NONE"
      /\ ~Planned(o)
      /\ legs' = [legs EXCEPT ![o] = now]
      /\ \/ /\ now = BothLegs("EXECUTED")
            /\ outcome' = [outcome EXCEPT ![o] = "EXECUTED_AS_PLANNED"]
         \/ /\ \E k \in Leg : now[k] = "CANCELLED"
            /\ outcome' = [outcome EXCEPT ![o] = "CANCELLED"]
         \/ /\ \E k \in Leg : now[k] = "NEW"
            /\ UNCHANGED outcome

(* Time was up when a leg had left NEW; the other may have since.          *)
TimeOut(o) ==
  /\ ~Planned(o)
  /\ \E l \in Leg : legs[o][l] \notin {"NONE", "NEW"}
  /\ outcome' = [outcome EXCEPT ![o] = "EXECUTION_TIMEOUT"]
  /\ UNCHANGED legs

Next ==
  \E o \in Opps :
    \/ Place(o)
    \/ TimeOut(o)
    \/ \E l \in Leg : Fill(o, l) \/ Cancel(o, l) \/ Report(o, l)

Spec == Init /\ [][Next]_vars
=============================================================================
