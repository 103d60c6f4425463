----------------------------- MODULE MCStrategy -----------------------------
(***************************************************************************)
(* Two exchanges for Strategy.  Buying at the ask of low and selling at    *)
(* the bid of high makes 0.04 %, above the margin to execute; at the bid   *)
(* of middle 0.02 %, above the margin to trace only.                       *)
(***************************************************************************)
EXTENDS Strategy

CONSTANTS a, b

MCExchanges == <<a, b>>
Low == [bid |-> 9998, ask |-> 10000]
Middle == [bid |-> 10002, ask |-> 10003]
High == [bid |-> 10004, ask |-> 10006]

MCQuotes == {Low, Middle, High}
=============================================================================
