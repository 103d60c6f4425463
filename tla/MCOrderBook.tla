---------------------------- MODULE MCOrderBook ----------------------------
(***************************************************************************)
(* Small inputs for OrderBook.  The bids bring every case of the merge: a  *)
(* level before, between and after two others, one that overrides, one     *)
(* that removes (quantity 0) and one to skip (quantity -1).  The asks,     *)
(* which run through the same code in the other order, bring fewer, and a  *)
(* price of 0.  No price occurs twice in one list.                         *)
(***************************************************************************)
EXTENDS OrderBook

At(price, qty) == [price |-> price, qty |-> qty]
Lists(levels) == {list \in BoundedSeq(levels, 2) : IsListOfLevels(list)}

MCBidLists == Lists({At(1, 1), At(2, 0), At(2, 1), At(2, 2), At(2, -1), At(3, 1)})
MCAskLists == {<<>>, <<At(0, 1), At(1, 1)>>, <<At(1, 0)>>,
               <<At(2, 1), At(1, 1)>>, <<At(1, 1), At(3, 1)>>}
MCQuotes == {At(1, 1), At(2, 1)}
=============================================================================
