----------------------------- MODULE MCAuction ------------------------------
(***************************************************************************)
(* An instance of the call auction for model checking: prices on and off   *)
(* the grid of candidates, market orders, and late time stamps.            *)
(***************************************************************************)
EXTENDS CallAuction

Mk(side, price, quantity, since) == [side |-> side, price |-> price, quantity |-> quantity, filled |-> 0, since |-> since]

AuctionTickets ==
  {Mk(side, p, q, 1) : side \in {"BUY", "SELL"}, p \in {NoPrice, 3, 6, 9}, q \in {1, 2}}
  \cup {Mk(side, p, 1, 0) : side \in {"BUY", "SELL"}, p \in {5, 6}}

=============================================================================
