------------------------------ MODULE MCRouter ------------------------------
(***************************************************************************)
(* An instance of the router for model checking: three venues, a rebate,   *)
(* fees that reverse the order of raw prices, deep and shallow books.      *)
(***************************************************************************)
EXTENDS Router

ThreeVenues == <<"v1", "v2", "v3">>

Makers == [v \in {"v1", "v2", "v3"} |-> CASE v = "v1" -> 0 [] v = "v2" -> -1 [] OTHER -> 1]

Takers == [v \in {"v1", "v2", "v3"} |-> CASE v = "v1" -> 2 [] v = "v2" -> 150 [] OTHER -> 40]

Lv(price, volume) == [price |-> price, volume |-> volume]

Snap(bids, asks) == [bids |-> bids, asks |-> asks, seen |-> TRUE]

SomeSnapshots ==
  {Snap(<<>>, <<>>),
   Snap(<<Lv(99, 3)>>, <<Lv(101, 2)>>),
   Snap(<<Lv(98, 2), Lv(97, 4)>>, <<Lv(100, 1), Lv(102, 5)>>),
   Snap(<<Lv(99, 9)>>, <<Lv(101, 4), Lv(102, 1)>>)}

Order(side, type, price, quantity) == [side |-> side, type |-> type, price |-> price, quantity |-> quantity]

SomeParents ==
  {Order("BUY", "MARKET", 0, q) : q \in {2, 7}}
  \cup {Order("SELL", "LIMIT", 98, q) : q \in {1, 5}}
  \cup {Order("BUY", "LIMIT", 101, 5), Order("BUY", "POST_ONLY", 98, 10)}

=============================================================================
