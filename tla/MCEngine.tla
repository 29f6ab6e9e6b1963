------------------------------ MODULE MCEngine ------------------------------
(***************************************************************************)
(* Instances of the matching engine for model checking.  An order is given *)
(* by the few fields that matter to a run; Mk fills in the others.         *)
(***************************************************************************)
EXTENDS EngineProperties

Mk(side, type, price, quantity) ==
  [side |-> side, type |-> type, tif |-> "GTC", stp |-> "NONE", owner |-> "m1",
   price |-> price, quantity |-> quantity, display |-> 0, stop_price |-> NoPrice]

With(tk, owner, stp) == [tk EXCEPT !.owner = owner, !.stp = stp]

Stop(side, type, price, quantity, stop) == [Mk(side, type, price, quantity) EXCEPT !.stop_price = stop]

Fok(side, type, price, quantity) == [Mk(side, type, price, quantity) EXCEPT !.tif = "FOK"]

Iceberg(side, price, quantity, display) ==
  [Mk(side, "ICEBERG", price, quantity) EXCEPT !.display = display]

UniqueIds == [u \in 1 .. MaxOrders |-> u]

TwoTicks == {1, 2}

NoAmendments == {}

(* Every order type but the conditional ones, at two prices: limit,        *)
(* post-only, market and IOC; icebergs and hidden orders; fill-or-kill by  *)
(* type and by time in force; a quantity that is refused.                  *)
BookTickets ==
  {Mk("SELL", "LIMIT", 1, 2), Mk("SELL", "LIMIT", 2, 1), Mk("SELL", "POST_ONLY", 1, 1), Mk("SELL", "IOC", 2, 2),
   Mk("BUY", "LIMIT", 1, 1), Mk("BUY", "LIMIT", 2, 2), Mk("BUY", "MARKET", NoPrice, 3),
   Iceberg("SELL", 1, 3, 1), Mk("SELL", "HIDDEN", 2, 2), Iceberg("BUY", 2, 2, 1),
   Mk("BUY", "FOK", 2, 3), Fok("BUY", "LIMIT", 1, 2), Fok("SELL", "MARKET", NoPrice, 2),
   Mk("BUY", "LIMIT", 2, 0)}

(* Stops and stop-limits on both sides, and what moves the price.          *)
ThreeTicks == {1, 2, 3}

StopTickets ==
  {Mk("SELL", "LIMIT", 2, 1), Mk("SELL", "LIMIT", 3, 1), Mk("BUY", "LIMIT", 1, 1),
   Mk("BUY", "MARKET", NoPrice, 2), Mk("SELL", "MARKET", NoPrice, 1),
   Stop("BUY", "STOP", NoPrice, 1, 2), Stop("SELL", "STOP", NoPrice, 1, 2),
   Stop("BUY", "STOP_LIMIT", 2, 2, 3), Stop("BUY", "STOP", NoPrice, 1, NoPrice)}

Am(price, quantity) == [price |-> price, quantity |-> quantity]

SomeAmendments == {Am(NoPrice, 1), Am(NoPrice, 3), Am(1, 2)}

(* Cancel-replace of resting limit orders, by two participants, one of     *)
(* them with self-trade prevention, and a stop that a sweep takes along.   *)
AmendTickets ==
  {With(Mk("SELL", "LIMIT", 2, 2), "a", "NONE"), With(Mk("SELL", "LIMIT", 1, 1), "b", "NONE"),
   With(Mk("BUY", "LIMIT", 1, 2), "a", "CANCEL_OLDEST"), With(Mk("BUY", "POST_ONLY", 1, 1), "b", "NONE"),
   With(Mk("SELL", "LIMIT", 1, 2), "a", "DECREMENT_AND_CANCEL"),
   With(Mk("SELL", "IOC", 1, 1), "a", "CANCEL_NEWEST"), With(Stop("SELL", "STOP", NoPrice, 1, 1), "a", "NONE")}

(* Icebergs among plain orders.                                            *)
IcebergTickets ==
  {Iceberg("SELL", 1, 3, 1), Mk("SELL", "LIMIT", 1, 1), Mk("SELL", "LIMIT", 2, 1),
   Mk("BUY", "LIMIT", 1, 1), Mk("BUY", "MARKET", NoPrice, 3)}

=============================================================================
