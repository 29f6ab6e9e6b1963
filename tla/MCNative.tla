------------------------------ MODULE MCNative ------------------------------
(***************************************************************************)
(* Instances of the C++ core: four ticks, the middle ones in the arena.    *)
(***************************************************************************)
EXTENDS NativeEngine

Mk(side, type, price, quantity) == [side |-> side, type |-> type, price |-> price, quantity |-> quantity]

Middle == {2, 3}
Ticks == {2, 3, 4}

NativeTickets ==
  {Mk("BUY", "LIMIT", 2, 2), Mk("SELL", "LIMIT", 3, 2),
   Mk("BUY", "MARKET", 0, 2), Mk("SELL", "IOC", 2, 2), Mk("BUY", "LIMIT", 4, 1)}

SomeAmendments == {[price |-> 2, quantity |-> 1], [price |-> 3, quantity |-> 3]}

=============================================================================
