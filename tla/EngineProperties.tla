-------------------------- MODULE EngineProperties --------------------------
(***************************************************************************)
(* What the matching engine should guarantee.  Each property says which    *)
(* code behaviour it is about; the runs check them on the participants     *)
(* they concern (see README).                                              *)
(***************************************************************************)
EXTENDS MatchingEngine, SequencesExt

(* Type invariant: every variable stays within the values its Python       *)
(* counterpart can hold (zerene/engine/matching_engine.py, __init__).      *)
TypeOK ==
  /\ order \in [Uid -> Order]
  /\ next_id \in 0 .. MaxOrders
  /\ clock \in 0 .. MaxClock
  /\ book \in Book
  /\ stops \in Stops
  /\ pending \in Seq(Uid)
  /\ pc \in {"idle", "loop", "match", "residual", "trigger", "sweep_book", "sweep_stops"}
  /\ cur \in Uid \cup {None}
  /\ traded \in BOOLEAN
  /\ last \in Tick \cup {NoPrice}
  /\ trades \in Seq(Trade)
  /\ sweep \in Sweep

-----------------------------------------------------------------------------
(* Helpers: sums over trades and orders, and the places of the book.       *)

RestingLots(side, t) ==
  SumFunctionOnSet([u \in Uid |-> Remaining(order[u])], RestingAt(book, side, t))

ShownLots(side, t) == SumFunctionOnSet([u \in Uid |-> order[u].display], RestingAt(book, side, t))

HiddenLots(side, t) == SumFunctionOnSet([u \in Uid |-> order[u].hidden], RestingAt(book, side, t))

LotsTraded(u) ==
  SumFunctionOnSet([i \in 1 .. Len(trades) |-> trades[i].quantity],
                   {i \in 1 .. Len(trades) : u \in {trades[i].maker, trades[i].taker}})

Places == Side \X Tick

Ended(o) == o.status \in {"FILLED", "CANCELED", "REJECTED"}

-----------------------------------------------------------------------------
(* Between calls no bid stands at or above an ask: what could trade has    *)
(* traded (RFC-001 2.2; _match runs before insert_order).                  *)
BookUncrossed ==
  pc = "idle" => \A b \in book.live["BUY"], a \in book.live["SELL"] : b < a

(* order_map and the queues name the same orders, an order stands in one   *)
(* queue once, at its own side and tick, and a level exists exactly while  *)
(* somebody queues there.  Cancelling, matching and modifying all rely on  *)
(* it to find the order (book.py remove_order, modify_order).              *)
BookIndexed ==
  /\ {book.map[i] : i \in OrderId} \ {None} = Resting(book)
  /\ \A i \in OrderId : book.map[i] # None => order[book.map[i]].oid = i
  /\ \A x \in Places : \A u \in RestingAt(book, x[1], x[2]) :
        order[u].side = x[1] /\ TicksOf(order[u].price) = x[2]
  /\ \A x \in Places : IsInjective(book.level[x[1]][x[2]].queue)
  /\ \A x \in Places : ~(pc = "match" /\ x[1] = Contra) =>
        (x[2] \in book.live[x[1]] <=> book.level[x[1]][x[2]].queue # << >>)

(* A level's volumes are the sums over its queue, through fills, cancels,  *)
(* replenishments and modifications (level.py; RFC-002 2.2).  If they were *)
(* larger, a level with nobody left would not count as empty (is_empty).   *)
VolumesAddUp ==
  \A x \in Places :
     /\ book.level[x[1]][x[2]].total = ShownLots(x[1], x[2])
     /\ book.level[x[1]][x[2]].hidden = HiddenLots(x[1], x[2])

(* Modifying may leave a level's volumes below those sums (modify_order    *)
(* does not raise the display of an enlarged order), but never above: a    *)
(* level with nobody left counts as empty and _match always gets past it.  *)
VolumesNeverExceed ==
  \A x \in Places :
     /\ book.level[x[1]][x[2]].total <= ShownLots(x[1], x[2])
     /\ book.level[x[1]][x[2]].hidden <= HiddenLots(x[1], x[2])

(* A level never shows less than its orders can still trade: the FOK check *)
(* (_can_fill_completely) never refuses an order the book could fill.      *)
VolumesCoverRemaining ==
  \A x \in Places : VolumeAt(book, x[1], {x[2]}) >= RestingLots(x[1], x[2])

(* No order fills beyond its quantity, whatever _match charges to it and   *)
(* however modify_order lowers the quantity meanwhile.                     *)
FilledWithinQuantity == \A u \in Uid : order[u].filled <= order[u].quantity

(* What an order has filled is what the trades it is part of add up to     *)
(* (_match, trade_history).                                                *)
FillsAreTrades == \A u \in Uid : order[u].filled = LotsTraded(u)

(* A trade's price honours the limit that either of its orders has at that *)
(* moment, of modified orders the new one (RFC-001 4.2).                   *)
WithinLimit(u, p) ==
  order[u].price # NoPrice /\ order[u].type # "MARKET" => PriceReaches(order[u], p)

NewTradeWithin ==
  Len(trades') > Len(trades) =>
     LET t == trades'[Len(trades')]
     IN  WithinLimit(t.maker, t.price) /\ WithinLimit(t.taker, t.price)

TradesWithinLimits == [][NewTradeWithin]_vars

(* Price-time priority (RFC-001 2.2) and the priority rules of modify_order *)
(* (RFC-001 3.1): what rests on the book, seen without levels and queues,  *)
(* only changes as PriceTimeBook allows: each execution takes from an      *)
(* order that none precedes in price and timestamp, and an order that is   *)
(* amended where it rests loses its time for another price or more lots,   *)
(* and never for fewer lots at its price.                                  *)
RestingView ==
  [u \in Resting(book) |->
     [side |-> order[u].side, price |-> order[u].price, tick |-> TicksOf(order[u].price),
      since |-> order[u].timestamp, left |-> Remaining(order[u])]]

PriceTime == INSTANCE PriceTimeBook
               WITH Orders <- Uid, resting <- RestingView, executions <- Len(trades)

PriceTimePriority == PriceTime!Spec

-----------------------------------------------------------------------------
(* Fill-or-kill (RFC-001 4.4).                                             *)

(* A fill-or-kill order that no other check turns away is refused only     *)
(* when the orders within its limit really have fewer lots than it wants   *)
(* (_can_fill_completely).                                                 *)
TradableFor(o) ==
  SumFunctionOnSet([t \in Tick |-> RestingLots(Opposite(o.side), t)], EligibleTicks(o))

RefusedAnyway(o) == IsInvalid(o) \/ IsStop(o) \/ PostOnlyFails(o)

FokRefusedOnlyIfShort ==
  [][\A u \in Uid : IsFok(order[u]) /\ ~RefusedAnyway(order[u])
                     /\ order[u].status # "REJECTED" /\ order'[u].status = "REJECTED"
        => TradableFor(order[u]) < order[u].quantity]_vars

-----------------------------------------------------------------------------
(* Cancelled, conditional and self-trading orders.                         *)

Waiting == {stops.map[i] : i \in OrderId} \ {None}

(* An order that has ended fills no further: not by a stale heap entry, a  *)
(* stale queue entry or a second processing (README 1, "zombie fills").    *)
NoZombieFills ==
  [][\A u \in Uid : Ended(order[u]) => order'[u].filled = order[u].filled]_vars

(* A cancelled conditional order never comes back, although its entry is   *)
(* still on the heap (StopManager.cancel_order, "lazy deletion").          *)
CanceledNeverTriggers ==
  [][\A u \in Uid : order[u].status = "CANCELED" => order'[u].status # "TRIGGERED"]_vars

(* An order is in one place: pending, being matched, resting, or waiting   *)
(* for its stop price (process_order, check_triggers, insert_order).       *)
OnePlace ==
  /\ IsInjective(pending)
  /\ ToSet(pending) \cap (Resting(book) \cup Waiting) = {}
  /\ Resting(book) \cap Waiting = {}
  /\ pc = "match" => cur \notin ToSet(pending) \cup Resting(book) \cup Waiting

(* Between calls a waiting stop whose price is reached arrived after the   *)
(* last trade: every earlier one was triggered, through whole cascades     *)
(* (check_triggers after each order that traded).                          *)
DueStopsAreNew ==
  pc = "idle" /\ trades # << >> =>
     \A u \in Waiting : Reached(order[u], last) =>
        order[u].timestamp > Last(trades).timestamp

(* A trade between two orders of one participant happens only when neither *)
(* asked for self-trade prevention (_match, STP check).                    *)
NoPreventableSelfTrade ==
  \A i \in 1 .. Len(trades) :
     LET m == order[trades[i].maker]
         t == order[trades[i].taker]
     IN  m.owner = t.owner /\ m.owner \notin {"", "DEFAULT"} => m.stp = "NONE" /\ t.stp = "NONE"

(* When cancel_all_for_participant returns, the participant has nothing    *)
(* resting and nothing waiting (the kill switch relies on it).             *)
SweepLeavesNothing ==
  [][pc = "sweep_stops" /\ pc' = "idle" =>
       \A u \in Resting(book) \cup Waiting : order[u].owner # sweep.owner]_vars

-----------------------------------------------------------------------------
(* Every call returns: the loops of process_order, _match, check_triggers  *)
(* and cancel_all_for_participant end.                                     *)
CallsReturn == pc # "idle" ~> pc = "idle"

-----------------------------------------------------------------------------
(* Inductive invariant.                                                    *)

KnownOrders(orders, n, side) == {u \in 1 .. n : orders[u].side = side}

OrdersOK(orders) ==
  /\ orders \in [Uid -> Order]
  /\ \A u \in Uid : orders[u].filled <= orders[u].quantity

BookOK(b, orders, n) ==
  /\ b \in Book
  /\ \A s \in Side, t \in Tick : b.level[s][t].queue \in Seq(KnownOrders(orders, n, s))
  /\ \A i \in OrderId : b.map[i] \in 0 .. n

StopsOK(st, n) ==
  /\ st \in Stops
  /\ \A s \in Side : st.heap[s] \subseteq 1 .. n
  /\ \A i \in OrderId : st.map[i] \in 0 .. n

(* Whatever stands in a queue is an order that has been submitted, on the  *)
(* queue's side, so the maker _match takes from the head is never cur      *)
(* itself; and a call that matches has an order to match.  This keeps the  *)
(* fills within the quantities, and everything within its type.            *)
EngineInv ==
  /\ next_id \in 0 .. MaxOrders
  /\ clock \in 0 .. MaxClock
  /\ OrdersOK(order)
  /\ BookOK(book, order, next_id)
  /\ StopsOK(stops, next_id)
  /\ pending \in Seq(1 .. next_id)
  /\ pc \in {"idle", "loop", "match", "residual", "trigger", "sweep_book", "sweep_stops"}
  /\ cur \in 0 .. next_id
  /\ pc \in {"match", "residual", "trigger"} => cur # None
  /\ traded \in BOOLEAN
  /\ last \in Tick \cup {NoPrice}
  /\ trades \in Seq(Trade)
  /\ sweep \in Sweep

=============================================================================
