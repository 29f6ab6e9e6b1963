---------------------------- MODULE StopManager -----------------------------
(***************************************************************************)
(* Conditional orders, zerene/engine/stop_manager.py, as a value:          *)
(*   heap   the orders pushed on buy_stops and sell_stops and not popped   *)
(*   map    order_map: the waiting order known under each order_id         *)
(* A heap is only ever popped at its least element, so a set and its       *)
(* minimum stand for it.  Cancelling leaves the heap alone (lazy deletion).*)
(***************************************************************************)
EXTENDS OrderBook

Stops == [heap : [Side -> SUBSET Uid], map : [OrderId -> Uid \cup {None}]]

NoStops == [heap |-> [s \in Side |-> {}], map |-> [i \in OrderId |-> None]]

IsStop(o) == o.type \in {"STOP", "STOP_LIMIT"}

AddStop(stops, o, u) ==
  [heap |-> [stops.heap EXCEPT ![o.side] = @ \cup {u}],
   map |-> [stops.map EXCEPT ![o.oid] = u]]

ForgetStop(stops, oid) == [stops EXCEPT !.map[oid] = None]

(* The trigger condition of check_triggers.                                *)
Reached(o, last) == IF o.side = "BUY" THEN o.stop_price <= last ELSE last <= o.stop_price

(* (stop_price, timestamp) order of buy_stops, (-stop_price, timestamp) of *)
(* sell_stops; orders that tie on both may come off in either order.       *)
Precedes(o, p) ==
  \/ o.stop_price = p.stop_price /\ o.timestamp < p.timestamp
  \/ IF o.side = "BUY" THEN o.stop_price < p.stop_price ELSE p.stop_price < o.stop_price

IsHeapTop(stops, order, u) ==
  LET h == stops.heap[order[u].side]
  IN  u \in h /\ \A v \in h : ~Precedes(order[v], order[u])

Due(stops, order, side, last) == {u \in stops.heap[side] : Reached(order[u], last)}

(* Fault: a triggered order stays in order_map.                            *)
PopStopKeepsMap(stops, o, u) == [stops EXCEPT !.heap[o.side] = @ \ {u}]

(* Fault: the heap is peeked, not popped.                                  *)
PeekStop(stops, o, u) == [stops EXCEPT !.map[o.oid] = None]

PopStop(stops, o, u) ==
  [heap |-> [stops.heap EXCEPT ![o.side] = @ \ {u}],
   map |-> [stops.map EXCEPT ![o.oid] = None]]

(* What a triggered order turns into.                                      *)
Triggered(o, now) ==
  [o EXCEPT !.status = "TRIGGERED", !.timestamp = now,
            !.type = CASE o.type = "STOP" -> "MARKET"
                       [] o.type = "STOP_LIMIT" -> "LIMIT"
                       [] OTHER -> o.type]

=============================================================================
