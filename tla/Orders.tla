------------------------------- MODULE Orders -------------------------------
(***************************************************************************)
(* The Order object of zerene/models.py and the values it is made of.      *)
(*                                                                         *)
(* Quantities are whole lots (the code's floats are compared with a        *)
(* tolerance of 1e-9, which is 0 here).  A price is a number; the tick of  *)
(* a price, int(round(price * 10000)) in the code, is identified with the  *)
(* price it stands for, so Tick is a subset of Price and an order whose    *)
(* price is off the grid is the interesting case.  An Order object is      *)
(* known by its internal_id (Uid); its order_id is what clients use.       *)
(***************************************************************************)
EXTENDS Integers, Sequences

CONSTANTS
  MaxOrders,  (* bound: Order objects created in a behaviour              *)
  OrderId,    (* client-visible order ids                                 *)
  Owner,      (* owner_id values                                          *)
  Price,      (* limit and stop prices that participants use              *)
  Tick        (* the prices that lie on the tick grid                     *)

Distance(p, q) == IF p <= q THEN q - p ELSE p - q

IsNearest(t, p) == \A s \in Tick : Distance(t, p) <= Distance(s, p)

ASSUME BoundAssumption == MaxOrders \in Nat

ASSUME PartyAssumption == OrderId # {} /\ Owner # {}

ASSUME GridAssumption ==
  /\ Price \subseteq Nat
  /\ Tick \subseteq Price
  /\ \A p \in Price : \E t \in Tick : IsNearest(t, p)
  /\ \A T \in (SUBSET Tick) \ {{}} :     \* true of any finite grid
        /\ \E t \in T : \A s \in T : s <= t
        /\ \E t \in T : \A s \in T : t <= s

None == 0            \* Python's None, where an Order object is expected
NoPrice == -1        \* Python's None, where a price is expected

Uid == 1 .. MaxOrders

Side == {"BUY", "SELL"}
OrderType == {"MARKET", "LIMIT", "IOC", "FOK", "POST_ONLY", "REDUCE_ONLY",
              "ICEBERG", "HIDDEN", "STOP", "STOP_LIMIT"}
OrderStatus == {"NEW", "PARTIALLY_FILLED", "FILLED", "CANCELED", "REJECTED",
                "TRIGGERED", "REPLACED"}
TimeInForce == {"GTC", "IOC", "FOK"}
STPMode == {"NONE", "CANCEL_NEWEST", "CANCEL_OLDEST", "DECREMENT_AND_CANCEL"}

Opposite(side) == IF side = "BUY" THEN "SELL" ELSE "BUY"

Least(a, b) == IF a <= b THEN a ELSE b
Clip(x) == IF x > 0 THEN x ELSE 0            \* max(0.0, x)

(* price_ticks: the grid point a price is rounded to.                      *)
TicksOf(p) == CHOOSE t \in Tick : IsNearest(t, p)

(* What a participant fills in when it creates an order; display is 0 when *)
(* the order does not ask for a visible tranche.                           *)
Ticket ==
  [side : Side, type : OrderType, tif : TimeInForce, stp : STPMode,
   owner : Owner, price : Price \cup {NoPrice}, quantity : Nat,
   display : Nat, stop_price : Price \cup {NoPrice}]

Order ==
  [oid : OrderId, side : Side, type : OrderType, tif : TimeInForce,
   stp : STPMode, owner : Owner, price : Price \cup {NoPrice},
   stop_price : Price \cup {NoPrice}, quantity : Nat, filled : Nat,
   display : Nat, hidden : Nat, slice : Nat, timestamp : Nat,
   status : OrderStatus]

(* The visible tranche __post_init__ leaves in display_quantity: a plain   *)
(* order may ask for less than its quantity, and has no hidden part then.  *)
FirstTranche(tk) ==
  CASE tk.type = "HIDDEN" -> 0
    [] tk.type = "ICEBERG" /\ tk.display > 0 -> Least(tk.quantity, tk.display)
    [] tk.type \notin {"HIDDEN", "ICEBERG"} /\ tk.display > 0 -> tk.display
    [] OTHER -> tk.quantity

FirstHidden(tk) ==
  IF tk.type \in {"HIDDEN", "ICEBERG"} THEN tk.quantity - FirstTranche(tk) ELSE 0

NewOrder(tk, oid, now) ==
  [oid |-> oid, side |-> tk.side, type |-> tk.type, tif |-> tk.tif,
   stp |-> tk.stp, owner |-> tk.owner, price |-> tk.price,
   stop_price |-> tk.stop_price, quantity |-> tk.quantity, filled |-> 0,
   display |-> FirstTranche(tk), hidden |-> FirstHidden(tk),
   slice |-> FirstTranche(tk), timestamp |-> now, status |-> "NEW"]

(* OrderPool: release wipes part of a spent order, acquire hands it out    *)
(* again, with what the caller asks for and nothing of its former life.    *)
Released(o) ==
  [o EXCEPT !.slice = 0, !.filled = 0, !.status = "NEW", !.display = 0,
            !.stop_price = NoPrice, !.price = NoPrice, !.stp = "NONE"]

Acquired(o, tk, oid, now) ==
  LET shown == IF tk.display > 0 THEN tk.display ELSE tk.quantity
      isHidden == tk.type = "HIDDEN"
  IN  [o EXCEPT !.oid = oid, !.side = tk.side, !.type = tk.type, !.tif = tk.tif,
                !.stp = tk.stp, !.owner = tk.owner, !.price = tk.price,
                !.stop_price = tk.stop_price, !.quantity = tk.quantity, !.filled = 0,
                !.display = IF isHidden THEN 0 ELSE shown,
                !.hidden = CASE isHidden -> tk.quantity
                             [] tk.type = "ICEBERG" -> Clip(tk.quantity - shown)
                             [] OTHER -> 0,
                !.slice = IF isHidden THEN 0 ELSE shown,
                !.timestamp = now, !.status = "NEW"]

(* The Order objects once u's status has been set.                         *)
Marked(order, u, status) == [order EXCEPT ![u].status = status]

Remaining(o) == Clip(o.quantity - o.filled)

=============================================================================
