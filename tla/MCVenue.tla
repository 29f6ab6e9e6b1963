------------------------------ MODULE MCVenue -------------------------------
(***************************************************************************)
(* Instances of the venue for model checking.  A tick is Unit, so that the *)
(* average prices the runs reach are integers.                             *)
(***************************************************************************)
EXTENDS Venue

Unit == 120

Mk(owner, symbol, side, type, ticks, quantity) ==
  [owner |-> owner, symbol |-> symbol, side |-> side, type |-> type, price |-> ticks * Unit, quantity |-> quantity,
   filled |-> 0, since |-> 0, stamped |-> TRUE, amended |-> FALSE]

Am(quantity, ticks) == [quantity |-> quantity, price |-> ticks * Unit]

TwoTickets(o) ==
  {Mk(o, "X", side, "LIMIT", t, 1) : side \in {"BUY", "SELL"}, t \in {1, 2}}

VenueTickets ==
  TwoTickets("a") \cup TwoTickets("b")
  \cup {Mk("b", "X", "BUY", "LIMIT", 2, 3), Mk("a", "X", "SELL", "MARKET", 0, 2),
        Mk("b", "X", "BUY", "REDUCE_ONLY", 2, 2), Mk("a", "X", "SELL", "LIMIT", 1, 0)}

SomeAmendments == {Am(2, 0), Am(1, 2), Am(1, 1)}

Flat == [o \in Owner |-> [s \in Symbol |-> 0]]

Balanced == [o \in Owner |-> [s \in Symbol |-> IF s # "X" THEN 0 ELSE CASE o = "a" -> 1 [] o = "b" -> -1 [] OTHER -> 0]]

Entered(x, y) == [o \in Owner |-> [s \in Symbol |-> IF s # "X" THEN NoPrice ELSE IF o = "a" THEN x * Unit ELSE y * Unit]]

(* Nothing; positions under a market price; positions before there is one. *)
Start ==
  {[positions |-> Flat, entries |-> Entered(0, 0), price |-> NoPrice],
   [positions |-> Balanced, entries |-> Entered(1, 1), price |-> Unit],
   [positions |-> Balanced, entries |-> Entered(2, 1), price |-> NoPrice]}

InDebt == {-800}

=============================================================================
