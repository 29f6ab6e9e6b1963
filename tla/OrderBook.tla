----------------------------- MODULE OrderBook ------------------------------
(***************************************************************************)
(* The limit order book of one symbol, zerene/orderbook/book.py, as a      *)
(* value:                                                                  *)
(*   live   the ticks that have a level, on each side (the keys of bids,   *)
(*          asks, which the code keeps equal to sorted_bids, sorted_asks)  *)
(*   level  the level at each tick; NewLevel where there is none           *)
(*   map    order_map: the resting order known under each order_id         *)
(* A method takes the book (and the Order objects) and returns the new one.*)
(***************************************************************************)
EXTENDS PriceLevel, FiniteSetsExt, Functions

Book == [live : [Side -> SUBSET Tick],
         level : [Side -> [Tick -> Level]],
         map : [OrderId -> Uid \cup {None}]]

EmptyBook == [live |-> [s \in Side |-> {}],
              level |-> [s \in Side |-> [t \in Tick |-> NewLevel]],
              map |-> [i \in OrderId |-> None]]

HasSide(book, side) == book.live[side] # {}

(* best_bid_ticks, best_ask_ticks: the first tick of the sorted list.      *)
Best(book, side) ==
  CHOOSE t \in book.live[side] :
    \A s \in book.live[side] : IF side = "BUY" THEN s <= t ELSE t <= s

(* Put the level back, and drop its tick when nothing is left on it.       *)
StoreLevel(book, side, t, lv) ==
  IF IsEmpty(lv)
  THEN [book EXCEPT !.level[side][t] = NewLevel, !.live[side] = @ \ {t}]
  ELSE [book EXCEPT !.level[side][t] = lv]

InsertOrder(book, order, u) ==
  LET o == order[u]
      t == TicksOf(o.price)
  IN  IF o.price = NoPrice THEN book
      ELSE [live |-> [book.live EXCEPT ![o.side] = @ \cup {t}],
            level |-> [book.level EXCEPT ![o.side][t] = LevelAppend(@, o, u)],
            map |-> [book.map EXCEPT ![o.oid] = u]]

(* remove_order of the order that is in the map; the level is found by the *)
(* order's own side and price.                                             *)
RemoveOrder(book, order, u) ==
  LET o == order[u]
      t == TicksOf(o.price)
      unmapped == [book EXCEPT !.map[o.oid] = None]
  IN  IF o.price # NoPrice /\ t \in book.live[o.side]
      THEN StoreLevel(unmapped, o.side, t, LevelRemove(book.level[o.side][t], o, u))
      ELSE unmapped

CleanEmptyLevel(book, side, t) == StoreLevel(book, side, t, book.level[side][t])

-----------------------------------------------------------------------------
(* modify_order, one operator per outcome.  An amendment has a quantity    *)
(* and a price, NoPrice when the price is kept.                            *)

Amendment == [quantity : Nat, price : Price \cup {NoPrice}]

AmendedPrice(o, am) == IF am.price = NoPrice THEN o.price ELSE am.price

(* Fault: only a zero quantity is taken for a cancellation.                *)
AmendsToZero(o, am) == am.quantity <= 0

AmendsToNothing(o, am) == am.quantity <= o.filled

(* Fault: a smaller quantity loses its place in the queue as well.         *)
LosesPriorityOnChange(o, am) == AmendedPrice(o, am) # o.price \/ am.quantity # o.quantity

LosesPriority(o, am) == AmendedPrice(o, am) # o.price \/ am.quantity > o.quantity

(* Price change or larger quantity: taken out and put back at the tail.    *)
Requoted(o, am, now) ==
  LET shown == Least(o.display, am.quantity)
  IN  [o EXCEPT !.price = AmendedPrice(o, am),
                !.quantity = am.quantity,
                !.display = shown,
                !.hidden = CASE o.type = "ICEBERG" -> am.quantity - shown
                             [] o.type = "HIDDEN" -> am.quantity
                             [] OTHER -> o.hidden,
                !.timestamp = now,
                !.status = "REPLACED"]

(* Smaller (or equal) quantity at the same price: changed where it stands. *)
DisplayCut(o, am) == Least(o.display, o.quantity - am.quantity)

Reduced(o, am) ==
  LET shown == o.display - DisplayCut(o, am)
  IN  [o EXCEPT !.quantity = am.quantity,
                !.display = shown,
                !.hidden = CASE o.type = "ICEBERG" -> Clip(am.quantity - shown)
                             [] o.type = "HIDDEN" -> am.quantity
                             [] OTHER -> o.hidden,
                !.status = "REPLACED"]

(* Fault: the order shrinks, the level's visible volume grows by as much.  *)
ReducedLevelWrongSign(lv, o, am) == [lv EXCEPT !.total = @ + DisplayCut(o, am)]

ReducedLevel(lv, o, am) ==
  LET cut == o.quantity - am.quantity
      hiddenCut == CASE o.type = "ICEBERG" -> cut - DisplayCut(o, am)
                     [] o.type = "HIDDEN" -> cut
                     [] OTHER -> 0
  IN  [lv EXCEPT !.total = Clip(@ - DisplayCut(o, am)), !.hidden = Clip(@ - hiddenCut)]

-----------------------------------------------------------------------------
(* Who rests on the book: every order that has a node in some queue.       *)
RestingAt(book, side, t) ==
  {book.level[side][t].queue[i] : i \in 1 .. Len(book.level[side][t].queue)}

Resting(book) == UNION {RestingAt(book, x[1], x[2]) : x \in Side \X Tick}

(* What a level counts for in the FOK check: `if lvl:' is its length, so a *)
(* level where nobody queues counts for nothing, whatever its volumes say. *)
VolumeOf(lv) == IF lv.queue = << >> THEN 0 ELSE lv.total + lv.hidden

(* Displayed and hidden volume of a set of ticks of one side.              *)
VolumeAt(book, side, ticks) ==
  SumFunctionOnSet([t \in Tick |-> VolumeOf(book.level[side][t])], ticks)

=============================================================================
