--------------------------- MODULE MatchingEngine ---------------------------
(***************************************************************************)
(* The matching engine of one symbol, zerene/engine/matching_engine.py.    *)
(*                                                                         *)
(* A call of process_order is a sequence of steps here: the loops of       *)
(* process_order, _match and check_triggers take one step per iteration,   *)
(* so that whether they end is something to check.  The engine is          *)
(* single-threaded: a call starts only when pc is "idle".                  *)
(*                                                                         *)
(* Tickets and Amendments are the orders and modifications participants    *)
(* may send; IdOf[n] is the order_id they give the n-th order.  Timestamps *)
(* are those of a clock that advances with every call that carries one.    *)
(***************************************************************************)
EXTENDS StopManager

CONSTANTS
  Tickets,
  Amendments,
  IdOf,
  MaxClock    (* bound: calls that carry a timestamp *)

ASSUME InputAssumption ==
  /\ Tickets \subseteq Ticket
  /\ Amendments \subseteq Amendment
  /\ IdOf \in [Uid -> OrderId]
  /\ MaxClock \in Nat

VARIABLES
  order,      (* the Order objects; slots after next_id are unused        *)
  next_id,    (* _INTERNAL_ID_COUNTER                                     *)
  clock,
  book,       (* order_book                                               *)
  stops,      (* stop_manager                                             *)
  pending,    (* _pending_orders                                          *)
  pc,         (* where the running call is; "idle" between calls          *)
  cur,        (* the order _process_single_order works on                 *)
  traded,     (* cur's list of trades is not empty                        *)
  last,       (* last_trade_price                                         *)
  trades,     (* trade_history                                            *)
  sweep       (* the order ids cancel_all_for_participant has still to do *)

vars == <<order, next_id, clock, book, stops, pending, pc, cur, traded, last, trades, sweep>>

Trade == [maker : Uid, taker : Uid, price : Tick, quantity : Nat, timestamp : Nat]

Sweep == [owner : Owner, ids : SUBSET OrderId]

Blank == [oid |-> CHOOSE i \in OrderId : TRUE, side |-> "BUY", type |-> "LIMIT",
          tif |-> "GTC", stp |-> "NONE", owner |-> CHOOSE w \in Owner : TRUE,
          price |-> NoPrice, stop_price |-> NoPrice, quantity |-> 0, filled |-> 0,
          display |-> 0, hidden |-> 0, slice |-> 0, timestamp |-> 0, status |-> "NEW"]

NoSweep == [owner |-> CHOOSE w \in Owner : TRUE, ids |-> {}]

Init ==
  /\ order = [u \in Uid |-> Blank]
  /\ next_id = 0
  /\ clock = 0
  /\ book = EmptyBook
  /\ stops = NoStops
  /\ pending = << >>
  /\ pc = "idle"
  /\ cur = None
  /\ traded = FALSE
  /\ last = NoPrice
  /\ trades = << >>
  /\ sweep = NoSweep

-----------------------------------------------------------------------------
(* Calls from outside.                                                     *)

ClockTicks == clock < MaxClock /\ clock' = clock + 1

(* process_order of a new Order.                                           *)
Submit(tk) ==
  /\ pc = "idle"
  /\ next_id < MaxOrders
  /\ ClockTicks
  /\ next_id' = next_id + 1
  /\ order' = [order EXCEPT ![next_id + 1] = NewOrder(tk, IdOf[next_id + 1], clock + 1)]
  /\ pending' = Append(pending, next_id + 1)
  /\ pc' = "loop"
  /\ UNCHANGED <<book, stops, cur, traded, last, trades, sweep>>

(* cancel_order: the book first, then the stops, then None.                *)
CancelResting(oid) ==
  /\ book.map[oid] # None
  /\ book' = RemoveOrder(book, order, book.map[oid])
  /\ order' = Marked(order, book.map[oid], "CANCELED")
  /\ UNCHANGED stops

CancelStop(oid) ==
  /\ book.map[oid] = None
  /\ stops.map[oid] # None
  /\ stops' = ForgetStop(stops, oid)
  /\ order' = Marked(order, stops.map[oid], "CANCELED")
  /\ UNCHANGED book

CancelUnknown(oid) ==
  /\ book.map[oid] = None
  /\ stops.map[oid] = None
  /\ UNCHANGED <<order, book, stops>>

CancelEffect(oid) == CancelResting(oid) \/ CancelStop(oid) \/ CancelUnknown(oid)

Cancel(oid) ==
  /\ pc = "idle"
  /\ CancelEffect(oid)
  /\ UNCHANGED <<next_id, clock, pending, pc, cur, traded, last, trades, sweep>>

(* cancel_all_for_participant: a list of resting ids, then one of stop ids.*)
IdsOf(map, owner) == {i \in OrderId : map[i] # None /\ order[map[i]].owner = owner}

CancelAll(owner) ==
  /\ pc = "idle"
  /\ sweep' = [owner |-> owner, ids |-> IdsOf(book.map, owner)]
  /\ pc' = "sweep_book"
  /\ UNCHANGED <<order, next_id, clock, book, stops, pending, cur, traded, last, trades>>

SweepOne(oid) ==
  /\ pc \in {"sweep_book", "sweep_stops"}
  /\ oid \in sweep.ids
  /\ CancelEffect(oid)
  /\ sweep' = [sweep EXCEPT !.ids = @ \ {oid}]
  /\ UNCHANGED <<next_id, clock, pending, pc, cur, traded, last, trades>>

(* Fault: only the resting orders are cancelled.                           *)
SweepEndsEarly ==
  /\ pc = "sweep_book"
  /\ sweep.ids = {}
  /\ pc' = "sweep_stops"
  /\ UNCHANGED <<order, next_id, clock, book, stops, pending, cur, traded, last, trades, sweep>>

SweepStops ==
  /\ pc = "sweep_book"
  /\ sweep.ids = {}
  /\ sweep' = [sweep EXCEPT !.ids = IdsOf(stops.map, sweep.owner)]
  /\ pc' = "sweep_stops"
  /\ UNCHANGED <<order, next_id, clock, book, stops, pending, cur, traded, last, trades>>

SweepDone ==
  /\ pc = "sweep_stops"
  /\ sweep.ids = {}
  /\ sweep' = NoSweep
  /\ pc' = "idle"
  /\ UNCHANGED <<order, next_id, clock, book, stops, pending, cur, traded, last, trades>>

-----------------------------------------------------------------------------
(* modify_order.                                                           *)

(* would_cross: a new price at or through the best opposite price.         *)
AmendCrosses(o, am) ==
  /\ am.price # NoPrice
  /\ HasSide(book, Opposite(o.side))
  /\ IF o.side = "BUY" THEN am.price >= Best(book, "SELL") ELSE am.price <= Best(book, "BUY")

Modifiable(oid) == pc = "idle" /\ book.map[oid] # None

(* Both the engine and the book cancel what an amendment leaves nothing of.*)
ModifyToNothing(oid, am) ==
  LET u == book.map[oid]
  IN  /\ Modifiable(oid)
      /\ AmendsToNothing(order[u], am)
      /\ book' = RemoveOrder(book, order, u)
      /\ order' = Marked(order, u, "CANCELED")
      /\ ClockTicks
      /\ UNCHANGED <<next_id, stops, pending, pc, cur, traded, last, trades, sweep>>

(* The engine takes a crossing order off the book and processes it again.  *)
ModifyAcross(oid, am) ==
  LET u == book.map[oid]
      o == order[u]
  IN  /\ Modifiable(oid)
      /\ ~AmendsToNothing(o, am)
      /\ AmendCrosses(o, am)
      /\ book' = RemoveOrder(book, order, u)
      /\ order' = [order EXCEPT ![u] =
                     [o EXCEPT !.price = am.price, !.quantity = am.quantity,
                               !.display = Least(o.display, am.quantity),
                               !.timestamp = clock + 1, !.status = "REPLACED"]]
      /\ pending' = Append(pending, u)
      /\ pc' = "loop"
      /\ ClockTicks
      /\ UNCHANGED <<next_id, stops, cur, traded, last, trades, sweep>>

(* Fault: the order is inserted at its new place and not removed before.   *)
ModifyInsertsTwice(oid, am) ==
  LET u == book.map[oid]
      requoted == [order EXCEPT ![u] = Requoted(order[u], am, clock + 1)]
  IN  /\ Modifiable(oid)
      /\ ~AmendsToNothing(order[u], am)
      /\ ~AmendCrosses(order[u], am)
      /\ LosesPriority(order[u], am)
      /\ order' = requoted
      /\ book' = InsertOrder(book, requoted, u)
      /\ ClockTicks
      /\ UNCHANGED <<next_id, stops, pending, pc, cur, traded, last, trades, sweep>>

ModifyRequote(oid, am) ==
  LET u == book.map[oid]
      requoted == [order EXCEPT ![u] = Requoted(order[u], am, clock + 1)]
  IN  /\ Modifiable(oid)
      /\ ~AmendsToNothing(order[u], am)
      /\ ~AmendCrosses(order[u], am)
      /\ LosesPriority(order[u], am)
      /\ order' = requoted
      /\ book' = InsertOrder(RemoveOrder(book, order, u), requoted, u)
      /\ ClockTicks
      /\ UNCHANGED <<next_id, stops, pending, pc, cur, traded, last, trades, sweep>>

ModifyReduce(oid, am) ==
  LET u == book.map[oid]
      o == order[u]
  IN  /\ Modifiable(oid)
      /\ ~AmendsToNothing(o, am)
      /\ ~AmendCrosses(o, am)
      /\ ~LosesPriority(o, am)
      /\ order' = [order EXCEPT ![u] = Reduced(o, am)]
      /\ book' = [book EXCEPT !.level[o.side][TicksOf(o.price)] = ReducedLevel(@, o, am)]
      /\ ClockTicks
      /\ UNCHANGED <<next_id, stops, pending, pc, cur, traded, last, trades, sweep>>

-----------------------------------------------------------------------------
(* process_order and the checks of _process_single_order.                  *)

Taking(u) == pc = "loop" /\ pending # << >> /\ u = Head(pending)

Drained ==
  /\ pc = "loop"
  /\ pending = << >>
  /\ pc' = "idle"
  /\ cur' = None
  /\ traded' = FALSE
  /\ UNCHANGED <<order, next_id, clock, book, stops, pending, last, trades, sweep>>

Reject(u) ==
  /\ order' = Marked(order, u, "REJECTED")
  /\ pending' = Tail(pending)
  /\ UNCHANGED <<next_id, clock, book, stops, pc, cur, traded, last, trades, sweep>>

IsFok(o) == o.type = "FOK" \/ o.tif = "FOK"

(* _can_fill_completely compares ticks, over whole levels.                 *)
EligibleTicks(o) ==
  {t \in book.live[Opposite(o.side)] :
     \/ o.type = "MARKET" \/ o.price = NoPrice
     \/ IF o.side = "BUY" THEN t <= TicksOf(o.price) ELSE t >= TicksOf(o.price)}

(* Fault: exactly enough is not enough.                                    *)
CanOverfill(o) == VolumeAt(book, Opposite(o.side), EligibleTicks(o)) > o.quantity

CanFillCompletely(o) == VolumeAt(book, Opposite(o.side), EligibleTicks(o)) >= o.quantity

(* Fault: a price equal to the best opposite price does not reach it.      *)
PricePasses(o, t) == IF o.side = "BUY" THEN o.price > t ELSE o.price < t

(* incoming.price against a tick of the other side.                        *)
PriceReaches(o, t) == IF o.side = "BUY" THEN o.price >= t ELSE o.price <= t

WouldCross(o) ==
  \/ o.price = NoPrice
  \/ HasSide(book, Opposite(o.side)) /\ PriceReaches(o, Best(book, Opposite(o.side)))

IsInvalid(o) == o.quantity <= 0
FokFails(o) == IsFok(o) /\ ~CanFillCompletely(o)
PostOnlyFails(o) == o.type = "POST_ONLY" /\ WouldCross(o)

RejectInvalid(u) == Taking(u) /\ IsInvalid(order[u]) /\ Reject(u)

RejectStop(u) ==
  /\ Taking(u)
  /\ ~IsInvalid(order[u])
  /\ IsStop(order[u])
  /\ order[u].stop_price = NoPrice
  /\ Reject(u)

ParkStop(u) ==
  /\ Taking(u)
  /\ ~IsInvalid(order[u])
  /\ IsStop(order[u])
  /\ order[u].stop_price # NoPrice
  /\ stops' = AddStop(stops, order[u], u)
  /\ pending' = Tail(pending)
  /\ UNCHANGED <<order, next_id, clock, book, pc, cur, traded, last, trades, sweep>>

RejectUnfillable(u) ==
  /\ Taking(u)
  /\ ~IsInvalid(order[u])
  /\ ~IsStop(order[u])
  /\ FokFails(order[u])
  /\ Reject(u)

RejectTaker(u) ==
  /\ Taking(u)
  /\ ~IsInvalid(order[u])
  /\ ~IsStop(order[u])
  /\ ~FokFails(order[u])
  /\ PostOnlyFails(order[u])
  /\ Reject(u)

StartMatch(u) ==
  /\ Taking(u)
  /\ ~IsInvalid(order[u])
  /\ ~IsStop(order[u])
  /\ ~FokFails(order[u])
  /\ ~PostOnlyFails(order[u])
  /\ cur' = u
  /\ traded' = FALSE
  /\ pending' = Tail(pending)
  /\ pc' = "match"
  /\ UNCHANGED <<order, next_id, clock, book, stops, last, trades, sweep>>

-----------------------------------------------------------------------------
(* _match: cur against the head of the best opposite level.                *)

Contra == Opposite(order[cur].side)
Top == Best(book, Contra)
TopLevel == book.level[Contra][Top]
Maker == Head(TopLevel.queue)
(* Fault: the taker's need decides alone.                                  *)
TakerRemaining == Remaining(order[cur])

Overlap == Least(Remaining(order[cur]), Remaining(order[Maker]))

(* Fault: an IOC order is matched like a market order.                     *)
CrossesIgnoringIocLimit ==
  /\ HasSide(book, Contra)
  /\ \/ order[cur].type \in {"MARKET", "IOC"} \/ order[cur].price = NoPrice
     \/ PriceReaches(order[cur], Top)

Crosses ==
  /\ HasSide(book, Contra)
  /\ \/ order[cur].type = "MARKET" \/ order[cur].price = NoPrice
     \/ PriceReaches(order[cur], Top)

LevelDrained == HasSide(book, Contra) /\ IsEmpty(TopLevel)

(* A level that has been drained is dropped before anything else happens.  *)
DropDrained ==
  /\ pc = "match"
  /\ LevelDrained
  /\ book' = CleanEmptyLevel(book, Contra, Top)
  /\ UNCHANGED <<order, next_id, clock, stops, pending, pc, cur, traded, last, trades, sweep>>

MatchDone ==
  /\ pc = "match"
  /\ ~LevelDrained
  /\ Remaining(order[cur]) = 0 \/ ~Crosses
  /\ pc' = "residual"
  /\ UNCHANGED <<order, next_id, clock, book, stops, pending, cur, traded, last, trades, sweep>>

Matching ==
  /\ pc = "match"
  /\ ~LevelDrained
  /\ Remaining(order[cur]) > 0
  /\ Crosses

(* Fault: only the incoming order's own mode counts.                       *)
IncomingStp ==
  IF order[Maker].owner # order[cur].owner \/ order[cur].owner \in {"", "DEFAULT"} THEN "NONE"
  ELSE order[cur].stp

(* Which self-trade prevention applies to cur and the head, if any.        *)
EffectiveStp ==
  IF order[Maker].owner # order[cur].owner \/ order[cur].owner \in {"", "DEFAULT"} THEN "NONE"
  ELSE IF order[cur].stp # "NONE" THEN order[cur].stp
  ELSE order[Maker].stp

Prevents(mode) == TopLevel.queue # << >> /\ EffectiveStp = mode

(* The inner loop breaks without progress: no head, or nothing left of it. *)
NoProgress ==
  /\ Matching
  /\ TopLevel.queue # << >> => EffectiveStp = "NONE" /\ Overlap = 0
  /\ UNCHANGED vars

(* Fault: the taker is not charged for what it takes.                      *)
ConsumeFree(o, n, final) ==
  LET m == Maker
      fill == UpdateVolumeAfterFill(TopLevel, o, m, n)
      gone == Remaining(o) = 0
      after == [order EXCEPT ![m] = IF gone THEN [fill.order EXCEPT !.status = final]
                                    ELSE fill.order]
  IN  /\ order' = after
      /\ book' = [live |-> book.live,
                  level |-> [book.level EXCEPT ![Contra][Top] =
                               IF gone THEN PopHead(fill.level, after) ELSE fill.level],
                  map |-> IF gone THEN [book.map EXCEPT ![o.oid] = None] ELSE book.map]

(* Charge n lots to the maker m (its record o already says so), then take  *)
(* the head off the queue if m has nothing left.                           *)
Consume(o, n, final) ==
  LET m == Maker
      fill == UpdateVolumeAfterFill(TopLevel, o, m, n)
      gone == Remaining(o) = 0
      after == [order EXCEPT ![m] = IF gone THEN [fill.order EXCEPT !.status = final]
                                    ELSE fill.order,
                             ![cur].filled = @ + n]
  IN  /\ order' = after
      /\ book' = [live |-> book.live,
                  level |-> [book.level EXCEPT ![Contra][Top] =
                               IF gone THEN PopHead(fill.level, after) ELSE fill.level],
                  map |-> IF gone THEN [book.map EXCEPT ![o.oid] = None] ELSE book.map]

StpCancelNewest ==
  /\ Matching
  /\ Prevents("CANCEL_NEWEST")
  /\ order' = Marked(order, cur, "CANCELED")
  /\ pc' = "residual"
  /\ UNCHANGED <<next_id, clock, book, stops, pending, cur, traded, last, trades, sweep>>

(* Fault: the cancelled head is left in the queue.                         *)
StpMarksOldest ==
  /\ Matching
  /\ Prevents("CANCEL_OLDEST")
  /\ order' = Marked(order, Maker, "CANCELED")
  /\ UNCHANGED <<next_id, clock, book, stops, pending, pc, cur, traded, last, trades, sweep>>

StpCancelOldest ==
  /\ Matching
  /\ Prevents("CANCEL_OLDEST")
  /\ order' = Marked(order, Maker, "CANCELED")
  /\ book' = [live |-> book.live,
              level |-> [book.level EXCEPT ![Contra][Top] = PopHead(TopLevel, order)],
              map |-> [book.map EXCEPT ![order[Maker].oid] = None]]
  /\ UNCHANGED <<next_id, clock, stops, pending, pc, cur, traded, last, trades, sweep>>

StpDecrement ==
  /\ Matching
  /\ Prevents("DECREMENT_AND_CANCEL")
  /\ Consume([order[Maker] EXCEPT !.filled = @ + Overlap], Overlap, "CANCELED")
  /\ UNCHANGED <<next_id, clock, stops, pending, pc, cur, traded, last, trades, sweep>>

Execute ==
  /\ Matching
  /\ Prevents("NONE")
  /\ Overlap > 0
  /\ Consume([order[Maker] EXCEPT !.filled = @ + Overlap,
                                  !.status = IF @ = "NEW" THEN "PARTIALLY_FILLED" ELSE @],
             Overlap, "FILLED")
  /\ trades' = Append(trades, [maker |-> Maker, taker |-> cur, price |-> Top,
                               quantity |-> Overlap, timestamp |-> order[cur].timestamp])
  /\ last' = Top
  /\ traded' = TRUE
  /\ UNCHANGED <<next_id, clock, stops, pending, pc, cur, sweep>>

-----------------------------------------------------------------------------
(* What is left of cur, and the stops its trades trigger.                  *)

AfterResidual == IF traded THEN "trigger" ELSE "loop"

NeverRests(o) == o.type \in {"MARKET", "IOC"} \/ o.tif \in {"IOC", "FOK"}

Complete ==
  /\ pc = "residual"
  /\ Remaining(order[cur]) = 0
  /\ order' = Marked(order, cur, "FILLED")
  /\ pc' = AfterResidual
  /\ UNCHANGED <<next_id, clock, book, stops, pending, cur, traded, last, trades, sweep>>

Expire ==
  /\ pc = "residual"
  /\ Remaining(order[cur]) > 0
  /\ NeverRests(order[cur])
  /\ order' = Marked(order, cur,
                     IF order[cur].filled > 0 THEN "PARTIALLY_FILLED" ELSE "CANCELED")
  /\ pc' = AfterResidual
  /\ UNCHANGED <<next_id, clock, book, stops, pending, cur, traded, last, trades, sweep>>

Rest ==
  /\ pc = "residual"
  /\ Remaining(order[cur]) > 0
  /\ ~NeverRests(order[cur])
  /\ order' = Marked(order, cur,
                     IF order[cur].status = "NEW" /\ order[cur].filled > 0
                     THEN "PARTIALLY_FILLED" ELSE order[cur].status)
  /\ book' = InsertOrder(book, order, cur)
  /\ pc' = AfterResidual
  /\ UNCHANGED <<next_id, clock, stops, pending, cur, traded, last, trades, sweep>>

(* check_triggers: the buy heap is drained before the sell heap.           *)
NextDue(u) ==
  /\ pc = "trigger"
  /\ u \in IF Due(stops, order, "BUY", last) # {} THEN Due(stops, order, "BUY", last)
           ELSE Due(stops, order, "SELL", last)
  /\ IsHeapTop(stops, order, u)

SkipCanceled(u) ==
  /\ NextDue(u)
  /\ stops.map[order[u].oid] = None
  /\ stops' = PopStop(stops, order[u], u)
  /\ UNCHANGED <<order, next_id, clock, book, pending, pc, cur, traded, last, trades, sweep>>

(* Fault: a cancelled entry is triggered like any other.                   *)
TriggerCanceled(u) ==
  /\ NextDue(u)
  /\ stops' = PopStop(stops, order[u], u)
  /\ order' = [order EXCEPT ![u] = Triggered(@, order[cur].timestamp)]
  /\ pending' = Append(pending, u)
  /\ UNCHANGED <<next_id, clock, book, pc, cur, traded, last, trades, sweep>>

(* Fault: one stop per trade is triggered, the others due wait on.         *)
TriggerOnlyOne(u) ==
  /\ NextDue(u)
  /\ stops.map[order[u].oid] # None
  /\ stops' = PopStop(stops, order[u], u)
  /\ order' = [order EXCEPT ![u] = Triggered(@, order[cur].timestamp)]
  /\ pending' = Append(pending, u)
  /\ pc' = "loop"
  /\ UNCHANGED <<next_id, clock, book, cur, traded, last, trades, sweep>>

Trigger(u) ==
  /\ NextDue(u)
  /\ stops.map[order[u].oid] # None
  /\ stops' = PopStop(stops, order[u], u)
  /\ order' = [order EXCEPT ![u] = Triggered(@, order[cur].timestamp)]
  /\ pending' = Append(pending, u)
  /\ UNCHANGED <<next_id, clock, book, pc, cur, traded, last, trades, sweep>>

TriggersDone ==
  /\ pc = "trigger"
  /\ Due(stops, order, "BUY", last) \cup Due(stops, order, "SELL", last) = {}
  /\ pc' = "loop"
  /\ UNCHANGED <<order, next_id, clock, book, stops, pending, cur, traded, last, trades, sweep>>

-----------------------------------------------------------------------------
Call ==
  \/ \E tk \in Tickets : Submit(tk)
  \/ \E oid \in OrderId : Cancel(oid)
  \/ \E owner \in Owner : CancelAll(owner)
  \/ \E oid \in OrderId, am \in Amendments :
        \/ ModifyToNothing(oid, am)
        \/ ModifyAcross(oid, am)
        \/ ModifyRequote(oid, am)
        \/ ModifyReduce(oid, am)

Step ==
  \/ Drained
  \/ \E u \in Uid : \/ RejectInvalid(u)
                    \/ RejectStop(u)
                    \/ ParkStop(u)
                    \/ RejectUnfillable(u)
                    \/ RejectTaker(u)
                    \/ StartMatch(u)
                    \/ SkipCanceled(u)
                    \/ Trigger(u)
  \/ DropDrained \/ MatchDone \/ NoProgress
  \/ StpCancelNewest \/ StpCancelOldest \/ StpDecrement \/ Execute
  \/ Complete \/ Expire \/ Rest
  \/ TriggersDone
  \/ \E oid \in OrderId : SweepOne(oid)
  \/ SweepStops \/ SweepDone

Next == Call \/ Step

Spec == Init /\ [][Next]_vars

(* A call that has begun goes on: nothing can suspend it.                  *)
FairSpec == Spec /\ WF_vars(Step)

=============================================================================
