---------------------------- MODULE CallAuction -----------------------------
(***************************************************************************)
(* zerene/engine/call_auction.py: orders are collected without matching,   *)
(* then uncrossed at one price.  The loop of execute_uncrossing takes one  *)
(* step per trade.                                                         *)
(***************************************************************************)
EXTENDS Integers, SequencesExt, FiniteSetsExt

CONSTANTS
  Tickets,           \* orders that may be added
  References,        \* reference prices, NoPrice for none
  Grid,              \* candidate prices are rounded to multiples of Grid
  MaxOrders          \* bound: orders collected

VARIABLES
  orders,            \* self.orders, in the order they were added
  phase,             \* "collecting", "uncrossing" or "done"
  reference,         \* reference_price of the uncrossing
  result,            \* the AuctionResult of the uncrossing
  bids,              \* indices of the eligible bids not exhausted, best first
  asks               \* and of the asks

vars == <<orders, phase, reference, result, bids, asks>>

NoPrice == 0

NoResult == [price |-> NoPrice, volume |-> 0, imbalance |-> 0, distance |-> 0, side |-> "NONE"]

Left(o) == o.quantity - o.filled

Abs(n) == IF n < 0 THEN -n ELSE n

Init ==
  /\ orders = <<>> /\ phase = "collecting"
  /\ reference = NoPrice /\ result = NoResult
  /\ bids = <<>> /\ asks = <<>>

AddOrder(o) ==
  /\ phase = "collecting" /\ Len(orders) < MaxOrders
  /\ orders' = Append(orders, o)
  /\ UNCHANGED <<phase, reference, result, bids, asks>>

-----------------------------------------------------------------------------
(* calculate_clearing_price.                                               *)
Rounded(p) == ((p + Grid \div 2) \div Grid) * Grid

Candidates(ref) ==
  LET ps == {Rounded(orders[i].price) : i \in {j \in DOMAIN orders : orders[j].price # NoPrice}}
  IN  IF ps # {} \/ ref = NoPrice THEN ps ELSE {Rounded(ref)}

Accepts(o, p) ==
  \/ o.price = NoPrice
  \/ IF o.side = "BUY" THEN o.price >= p ELSE o.price <= p

Takers(side, p) == {i \in DOMAIN orders : orders[i].side = side /\ Accepts(orders[i], p)}

Cumulative(side, p) == MapThenSumSet(LAMBDA i : Left(orders[i]), Takers(side, p))

At(p, ref) ==
  LET buy == Cumulative("BUY", p)  sell == Cumulative("SELL", p)
  IN  [price |-> p, volume |-> Min({buy, sell}), imbalance |-> Abs(buy - sell),
       distance |-> IF ref = NoPrice THEN 0 ELSE Abs(p - ref),
       side |-> CASE buy > sell -> "BUY" [] sell > buy -> "SELL" [] OTHER -> "NONE"]

(* Fault: at equal volume a smaller imbalance replaces the price only if   *)
(* the price is also nearer.                                               *)
BetterAndNearer(c, best) ==
  \/ c.volume > best.volume
  \/ c.volume = best.volume /\ c.imbalance <= best.imbalance /\ c.distance < best.distance

Better(c, best) ==
  \/ c.volume > best.volume
  \/ c.volume = best.volume /\ c.imbalance < best.imbalance
  \/ c.volume = best.volume /\ c.imbalance = best.imbalance /\ c.distance < best.distance

(* The candidates in ascending order, each against the best so far.        *)
CalculateClearingPrice(ref) ==
  LET ascending == SetToSortSeq(Candidates(ref), <)
      keep(best, p) == IF Better(At(p, ref), best) THEN At(p, ref) ELSE best
  IN  IF ascending = <<>> THEN NoResult ELSE FoldLeft(keep, At(Head(ascending), ref), Tail(ascending))

-----------------------------------------------------------------------------
(* execute_uncrossing: market orders first, then price, then time; the     *)
(* sort is stable.                                                         *)
Nearer(o, r) == IF o.side = "BUY" THEN o.price > r.price ELSE o.price < r.price

(* Fault: the key of a market order's missing price puts it last.          *)
MarketLast(i, j) ==
  LET o == orders[i]  r == orders[j]
  IN  \/ o.price # NoPrice /\ r.price = NoPrice
      \/ o.price # NoPrice /\ r.price # NoPrice /\ Nearer(o, r)
      \/ o.price = r.price /\ o.since < r.since
      \/ o.price = r.price /\ o.since = r.since /\ i < j

Precedes(i, j) ==
  LET o == orders[i]  r == orders[j]
  IN  \/ o.price = NoPrice /\ r.price # NoPrice
      \/ o.price # NoPrice /\ r.price # NoPrice /\ Nearer(o, r)
      \/ o.price = r.price /\ o.since < r.since
      \/ o.price = r.price /\ o.since = r.since /\ i < j

(* With nothing to execute the orders stay collected.                      *)
BeginUncrossing(ref) ==
  LET c == CalculateClearingPrice(ref)
  IN  /\ phase = "collecting" /\ c.price # NoPrice /\ c.volume > 0
      /\ phase' = "uncrossing" /\ reference' = ref /\ result' = c
      /\ bids' = SetToSortSeq(Takers("BUY", c.price), Precedes)
      /\ asks' = SetToSortSeq(Takers("SELL", c.price), Precedes)
      /\ UNCHANGED orders

NothingToUncross(ref) ==
  /\ phase = "collecting" /\ CalculateClearingPrice(ref).volume = 0
  /\ UNCHANGED vars

Rest(side, i, q) == IF Left(orders[i]) = q THEN Tail(side) ELSE side

Trade ==
  /\ phase = "uncrossing" /\ bids # <<>> /\ asks # <<>>
  /\ LET b == Head(bids)  a == Head(asks)
         q == Min({Left(orders[b]), Left(orders[a])})
     IN  /\ q > 0
         /\ orders' = [orders EXCEPT ![b].filled = @ + q, ![a].filled = @ + q]
         /\ bids' = Rest(bids, b, q) /\ asks' = Rest(asks, a, q)
  /\ UNCHANGED <<phase, reference, result>>

UncrossingOver ==
  /\ phase = "uncrossing" /\ (bids = <<>> \/ asks = <<>>)
  /\ phase' = "done"
  /\ UNCHANGED <<orders, reference, result, bids, asks>>

(* The caller takes the leftovers, and the next auction starts empty.      *)
Reopen ==
  /\ phase = "done"
  /\ orders' = <<>> /\ phase' = "collecting"
  /\ reference' = NoPrice /\ result' = NoResult
  /\ bids' = <<>> /\ asks' = <<>>

Next ==
  \/ \E o \in Tickets : AddOrder(o)
  \/ \E ref \in References : BeginUncrossing(ref) \/ NothingToUncross(ref)
  \/ Trade \/ UncrossingOver \/ Reopen

Spec == Init /\ [][Next]_vars

-----------------------------------------------------------------------------
(* What may go wrong.                                                      *)

(* The clearing price is one that no candidate beats: none executes more,  *)
(* none that executes as much leaves a smaller imbalance, and none that    *)
(* ties on both is nearer to the reference price; the lowest such is taken *)
(* (the priorities in the docstring of calculate_clearing_price).          *)
ClearingIsOptimal ==
  phase = "uncrossing" /\ (\A i \in DOMAIN orders : orders[i].filled = 0) =>
    LET marks == {At(p, reference) : p \in Candidates(reference)}
        most == {m \in marks : \A n \in marks : n.volume <= m.volume}
        even == {m \in most : \A n \in most : n.imbalance >= m.imbalance}
        near == {m \in even : \A n \in even : n.distance >= m.distance}
    IN  result = CHOOSE m \in near : \A n \in near : m.price <= n.price

(* The uncrossing executes the whole volume it announced, no order trades  *)
(* at a price it does not accept, and none that ranks behind another of    *)
(* its side gets a lot before that one is filled (execute_uncrossing:      *)
(* "MARKET first, then highest price first, then earliest timestamp").     *)
Outranks(o, r) ==
  \/ o.price = NoPrice /\ r.price # NoPrice
  \/ o.price # NoPrice /\ r.price # NoPrice /\ Nearer(o, r)
  \/ o.price = r.price /\ o.since < r.since

UncrossingFair ==
  phase = "done" =>
    /\ MapThenSumSet(LAMBDA i : orders[i].filled, DOMAIN orders) = 2 * result.volume
    /\ \A i \in DOMAIN orders : orders[i].filled > 0 => Accepts(orders[i], result.price)
    /\ \A i, j \in DOMAIN orders :
         orders[i].side = orders[j].side /\ Outranks(orders[i], orders[j]) /\ orders[j].filled > 0 => Left(orders[i]) = 0

=============================================================================
