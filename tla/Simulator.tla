------------------------------ MODULE Simulator -----------------------------
(***************************************************************************)
(* zerene/simulator/market_sim.py: the discrete-event loop, with the       *)
(* latency gateway its orders travel through (latency), the background     *)
(* flow, a market maker, a momentum and a mean reversion trader            *)
(* (strategies).                                                           *)
(* One step of the loop is many steps here: pc says how far it has got.    *)
(*                                                                         *)
(* Times are relative, in ticks of which a step takes TimeStep: how long   *)
(* until a message is due, how long a halt still lasts.  Every order is of *)
(* one lot, and the book of the one symbol keeps, for each price, who the  *)
(* resting lots belong to, oldest first (module PriceTimeBook).            *)
(***************************************************************************)
EXTENDS Integers, SequencesExt, FiniteSetsExt

CONSTANTS
  Top,               \* bound: prices are 1 .. Top ticks
  Base,              \* base_price of the seeded book, its first mid price
  Depth,             \* levels seeded on each side (10 in the code)
  TimeStep,          \* time_step
  NetIn, Gateway, Engine,  \* the inbound hops: [least, draws, drops]
  HalfSpreads,       \* the market maker's spread, in half ticks
  CrashLots,         \* lots a flash crash sells
  Levels,            \* levels a snapshot shows (10 in the code)
  ImbalancePct,      \* the momentum trader's imbalance_threshold (30)
  Jump,              \* ticks a news shock moves the mid price by
  NewsDepth,         \* orders a news shock places (3 in the code)
  HaltTicks,         \* circuit_breaker_duration
  ThresholdPct,      \* circuit_breaker_threshold
  Sessions,          \* what a scheduled SESSION_CHANGE may change to
  MaxEvents,         \* bound: events scheduled at a time
  MaxLots            \* bound: lots in flight and resting when noise adds one

TradingSession == {"PRE_MARKET", "CONTINUOUS", "AUCTION", "POST_MARKET", "HALTED"}

ASSUME SimulatorAssumption ==
  /\ {Top, Base, Depth, TimeStep, HaltTicks, CrashLots, NewsDepth} \subseteq Nat \ {0}
  /\ Depth < Base /\ Base + Depth <= Top
  /\ \A hop \in {NetIn, Gateway, Engine} : hop.draws \subseteq Int /\ hop.least \in Nat
  /\ Sessions \subseteq TradingSession

VARIABLES
  session,           \* session
  active,            \* circuit_breaker_active
  remaining,         \* circuit_breaker_until, from now
  events,            \* event_queue, earliest first
  inbound,           \* the gateway's inbound_queue, earliest first
  script,            \* orders the event being handled has still to submit
  book,              \* [side -> [price -> who rests there]]
  last,              \* last_trade_price, 0 before the first
  snapshot,          \* what the strategies are shown of the book
  pc                 \* where the loop is; "idle" between two steps

vars == <<session, active, remaining, events, inbound, script, book, last, snapshot, pc>>

Sides == {"BUY", "SELL"}

Price == 1 .. Top

NoPrice == 0

Abs(n) == IF n < 0 THEN -n ELSE n

Against(side) == IF side = "BUY" THEN "SELL" ELSE "BUY"

Lot(who, side, price) == [who |-> who, side |-> side, price |-> price]

-----------------------------------------------------------------------------
(* The book.                                                               *)
Best(side) ==
  LET ps == {p \in Price : book[side][p] # <<>>}
  IN  IF ps = {} THEN NoPrice ELSE IF side = "BUY" THEN Max(ps) ELSE Min(ps)

(* Twice the mid price: of one side alone when the other one is empty.     *)
Mid2 ==
  LET bb == Best("BUY")
      ba == Best("SELL")
  IN  IF bb # NoPrice /\ ba # NoPrice THEN bb + ba ELSE 2 * (bb + ba)

HasMid == Mid2 # 2 * NoPrice

(* The default the simulator falls back on.                                *)
MidOrBase2 == IF HasMid THEN Mid2 ELSE 2 * Base

(* round(x / 2) to a tick; a tie may go either way.                        *)
Rounded(x) == {x \div 2, (x + 1) \div 2}

(* get_depth: the lots on the best levels of a side.  An order on any of   *)
(* them counts, and nothing is hidden.                                     *)
Volume(side) ==
  LET ps == {p \in Price : book[side][p] # <<>>}
      ahead(p) == {r \in ps : IF side = "BUY" THEN r > p ELSE r < p}
  IN  MapThenSumSet(LAMBDA p : Len(book[side][p]), {p \in ps : Cardinality(ahead(p)) < Levels})

(* imbalance, beyond the threshold towards a side, multiplied out.         *)
Leans(side) ==
  LET other == Against(side)
  IN  100 * (Volume(side) - Volume(other)) > ImbalancePct * (Volume(side) + Volume(other))

(* OrderBookSnapshot.from_book, taken once before the strategies run: the  *)
(* later ones do not see what the earlier ones have cancelled.             *)
Snapshot == [mid2 |-> Mid2, leans |-> {side \in Sides : Leans(side)}]

NoSnapshot == [mid2 |-> 2 * NoPrice, leans |-> {}]

ShowsMid == snapshot.mid2 # 2 * NoPrice

(* What the matching engine does with one lot: it trades with the oldest   *)
(* at the best price opposite, or rests, unless it is a market order.      *)
Execute(o) ==
  LET at == Best(Against(o.side))
      meets == /\ at # NoPrice
               /\ \/ o.price = NoPrice
                  \/ IF o.side = "BUY" THEN at <= o.price ELSE at >= o.price
  IN  IF meets
      THEN /\ book' = [book EXCEPT ![Against(o.side)][at] = Tail(@)]
           /\ last' = at
      ELSE /\ book' = IF o.price = NoPrice THEN book ELSE [book EXCEPT ![o.side][o.price] = Append(@, o.who)]
           /\ UNCHANGED last

SeedBook ==
  [side \in Sides |-> [p \in Price |->
     IF IF side = "BUY" THEN p \in Base - Depth .. Base - 1 ELSE p \in Base + 1 .. Base + Depth
     THEN <<"other">> ELSE <<>>]]

Init ==
  /\ session = "CONTINUOUS" /\ active = FALSE /\ remaining = 0
  /\ events = <<>> /\ inbound = <<>> /\ script = <<>>
  /\ book = SeedBook /\ last = NoPrice /\ snapshot = NoSnapshot
  /\ pc = "idle"

-----------------------------------------------------------------------------
(* Queues ordered by the time their messages are due.                      *)
Places(queue, due) ==
  {i \in 1 .. Len(queue) + 1 : /\ \A j \in 1 .. i - 1 : queue[j].due <= due
                               /\ \A j \in i .. Len(queue) : queue[j].due >= due}

Aged(queue) == [i \in 1 .. Len(queue) |-> [queue[i] EXCEPT !.due = Max({0, @ - TimeStep})]]

IsDue(queue) == queue # <<>> /\ Head(queue).due = 0

(* The event an order travels in, out of the pool of events: whatever it   *)
(* carried before is overwritten.                                          *)
Envelope(o, delay) == [order |-> o, due |-> delay]

(* submit_inbound: behind whatever is due no later (the sequence number).  *)
SubmitInbound(queue, o, delay) == InsertAt(queue, Max(Places(queue, delay)), Envelope(o, delay))

(* A hop's latency model: a draw from its distribution, or its fixed       *)
(* delay, but no less than its minimum; it may have a rate of drops.       *)
Sampled(hop) == {Max({hop.least, x}) : x \in hop.draws}

Delays == {a + b + c : a \in Sampled(NetIn), b \in Sampled(Gateway), c \in Sampled(Engine)}

ShouldDrop == NetIn.drops \/ Gateway.drops

(* pop_due_inbound takes the head.                                         *)
Arrived == inbound[1].order

Resting == MapThenSumSet(LAMBDA sp : Len(book[sp[1]][sp[2]]), Sides \X Price)

Room(n) == Resting + Len(inbound) + n <= MaxLots

-----------------------------------------------------------------------------
(* schedule_event, inject_flash_crash, inject_news_shock: between steps.   *)
(* Nothing but the time orders the event heap.                             *)
ScheduleEvent(ev) ==
  /\ pc = "idle" /\ Len(events) < MaxEvents
  /\ \E i \in Places(events, ev.due) : events' = InsertAt(events, i, ev)
  /\ UNCHANGED <<session, active, remaining, inbound, script, book, last, snapshot, pc>>

InjectFlashCrash == ScheduleEvent([type |-> "SHOCK_FLASH_CRASH", due |-> 1])

InjectNewsShock == Room(NewsDepth) /\ ScheduleEvent([type |-> "SHOCK_NEWS", due |-> 1])

ScheduleSession(s) == ScheduleEvent([type |-> "SESSION_CHANGE", session |-> s, due |-> TimeStep])

-----------------------------------------------------------------------------
(* step.  Fault: an expired halt leaves the session halted.                *)
ReopenedLate(expired) == session

Reopened(expired) == IF expired THEN "CONTINUOUS" ELSE session

(* The clock advances; while the session is halted that is all.            *)
Advance ==
  LET left == Max({0, remaining - TimeStep})
      expired == active /\ left = 0
  IN  /\ pc = "idle"
      /\ remaining' = left
      /\ active' = (active /\ ~expired)
      /\ session' = Reopened(expired)
      /\ events' = Aged(events) /\ inbound' = Aged(inbound)
      /\ pc' = IF session' = "HALTED" THEN "idle" ELSE "events"
      /\ UNCHANGED <<script, book, last, snapshot>>

(* _handle_event: a crash sells at market, news bids for a price above,    *)
(* a session change is just noted.                                         *)
NewsQuotes == {s \in [1 .. NewsDepth -> Price] : \A i \in 1 .. NewsDepth : s[i] \in Rounded(MidOrBase2 + 2 * (Jump - i))}

HandleEvent ==
  /\ pc = "events" /\ script = <<>> /\ IsDue(events)
  /\ events' = Tail(events)
  /\ LET ev == Head(events)
     IN  \/ /\ ev.type = "SHOCK_FLASH_CRASH"
            /\ script' = [i \in 1 .. CrashLots |-> Lot("other", "SELL", NoPrice)]
            /\ UNCHANGED session
         \/ /\ ev.type = "SHOCK_NEWS"
            /\ \E ps \in NewsQuotes : script' = [i \in 1 .. NewsDepth |-> Lot("other", "BUY", ps[i])]
            /\ UNCHANGED session
         \/ /\ ev.type = "SESSION_CHANGE"
            /\ session' = ev.session
            /\ UNCHANGED script
  /\ UNCHANGED <<active, remaining, inbound, book, last, snapshot, pc>>

(* The event's orders go to the venue directly, which may turn any away    *)
(* (module Venue).                                                         *)
SubmitScripted ==
  /\ pc = "events" /\ script # <<>>
  /\ script' = Tail(script)
  /\ Execute(Head(script)) \/ UNCHANGED <<book, last>>
  /\ UNCHANGED <<session, active, remaining, events, inbound, snapshot, pc>>

EventsOver ==
  /\ pc = "events" /\ script = <<>> /\ ~IsDue(events)
  /\ pc' = "noise"
  /\ UNCHANGED <<session, active, remaining, events, inbound, script, book, last, snapshot>>

(* _generate_background_flow: any number of orders about the mid price.    *)
NoiseLots ==
  {Lot("other", side, NoPrice) : side \in Sides}
  \cup {Lot("other", "BUY", p) : p \in {x \in Price : 2 * x <= MidOrBase2}}
  \cup {Lot("other", "SELL", p) : p \in {x \in Price : 2 * x >= MidOrBase2}}

GenerateNoise(o, delay) ==
  /\ pc = "noise" /\ Room(1)
  /\ inbound' = SubmitInbound(inbound, o, delay)
  /\ UNCHANGED <<session, active, remaining, events, script, book, last, snapshot, pc>>

NoiseOver ==
  /\ pc = "noise"
  /\ pc' = "deliver"
  /\ UNCHANGED <<session, active, remaining, events, inbound, script, book, last, snapshot>>

(* Due messages reach the venue, before the strategies run and after.      *)
Deliver ==
  /\ pc \in {"deliver", "post"} /\ IsDue(inbound)
  /\ inbound' = Tail(inbound)
  /\ Execute(Arrived) \/ UNCHANGED <<book, last>>
  /\ UNCHANGED <<session, active, remaining, events, script, snapshot, pc>>

DeliverOver ==
  /\ pc \in {"deliver", "post"} /\ ~IsDue(inbound)
  /\ \/ /\ pc = "deliver"
        /\ pc' = "quote"
        /\ snapshot' = Snapshot
     \/ /\ pc = "post"
        /\ pc' = "check"
        /\ UNCHANGED snapshot
  /\ UNCHANGED <<session, active, remaining, events, inbound, script, book, last>>

-----------------------------------------------------------------------------
(* MarketMakerStrategy.on_market_data.  The quotes it remembers are        *)
(* cancelled where they rest; one that is still in flight cannot be, and   *)
(* its id is forgotten.  New ones go out, and each may be lost.            *)
Fresh(who) == who = "quote"

(* cancel_order by the id of the last quote, wherever it rests.            *)
WithdrawnFrom(level) ==
  IF \E i \in DOMAIN level : Fresh(level[i])
  THEN RemoveAt(level, CHOOSE i \in DOMAIN level : Fresh(level[i]))
  ELSE level

(* Fault: the cancellation of the ask uses the id of the bid.              *)
WithdrawnBids(bk) == [bk EXCEPT !["BUY"] = [p \in Price |-> WithdrawnFrom(@[p])]]

Withdrawn(bk) == [side \in Sides |-> [p \in Price |-> WithdrawnFrom(bk[side][p])]]

Forgotten(queue) ==
  [i \in 1 .. Len(queue) |-> [queue[i] EXCEPT !.order.who = IF Fresh(@) THEN "orphan" ELSE @]]

(* Sent, or dropped on the way.                                            *)
Sendings(queue, o) == {queue : x \in {ShouldDrop} \cap {TRUE}} \cup {SubmitInbound(queue, o, d) : d \in Delays}

Quotes(queue, side, price) ==
  IF price \in Price THEN Sendings(queue, Lot("quote", side, price)) ELSE {queue}

(* A quote at no price above 0 is not sent; nor is one beyond the bound on *)
(* prices.                                                                 *)
Quote ==
  /\ pc = "quote"
  /\ IF ~ShowsMid THEN UNCHANGED <<book, inbound>>
     ELSE /\ book' = Withdrawn(book)
          /\ \E spread \in HalfSpreads :
             \E bid \in Rounded(snapshot.mid2 - spread), ask \in Rounded(snapshot.mid2 + spread) :
             \E withBid \in Quotes(Forgotten(inbound), "BUY", bid) :
               inbound' \in IF ask > bid THEN Quotes(withBid, "SELL", ask) ELSE {withBid}
  /\ pc' = "signal"
  /\ UNCHANGED <<session, active, remaining, events, script, last, snapshot>>

(* MomentumStrategy.on_market_data: a market order when the averages cross *)
(* the way the book leans.  Nobody reports fills to a strategy, so its     *)
(* position stays 0 and holds neither side back.                           *)
Signal ==
  /\ pc = "signal"
  /\ \/ UNCHANGED inbound
     \/ \E side \in Sides : side \in snapshot.leans /\ inbound' \in Sendings(inbound, Lot("other", side, NoPrice))
  /\ pc' = "revert"
  /\ UNCHANGED <<session, active, remaining, events, script, book, last, snapshot>>

(* MeanReversionStrategy.on_market_data: a market order against a mid      *)
(* price that has gone far from its mean; how far it has is a choice, and  *)
(* with a position of 0 there is nothing to close.                         *)
Revert ==
  /\ pc = "revert"
  /\ \/ UNCHANGED inbound
     \/ ShowsMid /\ \E side \in Sides : inbound' \in Sendings(inbound, Lot("other", side, NoPrice))
  /\ pc' = "post"
  /\ snapshot' = NoSnapshot
  /\ UNCHANGED <<session, active, remaining, events, script, book, last>>

-----------------------------------------------------------------------------
(* The breaker compares the last price with the one of the seeded book.    *)
Deviates(p) == 100 * Abs(p - Base) >= ThresholdPct * Base

(* Fault: only a rise trips the breaker.                                   *)
TripsOnRise(p) == p # NoPrice /\ p > Base /\ Deviates(p)

Trips(p) == p # NoPrice /\ Deviates(p)

CheckBreaker ==
  /\ pc = "check"
  /\ IF Trips(last)
     THEN active' = TRUE /\ remaining' = HaltTicks /\ session' = "HALTED"
     ELSE UNCHANGED <<active, remaining, session>>
  /\ pc' = "idle"
  /\ UNCHANGED <<events, inbound, script, book, last, snapshot>>

Step ==
  \/ Advance \/ HandleEvent \/ SubmitScripted \/ EventsOver \/ NoiseOver
  \/ Deliver \/ DeliverOver \/ Quote \/ Signal \/ Revert \/ CheckBreaker

Next ==
  \/ Step
  \/ InjectFlashCrash \/ InjectNewsShock
  \/ \E s \in Sessions : ScheduleSession(s)
  \/ \E o \in NoiseLots, d \in Delays : GenerateNoise(o, d)

(* The loop goes on as long as step is called; how much noise it makes is  *)
(* not part of that.                                                       *)
Spec == Init /\ [][Next]_vars /\ WF_vars(Step)

-----------------------------------------------------------------------------
(* What may go wrong.                                                      *)
IsOurs(side, p, i) == i \in DOMAIN book[side][p] /\ book[side][p][i] # "other"

(* The market maker never has two quotes on one side of the book: it       *)
(* withdraws the last two by their ids, and as long as the gateway takes   *)
(* no longer than a step those are all there can be (on_market_data).      *)
OneQuotePerSide ==
  \A side \in Sides : \A p, r \in Price :
    \A i \in DOMAIN book[side][p], j \in DOMAIN book[side][r] :
      IsOurs(side, p, i) /\ IsOurs(side, r, j) => p = r /\ i = j

(* Between two steps, a market whose last price is off the reference by    *)
(* the threshold is halted, whatever session events, shocks and expiries   *)
(* the step went through (comment: "10% deviation triggers halt").         *)
DeviantMarketHalts == pc = "idle" /\ last # NoPrice /\ 100 * Abs(last - Base) >= ThresholdPct * Base => session = "HALTED"

(* A quote that is in flight when the market halts is not stuck: it gets   *)
(* to the venue once the halt has expired (step, pop_due_inbound).         *)
QuoteInFlight == \E i \in 1 .. Len(inbound) : inbound[i].order.who = "quote"

QuotesArrive == QuoteInFlight ~> ~QuoteInFlight

=============================================================================
