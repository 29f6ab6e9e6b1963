# Zerene, formally

TLA+ models of the Zerene exchange simulator, the TLC runs that check them and
the theorems TLAPS proves about them. Everything is translated from the code
under `src/`; the RFCs in `docs/rfcs` are only used for what the code is
supposed to guarantee.

Contents: [the system](#1-the-system), [the modules](#2-the-modules),
[the properties](#3-the-properties), [the runs](#4-the-runs),
[where code and documents disagree](#5-where-code-and-documents-disagree),
[the proofs](#6-the-proofs), [abstractions, bounds and fairness](#7-abstractions-bounds-and-fairness),
[not modelled](#8-not-modelled), [the plan](#9-the-plan).

## 1. The system

Zerene is a single-threaded, discrete-time exchange simulator in Python with an
optional C++ core. Components, the state they keep and how they interact:

| component (source, under `zerene/`) | state | operations | what must hold |
|---|---|---|---|
| Order (`models.py`) | status, quantity, filled, display/hidden parts, timestamp | creation, remaining quantity | never overfilled; a final status is final |
| Price level (`orderbook/level.py`, node pool in `pools.py`) | linked FIFO queue, `order_nodes`, visible and hidden volume | append, remove, pop_head, update_volume_after_fill | FIFO; volumes are those of the queue; no node leaks or is shared |
| Order book (`orderbook/book.py`) | levels per side, sorted ticks, `order_map` | insert, remove, modify, best prices, clean_empty_level | indexes agree; uncrossed; priority rules of modifications |
| Stop manager (`engine/stop_manager.py`) | two heaps, `order_map` | add, cancel (lazily), check_triggers | a stop triggers when its price trades, once, unless cancelled |
| Matching engine (`engine/matching_engine.py`) | book, stops, pending queue, trade history, last price | process, cancel, mass cancel, modify | price-time priority, limits honoured, self-trades prevented, every call returns |
| Call auction, pegged orders (`engine/`) | collected orders; pegs and offsets | clearing price, uncrossing; repegging | maximal volume; no order overfilled |
| Circuit breaker (`engine/circuit_breaker.py`) | reference price, bands, halt | validate, update reference, halt, expiry | no order outside the collar; halts end |
| Risk engine (`risk/engine.py`, `limits.py`) | positions, running exposures, PnL, kill switch per participant | validate_order, on_trade_fill, update_market_price | counters agree with positions; limits; a kill switch stays on |
| SPAN margin (`risk/span.py`) | portfolio positions | margin, liquidation cascade | positions follow fills |
| Venue (`exchange/venue.py`, `fees.py`) | engines, breakers, risk engine | submit, cancel, modify, mass cancel | nothing reaches an engine unchecked; every trade is booked |
| Latency gateway, SIP (`latency/`) | heaps of events in flight | submit (may drop), pop due | per-hop causality; no event lost silently |
| Simulator (`simulator/`) | clock, session, event queue | step, shocks, session changes | halts end; strategies see what happened |
| Execution (`execution/`), strategies, replay | children of a parent order; quotes; log | routing, slicing, quoting; replaying | children add up to the parent; a replay rebuilds the book |
| C++ core (`src/zerene_core/`) | arena of levels, outlier maps, best prices, slot pool | process, cancel, modify | best price is the best; no slot used twice |
| Datasets, calibration, analytics, benchmarks, CLI, dashboard | files, reports | I/O and statistics | (not modelled) |

Calls go down: simulator -> strategies -> latency gateway -> venue -> risk engine
and circuit breaker -> matching engine -> order book -> price level -> linked
list and node pool. Trades come back up the return path: `Venue.submit_order`
gets the list of trades from `MatchingEngine.process_order` and books them on the
risk engine, whose kill switch calls back `Venue.cancel_all_for_participant`.
Order objects are shared by reference between all layers: the engine, the book,
the stop manager and strategies change the same object.

There is one thread. Inside an engine what is hard is not interleaving but *long
sequences of legal calls over shared mutable objects*: the same quantity is kept
in four places (the order, the level's volumes, the queue and the map), several
mechanisms act within one call (a fill that replenishes an iceberg that moves in
the queue it is being popped from), and the loops of a call are only left when all
those agree. Above the engine, calls cross one another: a kill switch trips while
the trades of a call are being booked, a cancel overtakes the order it is for, a
halt begins while messages are in flight, and running sums have to
follow it all. `PROJECT.json` lists these hazards at their lines, with the
properties that cover them.

## 2. The modules

```
Orders <- PriceLevel <- OrderBook <- StopManager <- MatchingEngine
                                                         ^
       PriceTimeBook (abstract) <---- refinement --- EngineProperties <- MCEngine
             ^                                           ^
             |                        MatchingEngineProofs <- EngineOrdersProofs <- EngineBookProofs
             |
             +----------------------- refinement --- NativeEngine <- MCNative, NativeEngineProofs
       FifoQueues (abstract) <------- refinement --- LinkedQueue <- LinkedQueueProofs

RiskEngine, CircuitBreaker <- Venue <- MCVenue, VenueProofs
Simulator <- MCSimulator, SimulatorProofs
CallAuction <- MCAuction      Router <- MCRouter      ExecutionAlgos <- MCAlgos
```

`A <- B` reads "B extends A". `MC*` modules (and `LinkedQueue`) are what TLC
runs, `*Proofs` modules what TLAPS checks; `CommonLemmas`, facts about sequences
used as queues and about sums, is extended by all `*Proofs` modules.

| module | models | correspondence |
|---|---|---|
| `Orders` | `models.py` | an `Order` is a record; an object is known by its `internal_id` (`Uid`), `order_id` is the client's; `NewOrder` is the constructor with `__post_init__`; `Released` and `Acquired` are what `OrderPool` (`pools.py`) wipes and fills in |
| `PriceLevel` | `level.py`, class `PriceLevel` | a level is a record of a sequence and two volumes; each method is an operator with the same clipping at 0 |
| `OrderBook` | `book.py` | the book as a value: ticks with a level, the levels, `order_map`; `modify_order` is split by outcome |
| `StopManager` | `stop_manager.py` | each heap is a set; its top is the element that comes first in (price, timestamp, order id); cancelled entries stay in the set and leave the map |
| `MatchingEngine` | `matching_engine.py` | the state machine: state variables are the engine's attributes plus a program counter |
| `PriceTimeBook` | RFC-001 2.2, 3.1 | abstract: resting orders with price, time and lots; who may be executed next |
| `EngineProperties` | - | the engine's properties, the refinement mapping, the inductive invariant |
| `LinkedQueue` | `DoublyLinkedList`, `PriceLevel.order_nodes`, `OrderNodePool` | pointers as functions on node numbers, two levels share one pool; what the code sees by following `next` or `prev` is a walk (`Forward`, `Backward`) |
| `FifoQueues` | - | abstract: sequences with join, leave, take the head, head to tail |
| `RiskEngine` | `risk/engine.py`, `risk/limits.py` | a participant's state is a record; `validate_order`, `on_trade_fill` and `update_market_price` are operators that return the new record |
| `CircuitBreaker` | `engine/circuit_breaker.py` | a breaker is a record; bands, halt with its age, expiry, admission of an order |
| `Venue` | `exchange/venue.py`, `risk/span.py` | the two above composed with an abstract engine (the set of resting orders, traded in price-time priority) and with the liquidation cascade |
| `NativeEngine` | `zerene_core/*.hpp` | slots of the pool, free list, level queues, keys of the outlier maps, cached best ticks, id index; `LastTick` is the sentinel of the best ask |
| `Simulator` | `simulator/market_sim.py`, `simulator/events.py`, `latency/`, `orderbook/snapshots.py`, the market maker, momentum and mean reversion of `strategies/` | one symbol, one-lot orders; the event queue and the gateway's inbound queue as sequences with relative due times; the one `snapshot` of the book that all strategies of a step are shown |
| `CallAuction` | `engine/call_auction.py` | collected orders, clearing price as an operator, one step per trade of the uncrossing |
| `Router` | `execution/router.py` | latest snapshots; a routing is one step; its `Children` are a function from venues to child orders |
| `ExecutionAlgos` | `execution/algos.py` | the four schedules in one module, each with its constructor (`Start*`, `Even`, the clamp of the participation rate): clock, trigger time, slice index, quantity handed out, last child |
| `MC*` | - | orders, amendments, hops, snapshots and weights for the runs |
| `*Proofs`, `CommonLemmas` | - | theorems, lemmas and proofs |

**Steps.** A call is a sequence of steps, one per loop iteration of the code, so
that "the call returns" and "this holds half way" are properties and not
assumptions. `pc` says where the call is.

The Python engine (`MatchingEngine`):

| `pc` | code | actions |
|---|---|---|
| `idle` | between calls | `Submit`, `Cancel`, `CancelAll`, `ModifyToNothing`, `ModifyAcross`, `ModifyRequote`, `ModifyReduce` |
| `loop` | the loop of `process_order` and the checks of `_process_single_order` | `RejectInvalid`, `RejectStop`, `ParkStop`, `RejectUnfillable`, `RejectTaker`, `StartMatch`, `Drained` |
| `match` | the loops of `_match` | `DropDrained`, `StpCancelNewest`, `StpCancelOldest`, `StpDecrement`, `Execute`, `NoProgress`, `MatchDone` |
| `residual` | what is left of the order | `Complete`, `Expire`, `Rest` |
| `trigger` | the loops of `check_triggers` | `SkipCanceled`, `Trigger`, `TriggersDone` |
| `sweep_book`, `sweep_stops` | the two loops of `cancel_all_for_participant` | `SweepOne`, `SweepStops`, `SweepDone` |

`NoProgress` is the iteration of `_match` that leaves the inner loop by one of its
two `break`s and comes back with nothing changed. It is a stuttering step; under
the fairness below it is what an endless loop looks like.

The venue (`Venue`):

| `pc` | code | actions |
|---|---|---|
| `idle` | between calls | `Submit`, `Refuse`, `CancelOrder`, `CancelAllForParticipant`, `ModifyOrder`, `Halt`, `TimePasses`, `SetCashBalance`, `UpdatePosition`, `Liquidate` |
| `matching` | `process_order` of the engine | `Match`, `MatchDone` |
| `booking` | the loop over the trades in `submit_order`, each with its kill-switch callback | `Book`, `BookDone` |
| `liquidating` | the loop of `execute_liquidation_cascade`, which submits orders itself | `LiquidatePosition`, `LiquidationDone` |

The C++ core (`NativeEngine`): `idle` (`ProcessOrder`, `CancelOrder`,
`ModifyInPlace`, `ModifyRequeue`, `Unknown`), `match` for the outer loop of
`process_order_fast` (`StartLevel`, `SkipLevel`, `MatchOver`), `level` for the
inner one (`DropSpent`, `Execute`, `LevelOver`), `place` for what is left.

The simulator (`Simulator`): one `MarketSimulator.step` goes through
`idle` (`Advance`: clock and expiry of a halt), `events` (`HandleEvent`,
`SubmitScripted`), `noise` (`GenerateNoise`), `deliver` (`Deliver`), `quote`
(`Quote`), `signal` (`Signal`), `revert` (`Revert`), `post` (`Deliver` again) and
`check` (`CheckBreaker`). The snapshot is taken before `quote`, so the later strategies
still see what the market maker has just withdrawn. Shocks and session changes are scheduled between two steps.

Definitions whose comment contains *Fault:* are not part of the model. Each is a
definition with a plausible mistake in it; replacing the original by it must make
the property that guards it fail (`mutants` in `PROJECT.json`).

## 3. The properties

Each stands under the code it is about, in a comment.

Python engine (`EngineProperties`):

* the book: `BookUncrossed`, `BookIndexed` (map, queues and sorted ticks agree),
  `VolumesAddUp`, `VolumesNeverExceed`, `VolumesCoverRemaining`;
* fills: `FilledWithinQuantity`, `FillsAreTrades`, `TradesWithinLimits`,
  `NoZombieFills`, `FokRefusedOnlyIfShort`;
* `PriceTimePriority`, the refinement of `PriceTimeBook`. The mapping forgets
  levels and queues: an order is seen as its side, price, tick, timestamp and
  remaining lots. An execution must take from an order none precedes; only a new price or
  more lots may give an order a new time, and one that keeps its price and does not
  grow keeps its time (`Requote` and `Reduce` of the abstract book);
* stops: `OnePlace`, `DueStopsAreNew`, `CanceledNeverTriggers`;
* participants: `NoPreventableSelfTrade`, `SweepLeavesNothing`;
* `CallsReturn` (liveness), and `EngineInv`, the invariant of the proofs.

Linked lists (`LinkedQueue`): `StrictFifo` (refinement of `FifoQueues`),
`LinksMirror`, `NodesConserved`, `EntriesFindNodes`.

Venue: `ExposuresAgree` (the counters maintained by adding and subtracting equal
the sums they stand for, for everybody who was not valued before there was a market
price: `guessed`, section 5), `MoneyConserved` (of everybody: profit taken and open less the value
of positions sums to what the participants without risk state have paid: entry
prices survive growing, shrinking and changing sign), `KilledRestNothing`,
`KilledPositionsFrozen`. `PositionsMatchTrades` is the one that fails (section 5).

C++ core: `PoolConserved` (every slot is free, queued or in hand, exactly once),
`IndexFindsResting`, `BestIsBest`, `ArenaPriority` (the second refinement of
`PriceTimeBook`; the last two for prices within the arena).

Simulator: `OneQuotePerSide`, `DeviantMarketHalts`, and `QuotesArrive` (liveness:
what is in flight when the market halts is delivered after the halt).

Call auction: `ClearingIsOptimal` compares the scan of the code with the optimum
of the three criteria stated as sets; `UncrossingFair` is about the whole
uncrossing: volume, limits, rank.

Router: `ChildrenAddUp`, `SweepsCheapest`. Schedules: `NeverAheadOfSchedule`,
`Completes` (liveness).

## 4. The runs

Passing runs; each takes between a second and three minutes with two workers.

| run | participants | what it shows |
|---|---|---|
| `book` | limit, post-only, market, IOC, fill-or-kill, iceberg and hidden orders; cancels | the book's and the fills' properties, no refusal of a fill-or-kill order the book could fill, the invariant of the proofs also where icebergs upset the queue |
| `amend` | two owners, plain orders, three amendments, all prevention modes that leave nothing resting, a waiting stop, mass cancels | every outcome of a modification, also of partly filled orders; self-trade prevention; priority; termination |
| `stops` | stops and stop-limits on both sides, three prices | cascades, lazy deletion, order of triggering, termination |
| `linked_queue` | two levels, three orders, three nodes (the pool grows from one by two) | list surgery and node reuse |
| `venue` | two participants and the liquidator, one symbol | risk checks, breaker, matching, booking, kill switches and liquidations composed |
| `native` | ticks 2 to 4, of which 2 and 3 are in the arena; pool chunks of two slots | pool, index, cached best prices, priority |
| `simulator` | seeded book, noise, market maker, momentum and mean-reversion trader, shocks, session changes, halts | quotes do not pile up, the breaker holds, messages arrive |
| `auction` | every book of up to four orders, with and without a reference price | clearing price and uncrossing |
| `router` | three venues with a rebate and fees that reverse the order of raw prices | passive splits and sweeps |
| `algos` | four kinds of schedule with equal, skewed and zero weights | asked early, late, repeatedly |

Bounds, and why they are enough:

* Engine: `MaxOrders` = 4 orders in a behaviour, `MaxClock` = 4 calls that carry a
  timestamp, two ticks (three for stops), quantities up to 3. Four orders let a
  taker meet two makers on one level or on two with a third order of the same
  participant behind them, or let a stop wait for a trade and another for the
  trade that one causes. The runs divide the *kinds* of orders among themselves
  and take every order and every call in any sequence. Order ids are unique in
  the runs (`IdOf` is the identity); the proofs allow any. No symmetry is used:
  ids order the stops' heaps.
* Venue: four calls that put an order on the book; positions up to
  `MaxPosition` = 3 with three starts: flat; one long and one short under a market
  price; the same, entered at two and at one price step, before there is any market
  price; limits
  (`Capital` 1200, `MaxDailyLoss` 120, `DrawdownPct` 15, `MaxGross` 1000) small
  enough for a move of one price step to trip the switch; prices are multiples of 120 so that averages are whole numbers
  (`Exactly` stops the run if one is not). A halt lasts one tick of the clock; a cash balance of -800
  forces a liquidation.
* C++ core: five calls; the pool expands more than once, one level is outside the arena.
* Simulator: prices 1 to 3 about a base of 2, one level on each side, at most
  three lots resting and in flight when noise adds one, one scheduled event at a
  time, changes to `AUCTION` (a change to `CONTINUOUS` is what every expiry does), halts of two steps, a threshold of
  one tick. The way in is lossy and takes at most one step (`Lossy`), the other
  hops are immediate (`Fast`). A book with one side empty has a one-sided middle.
* Auction: four orders, candidate prices rounded to multiples of 3 (the code's four
  digits), references none and 7.
* Router: four snapshots, empty, shallow, and deep; six parents; `SplitAbove` = 2.
* Schedules: 12 units over four slices of two ticks, calls up to one interval past
  the end.

What the restrictions mean: `CallsReturn` is *not* true of icebergs, of modified
hidden orders and of limit orders with `CANCEL_NEWEST` (section 5); `amend` and
`stops` show it for books without these. `OneQuotePerSide` needs latencies of at
most a step, `QuotesArrive` needs that no session change goes to `HALTED`, and
`TradesWithinLimits` needs limit prices on the grid. Which of these restrictions
the proofs lift, and which they turn into hypotheses, is in section 6.

## 5. Where code and documents disagree

Two runs that TLC must refute, on a small instance. The quoted lines are in
`PROJECT.json` under `findings`.

| run | what happens |
|---|---|
| `iceberg_hang` | one fill takes several tranches of an iceberg and completes it: the replenishment has moved it to the tail, `pop_head` removes the order behind it; a finished order stays queued and, at the head, makes `_match` loop for ever |
| `lost_trades` | an order modified across the book trades inside `modify_order`; nobody receives those trades, so positions, exposures and the kill switch miss them |

Observations without a run of their own.

Python engine:

* A partly filled hidden order that is modified and then filled leaves hidden
  volume on an empty level, and `_match` loops for ever (`book.py:203`, `:235`).
* An order that traded on arrival rests with its whole quantity displayed; a
  fill-or-kill order accepted on such volume is filled in part
  (`matching_engine.py:364`). An order modified to more lots does not display
  them, so a fill-or-kill order that could be filled is refused (`Requoted`).
* An order cancelled by `CANCEL_NEWEST` rests and is filled later (`:277`).
* A stop passed by an intermediate trade of a sweep is not triggered: stops only
  see the last trade of an order (`:127`).
* A limit price off the grid trades at the rounded price, outside the limit
  (`models.py:112`).
* `OrderPool.acquire` leaves an iceberg that asks to show more than it has with that
  tranche; the constructor cuts it to the quantity (`pools.py:92-95`, `models.py:113-128`).
* An iceberg trades its hidden part before orders queued behind its tranche
  (`Overlap`); a market or IOC order filled in part stays `PARTIALLY_FILLED`
  (`Expire`); an order that self-trade prevention decrements to nothing is
  `FILLED` without a trade (`StpDecrement`, `Complete`).
* With a repeated order id, a mass cancel leaves the first order on the book
  (`InsertOrder`) and a cancelled stop triggers after all (`Trigger`). Two stops
  that tie on price, timestamp and id make `heapq` compare `Order` objects, a
  `TypeError` after `order_map` was written (`stop_manager.py:33`).

Venue, risk, margin:

* Positions written before there is a market price are valued at their entry price by
  the first call that looks at them (`risk/engine.py:93`), and the first market price
  changes nothing that is carried (`:170-171`): gross and net exposure and open profit
  are wrong from then on. `tests/test_risk.py:52-54` and `:118-119` write positions that
  way. The model does the same and remembers whom it happened to (`guessed`).
* Modifications pass neither the risk checks nor the collar (`venue.py:137`); the
  collar ignores market orders, and stops when they trigger.
* The position limit looks at the filled position; resting orders may together
  exceed it (`risk/engine.py:219`).
* The liquidation cascade writes a position off whatever its order fills
  (`span.py:170`), and SPAN counts a short position as collateral like a long one.

Simulator and strategies:

* Nothing calls `on_order_fill` of a strategy: `max_inventory` is never enforced
  and the strategies' positions stay 0.
* With latencies longer than a step the market maker forgets orders still in
  flight, which then rest for good.
* A dropped packet loses its order without a trace.
* The breaker's reference never moves, so a market that stays away is halted
  again in the step its halt expires in. The expiry sets `CONTINUOUS`, whatever
  session a `SESSION_CHANGE` had set; a change to `HALTED` is never undone, as
  events wait while the market is halted; `AUCTION` and `PRE_MARKET` trade like
  `CONTINUOUS`.

Auction, router, schedules:

* A candidate price is rounded to four digits, and the order it came from may not
  accept it (`call_auction.py:62`).
* The residual of a sweep beyond the visible depth is rounded per venue and not
  corrected: children add up to more or less than the parent
  (`router.py:243-257`). A snapshot is used however old it is (`:88`).
* A passive slice in a market one tick wide is pegged to the opposite quote
  (`algos.py:61-74`).

C++ core:

* While the best price is an outlier, the arena is not searched; an outlier level
  emptied by trades is never erased, and once it is the best one a taker skips it
  for ever (`order_book.hpp:104-114`, `:154-158`).
* `modify` neither matches a price that crosses nor compares the quantity with
  what has filled (`matching_engine.hpp:133`).

## 6. The proofs

**The engine.** `MatchingEngineProofs` proves, for every value of the constants
that satisfies the assumptions:

* `InvariantHolds`: `Spec => []EngineInv`
* `TypeCorrect`: `Spec => []TypeOK`
* `NeverOverfilled`: `Spec => []FilledWithinQuantity`
* `PooledOrdersAreNew`: an order object that was released and acquired again equals
  the one the constructor would have made, but for the iceberg of section 5; the
  theorem says "if and only if", so nothing else of a former life survives

Assumptions (evaluated by TLC on every run of the engine): the bounds are natural
numbers; there is at least one order id and one owner; ticks are prices, every
price has a nearest tick, and every non-empty set of ticks has a least and a
greatest one (`GridAssumption`, true of any finite grid); tickets, amendments and
`IdOf` have their types (`InputAssumption`).

`TypeOK` is not inductive. `Execute` charges the same number of lots to
`order[cur]` and to `order[Maker]` in one `EXCEPT`; that fills neither beyond its
quantity only if they are two different orders, and the maker is whatever stands
at the head of a queue. So the invariant says where queue entries come from: an
entry of a level's queue is an order that has been submitted and is on *that
side* (`BookOK`); the taker matches the opposite side, hence is not the maker, and
both have at least `Overlap` remaining. Requoting and re-entering orders keep
their side, so this survives `modify_order`. Nothing in it needs the map and the
queues to agree, which is why it also holds of icebergs whose queue goes wrong.
The rest is bookkeeping: only submitted orders are pending, waiting or mapped, and
a matching call has a current order, which `order'`s type needs.

Layout: lemmas about levels (`LevelAppend`, `LevelRemove`, `PopHead`, the fills),
then about the book (`StoreLevelOK`, `RemoveOrderOK`, `InsertOrderOK`; `BookStays`
and `BookGrows` for steps that change orders under an unchanged book), then one
lemma per group of actions (`SubmitInv` to `TriggerInv`), then `StepInv` and the
theorems.

**Where an order is.** An `Order` object is shared by the pending queue, the
running call, the book and the stop manager. `MatchingEngineProofs` also proves, from
the same assumptions only, for any orders, ids used twice included:

* `PlacesHold`: `Spec => []PlacesInv`
* `PlacesExclude`: `Spec => []OnePlace`

`OnePlace` is not inductive. An order leaves the book by its *price* (the level
`remove_order` looks it up in) and by its *id* (the entry of `order_map`), and
leaves the stops by their map only, its heap entry staying behind. So `PlacesInv`
says that a queue holds an order once, at the side and price the order itself
names (`Placed`), that both maps know an order under its own id only (`Named`),
and that four sets are disjoint (`Apart`): pending orders, orders the book reaches
by queue or by map, orders in a heap *whether or not they are cancelled*, and the
order in hand. A requoted order changes its price while it is on no queue; a
replenished iceberg leaves and re-enters the same queue; neither breaks it, nor
does `pop_head` when it removes the wrong order, since that order then is nowhere.

**What becomes of an order.** `EngineOrdersProofs` builds on that:

| theorem | states | provided that |
|---|---|---|
| `SelfTradePrevented` | `Spec => []NoPreventableSelfTrade` | - |
| `CanceledStayAway` | `Spec => CanceledNeverTriggers` | ids are not reused, `IsInjective(IdOf)` |
| `EndedStayEnded` | `Spec => NoZombieFills` | `NewestNeverRests`: who asks for `CANCEL_NEWEST` is a market, IOC or fill-or-kill order |
| `LimitsHonoured` | `Spec => TradesWithinLimits` | limit prices are on the grid, `Price = Tick` |
| `FillsAccounted` | `Spec => []FillsAreTrades` | `NoDecrement`: no ticket asks for `DECREMENT_AND_CANCEL`, which books lots as filled that nobody traded |

The first needs that trades name submitted orders, whose owner and mode never
change again (`TradesKnown`). The hypotheses are not conveniences: the
property is false without each. A repeated id makes `cancel_order` forget another
order than the one it marks, and a limit order that `CANCEL_NEWEST` has cancelled
is put on the book and filled later (`matching_engine.py:277`); both are in
section 5. `StopInv` adds that nothing pending and nothing in the stops' map is
cancelled. `EndedInv` adds who may have ended where: nobody pending; in hand only
an order self-trade prevention has just cancelled, which will not rest; on a queue
only an order with nothing remaining. That last case is the iceberg completed while
its replenishment puts it back in the queue: it is queued, it is `FILLED`, it
hangs the engine (`iceberg_hang`), but it is never charged another lot.

`TradesWithinLimits` is about the limits at the moment of the trade. The maker's is
the price of the level it stands at, which `Placed` says is its own; the taker's was
compared with that price when the level was chosen. Off the grid neither is so.
`FillsInv` is `FillsAreTrades` with what it rests on: trades name submitted orders,
and none of them decrements. The sum over the trade history is a fold, defined by recursion on
a set; `CommonLemmas` characterises it without induction over data: a function that
solves the recursion on every subset exists (`SolutionExists`), any two such
solutions agree (`SolutionsAgree`, by a smallest counterexample), and from there on
sums are taken apart and put together by element (`SumTake`, `SumAdd`, `SumChange`,
`SumSame`). `Execute` appends one trade, which adds its lots to exactly the two
orders it charges.

**The book as a whole.** `EngineBookProofs` proves what relates the orders to the
levels, the map and the stops:

| theorem | states | provided that | invariant |
|---|---|---|---|
| `DueStopsTriggered` | `Spec => []DueStopsAreNew` | - | `DueInv` |
| `NeverCrossed` | `Spec => []BookUncrossed` | `Price = Tick`, `NewestNeverRests`, no icebergs | `CrossInv` |
| `VolumesExact` | `Spec => []VolumesAddUp` | no amendments, `ShownWhole` | `VolumeInv` |
| `VolumesCover` | `Spec => []VolumesCoverRemaining` | no amendments, `ShownWhole` | `VolumeInv` |
| `FokRefusedRightly` | `Spec => FokRefusedOnlyIfShort` | no amendments, `ShownWhole` | `VolumeInv` |
| `VolumesBounded` | `Spec => []VolumesNeverExceed` | `NoneHidden` | `VolumeBound` |
| `BookStaysIndexed` | `Spec => []BookIndexed` | `IsInjective(IdOf)`, no icebergs, `NoneHidden` | `IndexInv` |
| `SweepsComplete` | `Spec => SweepLeavesNothing` | `IsInjective(IdOf)`, no icebergs | `SweepsInv` |
| `PriorityHolds` | `Spec => PriceTimePriority` | no icebergs | `PriceTimeInv` |

"No icebergs" is `NeverSent("ICEBERG")`. `ShownWhole`: who names a display quantity and
is neither an iceberg nor hidden shows the whole order. `NoneHidden`: either there are
no amendments, or no icebergs and no hidden orders. Everything else is arbitrary:
orders, owners, ids, prices, grid, self-trade prevention, stops, mass cancels.
The hypotheses are limits of the code, not of the argument:

* *Icebergs.* A fill that exhausts the tranche puts the iceberg at the tail of its
  queue, with the timestamp it had, while `_match` goes on to `pop_head`, which
  takes out whoever is first by then. The one removed is still in `order_map`, the
  iceberg stands behind younger orders, and the order that vanished from the queue
  cannot be found by a sweep.
* *Amendments of hidden orders.* An amendment whose price crosses sends the order through
  matching with the new quantity and the old `hidden` part (`ModifyAcross`). What then rests
  adds more to the level than the order has; a later reduction corrects the order and not
  the level, whose hidden volume stays above the sum. A
  level whose last order leaves then does not count as empty.
* *Enlarging amendments.* They raise the quantity and not the display, so the level
  shows less than it can trade. Volumes are then only bounded, not exact.
* *Repeated ids.* `order_map` has one entry per id, and forgets the first order.
* *`CANCEL_NEWEST`.* A limit order that it has cancelled is put on the book (section
  5), where it may cross.

*Stops.* `DueStopsAreNew` fails within a call, when stops are yet to be triggered, and
nothing in it says which. `NoneOverdue` says that whenever triggers have been looked for
since the last trade, each waiting stop whose price is reached was submitted after that
trade; trades carry their timestamp for that. It needs `TimesPassed` (nothing is younger than
the clock) and `StopsComeAlone`: a call that parks a stop has not traded before.

*Volumes.* `BookAddsUp` says for every level that its two volumes are the sums, over its
queue, of what each order shows and hides; with `FALSE` as first argument, that they are
no more than that. The sums are those of `CommonLemmas`. Every change of a level is one of
few: a member joins, leaves, or changes its contribution, and the code adds or
subtracts the same, clipping at 0; the clip never bites while the sum is exact. `Covered`
relates an order's parts to what it has left (what shows and hides is at least what
remains), which gives `VolumesCover` and, as a refused fill-or-kill order was compared
with these volumes, `FokRefusedRightly`. That property does not speak of orders that
another check would turn away anyway (`RefusedAnyway`).

*Index.* `MappedRest` and `RestMapped` say that the map and the queues name the same
orders. The levels that exist are those where somebody queues (`LiveFilled`): a level
goes when `is_empty` holds, which looks at volumes, so `VolumeBound` is needed, not
only the queues. A sweep collects ids first and cancels them one by one; `ListsCover`
says that its list still covers what the owner has on the book, and then in the stops.

*Crossing.* An order rests only when matching is over. `ResidualClear` says that what is
left of it then does not reach the other side, since `_match` stops only when the best
opposite level is gone, too far away, or the order is done.

*Priority.* Queues stand in order of timestamps (`InTime`), and a running call works with
its own time, the latest there is (`CallTimes`). So whoever rests or is requoted joins
the tail rightly, and the head of the best level precedes everybody (`HeadIsFirst`).
Each action is then an action of `PriceTimeBook`, or leaves what it sees alone:
executions and decrements take lots from a first order, cancels and completed
fills withdraw one. An amended order that stays gets a new time only where
`LosesPriority` holds, that is, with another price or more lots, and keeps its time
otherwise; `PriceTimeBook.Requote` allows nothing else, which is why the view of an
order has its price as well as its tick.

**The linked lists.** `LinkedQueueProofs` proves, for any levels, orders, initial
pool and extension size (`SizeAssumption`):

* `QueueInvHolds`: `Spec => []QueueInv`
* `LinksAgree`, `NodesStayConserved`, `EntriesFind`: `LinksMirror`,
  `NodesConserved` and `EntriesFindNodes`
* `ListsAreFifo`: `Spec => StrictFifo`, the refinement of `FifoQueues`

The properties speak of walks along pointers, which are recursive functions, and
what a recursion computes cannot be shown by induction here. `WalkAlong` goes
round it: if the links lead along a sequence, the walk visits that sequence,
because the *least* position where it did not would follow one where it did
(`LeastNat`). After that only sequences occur. The invariant says that the links of
each level form one chain from head to tail (`WellLinked`), that the pool is exactly
the nodes that are on none (`PoolOK`, `NodesOwned`), and that `order_nodes` and
`node.order` are inverse (`EntriesOK`). Surgery on one level must not disturb
another that shares the pool (`LinkedFrame`); each operation is then shown to be
one step of the abstract queue, the move of a replenished iceberg as well.

**The kill switch.** `VenueProofs` proves, for any participants, symbols, limits,
tickets, amendments, endowments and number of calls:

* `KillInvHolds`: `Spec => []KillInv`
* `KilledNeverRest`: `Spec => []KilledRestNothing`
* `KilledNeverTrade`: `Spec => KilledPositionsFrozen`

from `VenueAssumption` (tickets are orders, amendments have their fields, starting
positions are integers). `KilledRestNothing` is not inductive: the residual of the
order being matched is put on the book at the end of matching, so its owner must
not have been killed since it was admitted; and the positions of a killed
participant stay frozen only if no trade still to be booked is theirs. `Apart`
says both, in terms of `settled`, those who were killed when the call began: they
own nothing on the book, hence are no maker, and do not pass `ValidateOrder`,
hence are no taker. Whoever is killed *during* a call may still be a party of
later trades of that same call; that is why the property speaks of `settled`.
Nothing is assumed of prices and profits: a record keeps its fields and its
positions stay integers (`VenueTyped`), whatever the money says.

**The accounts.** `VenueProofs` also proves

* `AccountsHold`: `Spec /\ []WholeAverages => [](Accounts /\ MoneyBalanced)`
* `ExposuresAlwaysAgree`: `Spec /\ []WholeAverages => []ExposuresAgree`
* `MoneyStays`: `Spec /\ []WholeAverages => []MoneyConserved`

`AccountingAssumption`, which TLC evaluates in the venue's runs, says that there are
finitely many participants and symbols, that nobody amends an order to a negative
price (`modify_order` would accept one, `Order.validate` refuses it on submission), and
that whoever writes a position at the start writes a positive entry price with it.
There may be a market price then or not, and the positions may be worth anything between
them: what they cost is where `paid` starts. That positions are written before the
first call only is how the model is built (`Init`), and a restriction as well. `WholeAverages` says that the entry
prices the next booking calculates are integers. The code's are floats; in the model
`Exactly` has no value for another quotient, so without the hypothesis there is
nothing to state. It excludes no behaviour of the `venue` run, where TLC would stop
with an error.

Neither property is inductive. The code adds and subtracts at the *traded* price, so
the counters stay right only because the mark was moved to that price before, because
no position is open without an entry price (`Entered`) or a mark (`Quoted`: a mark of 0
would make `PriceOf` fall back on the entry price), and because the clip of the gross
exposure at 0 never bites, as what it takes away is one summand of a sum of natural
numbers (`SumNat`). Marks and entry prices are positive because trades are, trades
are because resting orders are, and a market order has no price but never rests; all
this is in `Accounts`, with the counters as sums over symbols (`Reckoned`). Only `Quoted` can
fail: at the first call after positions were written without a market price. `guessed`
holds who that happened to; of their counters nothing is said, of their
positions, entry prices and money (`Sheet`) everything. A record that is dirty agrees with nothing until it is synced, and is synced before anything reads it.
For the money a participant's *worth* is the profit taken less what the position cost:
prices drop out of it, so only fills move it. `FillCosts` shows that a fill
moves it by its lots times its price, in all the cases of `on_trade_fill` (open, grow,
shrink, close, change sign), `AccountsBook` that maker's and taker's changes cancel out, also
when they are the same participant, whose second fill starts from the entry price the
first has left.

**The C++ core.** `NativeEngineProofs` proves, for any ticks and arena, orders,
amendments, chunk size and number of calls (`NativeAssumption`: ticks are not
negative, as the sentinels of the cached best ticks need them to be):

* `NativeInvHolds`: `Spec => []NativeInv`
* `PoolIsConserved`, `IndexFinds`, `BestHolds`: `PoolConserved`,
  `IndexFindsResting` and `BestIsBest`
* `ArenaKeepsPriority`: `Spec => ArenaPriority`, the refinement of `PriceTimeBook`

The last two carry their premise within the property, as the runs do: as long as
no price outside the arena has been used. None of the properties is inductive alone.
A slot goes back to the pool when its order is spent, so the index must not name
it any more; the index loses an entry only when the queue does; and a taker is
indexed only once it rests. `NativeInv` therefore ties them: queued slots are at
their side and tick and indexed (`QueuedAreFiled`), indexed slots are queued
(`IndexedAreFound`), free slots are nobody's (`FreeAreFree`), every other slot is
somebody's (`SlotsUsed`), and the slot in hand is neither (`HandHeld`).
`BestIsBest` fails half way through a level, whose last order may be gone while the
cache still names it: `CacheHolds` allows that on the facing side, in `level` only.
The refinement needs `QueuesArranged` (along a level, orders have stood for ever
shorter) for time priority and `CacheHolds` for price priority; every action is
then an action of the abstract book or leaves what it sees alone.

**The simulator.** `SimulatorProofs` proves
`BreakerHolds`: `Spec => []DeviantMarketHalts`. The property is inductive as it
stands, because a step of the loop ends at `idle` in two places only: in
`CheckBreaker`, which halts exactly when the last price trips it, and in `Advance`
when it returns early, which it does only while halted. What is scheduled between
two steps touches neither session nor price.

It also proves `QuotesDoNotPileUp`: `Spec => []OneQuotePerSide`, provided that no
message is under way for longer than a step (`Swift`). That holds of
`LatencyGateway`'s default hops, 1.3 ms together against steps of 1 s, and is not
guaranteed by a `StochasticLatency`, under which the property is false (section 5).
`QuotesInv` follows the quotes on their way: the inbound queue is in order of due
times and what a step has put there is due by the next (`QueueHolds`); of each side
at most one quote is in flight, and while one is, none rests (`BookHolds`), since
the market maker cancelled what it had before it quoted. Losses, halts that leave
quotes in flight and prices that drift are all allowed.

**Only model-checked.** Liveness (`CallsReturn`, `QuotesArrive`, `Completes`) is out of
the prover's reach. Every invariant and every action property of the Python engine, the
linked lists, the venue, the C++ core and the simulator that a passing run checks is
a theorem, under the hypotheses named above. What is left to TLC are the algorithms:
`ClearingIsOptimal` and `UncrossingFair` of the auction, `ChildrenAddUp` and
`SweepsCheapest` of the router, `NeverAheadOfSchedule` of the schedules. The clearing
price, the depth walk of the router and its allocation are sums and selections over lists of any
length, so their theorems need facts about folds that have not been proved. The runs go beyond the hypotheses in one place: `book` checks
`BookUncrossed` with icebergs too, of which no theorem speaks.

## 7. Abstractions, bounds and fairness

Engine:

* Quantities are whole lots; the tolerance 1e-9 of the code becomes 0. The rule
  `max(1.0, slice)` for replenishments is kept.
* A tick is identified with the price it stands for; only the rounding of a
  price to the nearest tick is modelled (`TicksOf`).
* Time is a counter that advances with each call that carries a timestamp, so
  timestamps are distinct and increase, as the simulator's do within an engine.
* `Order` objects are never freed: nothing in the engine gives an order or a trade
  back to its pool. What the pools fill in when they are asked is modelled
  (`Acquired`, `Venue!TradeOf`, `Simulator!Envelope`), their free lists are not.
* `process_order` is never entered again from within itself: `_processing_active`
  guards against callbacks, and no code in the repository calls back.
* The engine treats `GTD` exactly like `GTC`, and the types `REPLACE` and `*_PEG`
  exactly like `LIMIT`; they are left out of `TimeInForce` and `OrderType`.
* An integer price goes through the same conversion to ticks as a float
  (`EligibleTicks`; `_can_fill_completely` takes one for a tick already,
  `matching_engine.py:348-352`). An explicit display quantity of 0 for a plain order,
  and `OrderPool.acquire`'s own `hidden_quantity`, are not represented.
* The heaps' arrays are abstracted to the sets of their entries; a full tie,
  where `heapq` would raise, is resolved arbitrarily.

Venue:

* The engine is a set of orders in price-time priority, without stops and
  icebergs, which `MatchingEngine` models; orders are valid, as `Order.validate`
  would have them.
* SPAN cash starts at 0 rather than at the code's default of 100,000: with no
  debt no liquidation is required either way. The haircut is 80 %, the linear
  shocks are symmetric with a worst one of 20 %, so the worst scenario loss is a
  fifth of the net position's value.
* `UpdatePosition` stands for a caller who reports the trades; nothing in the
  repository does so by itself.
* Positions are written from outside before the first call only.
* `traded`, `paid`, `settled` and `guessed` are history variables.

C++ core: ids are distinct (the number of the call); trades are counted, not kept.

Simulator: one symbol; every order is of one lot; times are relative, so clocks are
bounded by the delays; the background flow is nondeterministic (any number of
orders of any price it can choose); a strategy's signal is a choice; the venue may
turn an order away, whichever check it would fail.

Auction: the caller takes the leftovers (`Reopen`). Router: quantities are in the
unit allocations are rounded to, the score weighs the queue
ahead as if that unit were a whole lot (`router.py:142`), ties of the rounding go either way; children are quantities per venue. Schedules: quantities divide evenly over the slices; POV's
participation uses the market volume it is handed.

Fairness. In the engine, `WF_vars(Step)`: a call that has begun goes on. The code
is a plain synchronous call in one thread, so nothing can suspend it, and no
fairness is assumed for calls from outside. In the simulator, `WF_vars(Step)`: the
driver goes on stepping, as `step(n)` and its callers do; nothing is assumed of noise,
shocks or session changes, and losses are always possible. For the schedules,
weak fairness of the clock and of being asked: whoever drives a schedule goes on
asking it, and for POV the market goes on trading; it may be late at any time.

## 8. Not modelled

* `PeggedOrderManager`, `SymbolRules`, the SIP simulator, fee schedules at the
  venue, the outbound side of the gateway, `_order_map_int` with
  `remove_order_by_int`: nothing but tests uses them, or what they compute is
  never applied.
* `order_history` and the limit on `trade_history`: nothing reads them back into
  the engine. (Eviction drops the oldest key twice once the limit is reached, and
  leaves one entry behind; `matching_engine.py:47`.)
* The free lists of the order, event and trade pools: objects are acquired and, but
  for the simulator's events, never given back.
* `VaR` and `CVaR` over the return history: statistics nothing acts on.
* Queue and impact models, calibration, analytics, statistical arbitrage (it needs two symbols), the strategies' signals,
  the learning environments: floating-point estimates without control state of
  their own; their orders take the paths that are modelled.
* Replay, datasets, CLI, dashboard, benchmarks, Python bindings: I/O, parsing and
  timing around calls that are modelled.
* `_mypy_fix_backup_20261016_121412/`: old copies of four modules that nothing
  imports.

## 9. The plan

What remains, in order of what it would add:

1. Proofs of the algorithms: `NeverAheadOfSchedule`, `ChildrenAddUp`, the clearing
   price. Weaker hypotheses for the book: `BookUncrossed` with icebergs, and a bound
   of the volumes under amendments of hidden orders.
2. The venue over the detailed engine instead of the abstract one, with stops
   that trigger on booked trades.
3. The simulator with two symbols and latencies longer than a step, once the
   market maker keeps track of what it has in flight.
