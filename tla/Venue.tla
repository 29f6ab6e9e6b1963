------------------------------- MODULE Venue --------------------------------
(***************************************************************************)
(* zerene/exchange/venue.py: a venue puts an order through the risk engine *)
(* and the circuit breaker of its symbol, has the matching engine match    *)
(* it, and books the trades that come back.  A call takes several steps    *)
(* here, one for each execution and one for each trade booked; no other    *)
(* call runs in between, but a kill switch that trips while the trades are *)
(* being booked cancels orders at once.                                    *)
(*                                                                         *)
(* The matching engine (modules MatchingEngine and PriceTimeBook) is the   *)
(* set of orders that rest, which trade in price-time priority.            *)
(***************************************************************************)
EXTENDS RiskEngine, CircuitBreaker, Sequences

CONSTANTS
  Tickets,           \* what may be submitted
  Amendments,        \* (quantity, price) of a modification, price 0 to keep it
  Cash,              \* the cash balances a caller may set
  Endowments,        \* positions, their entry prices and a market price to start with
  MaxCalls           \* bound: calls that put an order on the book

(* The liquidator has no risk state, so its orders are not checked.        *)
Participant == Owner \cup {"LIQUIDATOR"}

Order ==
  [owner : Participant, symbol : Symbol, side : {"BUY", "SELL"}, type : {"LIMIT", "MARKET", "REDUCE_ONLY"},
   price : Int, quantity : Int, filled : Int, since : Nat, stamped : BOOLEAN, amended : BOOLEAN]

Trade ==
  [symbol : Symbol, price : Int, quantity : Int, maker : Participant, taker : Participant, side : {"BUY", "SELL"}]

Holdings == [Owner -> [Symbol -> Int]]

ASSUME VenueAssumption ==
  /\ Tickets \subseteq Order
  /\ Amendments \subseteq [quantity : Int, price : Int]
  /\ \A x \in Endowments : x.positions \in Holdings

(* What the accounts rest on: no price is negative, and whoever writes a   *)
(* position writes its entry price too.  There may be no market price yet. *)
ASSUME AccountingAssumption ==
  /\ IsFiniteSet(Owner) /\ IsFiniteSet(Symbol)
  /\ \A am \in Amendments : am.price >= 0
  /\ \A x \in Endowments :
       /\ x.price \in Nat /\ x.entries \in [Owner -> [Symbol -> Nat]]
       /\ \A o \in Owner, s \in Symbol : x.positions[o][s] # 0 => x.entries[o][s] > 0

VARIABLES
  risk,              \* states: [Owner -> participant]
  mark,              \* market_prices: [Symbol -> price]
  breaker,           \* circuit_breakers: [Symbol -> breaker]
  book,              \* the orders that rest on the engines' books
  pc,                \* "idle", "matching", "booking" or "liquidating"
  taker,             \* the order being matched
  trades,            \* the trades that process_order returned, not booked yet
  calls,             \* calls so far that put an order on the book
  spanned,           \* SPAN: positions[owner][symbol]
  cash,              \* SPAN: cash_balances
  victim,            \* whose portfolio is being liquidated
  traded,            \* history: net lots each owner has traded, by symbol
  paid,              \* history: what participants without risk state have paid
  settled,           \* history: who was killed when the call began
  guessed            \* history: whose positions were valued without a market price

vars == <<risk, mark, breaker, book, pc, taker, trades, calls, spanned, cash, victim, traded, paid, settled, guessed>>

spanVars == <<spanned, cash, victim>>

Nobody == "nobody"

NoOrder == [owner |-> Nobody, symbol |-> Nobody, amended |-> FALSE]

Idle == pc = "idle"

Killed(rk) == {o \in Owner : rk[o].killed}

Return == pc' = IF victim = Nobody THEN "idle" ELSE "liquidating"

(* Engines for the symbols, participants registered; the test-suite also   *)
(* writes positions, with the prices they were entered at, before or after *)
(* there is a market price.  What they cost was paid outside the venue.    *)
StartWith(Endowed, Entries, Quoted) ==
  /\ risk = [o \in Owner |-> Written(Fresh, Endowed[o], Entries[o])]
  /\ mark = [s \in Symbol |-> Quoted]
  /\ breaker = [s \in Symbol |-> NewBreaker(0)]
  /\ book = {} /\ trades = <<>> /\ taker = NoOrder
  /\ pc = "idle" /\ calls = 0
  /\ spanned = Endowed
  /\ cash = [o \in Owner |-> 0]
  /\ victim = Nobody
  /\ traded = Endowed
  /\ paid = SumFunction([o \in Owner |-> -SumFunction([s \in Symbol |-> Endowed[o][s] * Entries[o][s]])])
  /\ settled = {} /\ guessed = {}

Init == \E x \in Endowments : StartWith(x.positions, x.entries, x.price)

(* Positions are valued once, at the first call after they were written;   *)
(* an entry price stands in for a market price that there is not yet.      *)
Guessing ==
  guessed' = guessed \cup {o \in Owner : /\ risk[o].dirty /\ ~risk'[o].dirty
                                        /\ \E s \in Symbol : risk[o].pos[s] # 0 /\ mark'[s] = NoPrice}

-----------------------------------------------------------------------------
(* The matching engine.                                                    *)
Opposing(o) ==
  {r \in book : /\ r.symbol = o.symbol /\ r.side # o.side
                /\ \/ o.price = NoPrice
                   \/ IF o.side = "BUY" THEN r.price <= o.price ELSE r.price >= o.price}

Beats(r, s) ==
  \/ IF r.side = "BUY" THEN r.price > s.price ELSE r.price < s.price
  \/ r.price = s.price /\ r.since < s.since

Owned(o) == {r \in book : r.owner = o}

Left(o) == o.quantity - o.filled

TradeOf(maker, o, q) ==
  [symbol |-> o.symbol, price |-> maker.price, quantity |-> q,
   maker |-> maker.owner, taker |-> o.owner, side |-> o.side]

(* One execution of the matching loop, with the best order opposite.       *)
Match ==
  /\ pc = "matching" /\ Left(taker) > 0
  /\ \E r \in Opposing(taker) :
       LET q == Min({Left(taker), Left(r)})
           t == TradeOf(r, taker, q)
           rested == [r EXCEPT !.filled = @ + q]
       IN  /\ \A s \in Opposing(taker) \ {r} : Beats(r, s)
           /\ book' = (book \ {r}) \cup (IF Left(rested) > 0 THEN {rested} ELSE {})
           /\ taker' = [taker EXCEPT !.filled = @ + q]
           /\ trades' = Append(trades, t)
           /\ traded' = [o \in Owner |-> [traded[o] EXCEPT ![t.symbol] =
                           @ + (IF o = t.taker THEN Signed(t.side, q) ELSE 0)
                             - (IF o = t.maker THEN Signed(t.side, q) ELSE 0)]]
  /\ UNCHANGED <<risk, mark, breaker, pc, calls, paid, settled, guessed, spanVars>>

(* The matching is over: what is left of a limit order rests.  A submitted *)
(* order's trades are handed to the venue, which moves the bands to the    *)
(* last of them; those of a modification go nowhere.                       *)
MatchDone ==
  /\ pc = "matching" /\ (Left(taker) = 0 \/ Opposing(taker) = {})
  /\ book' = book \cup (IF Left(taker) > 0 /\ taker.price # NoPrice THEN {taker} ELSE {})
  /\ taker' = NoOrder
  /\ IF trades = <<>> \/ taker.amended
     THEN /\ trades' = <<>>
          /\ Return
          /\ UNCHANGED breaker
     ELSE /\ breaker' = [breaker EXCEPT ![taker.symbol] = UpdateReference(@, trades[Len(trades)].price)]
          /\ pc' = "booking"
          /\ UNCHANGED trades
  /\ UNCHANGED <<risk, mark, traded, calls, paid, settled, guessed, spanVars>>

-----------------------------------------------------------------------------
(* Fault: the kill switch only stops the one whose order it was.           *)
CancelAggressor(killed, t) == {r \in book : r.owner \notin killed \cap {t.taker}}

(* cancel_all_for_participant, the kill switch callback, which is called   *)
(* for the parties of the trade.                                           *)
CancelKilled(killed, t) == {r \in book : r.owner \notin killed \cap {t.maker, t.taker}}

(* on_trade_fill: maker and taker, in this order, and whoever is killed by *)
(* it loses the orders that rest.                                          *)
Book ==
  /\ pc = "booking" /\ trades # <<>>
  /\ LET t == Head(trades)
         marked == [o \in Owner |-> Marked(risk[o], t.symbol, Delta(mark, t.symbol, t.price))]
         mark2 == [mark EXCEPT ![t.symbol] = t.price]
         Party(rk, o, side) ==
           IF o \in Owner THEN [rk EXCEPT ![o] = Booked(@, mark2, t.symbol, side, t.price, t.quantity)] ELSE rk
     IN  /\ mark' = mark2
         /\ risk' = Party(Party(marked, t.maker, Opposite(t.side)), t.taker, t.side)
         /\ book' = CancelKilled(Killed(risk'), t)
         /\ paid' = paid + t.price * ((IF t.taker \in Owner THEN 0 ELSE Signed(t.side, t.quantity))
                                     - (IF t.maker \in Owner THEN 0 ELSE Signed(t.side, t.quantity)))
  /\ Guessing
  /\ trades' = Tail(trades)
  /\ UNCHANGED <<breaker, pc, taker, calls, traded, settled, spanVars>>

BookDone ==
  /\ pc = "booking" /\ trades = <<>>
  /\ Return
  /\ UNCHANGED <<risk, mark, breaker, book, taker, trades, calls, traded, paid, settled, guessed, spanVars>>

-----------------------------------------------------------------------------
(* submit_order up to process_order: the risk checks come before those of  *)
(* the breaker, and leave their mark on the participant even if the        *)
(* breaker then rejects the order.                                         *)
Place(o) ==
  LET known == o.owner \in Owner
      v == IF known THEN ValidateOrder(o, risk[o.owner], mark)
                    ELSE [verdict |-> "OK", quantity |-> o.quantity]
  IN  /\ calls' = calls + 1
      /\ risk' = IF known THEN [risk EXCEPT ![o.owner] = v.state] ELSE risk
      /\ book' = IF v.verdict = "MAX_DRAWDOWN" THEN book \ Owned(o.owner) ELSE book
      /\ breaker' = IF v.verdict = "OK" THEN [breaker EXCEPT ![o.symbol] = BreakerAfter(@, o)] ELSE breaker
      /\ IF v.verdict = "OK" /\ BreakerAdmits(breaker[o.symbol], o)
         THEN /\ pc' = "matching"
              /\ taker' = [o EXCEPT !.quantity = v.quantity, !.since = calls]
         ELSE /\ Return
              /\ taker' = NoOrder
      /\ settled' = Killed(risk)
      /\ UNCHANGED <<mark, trades, traded, paid>>
      /\ Guessing

(* Order.validate: what it refuses goes no further.                        *)
Valid(o) == o.quantity > 0 /\ o.filled \in 0 .. o.quantity /\ o.price >= 0

Submit(tk) == Idle /\ calls < MaxCalls /\ Valid(tk) /\ Place(tk) /\ UNCHANGED spanVars

Refuse(tk) == Idle /\ ~Valid(tk) /\ UNCHANGED vars

-----------------------------------------------------------------------------
(* The other calls of the venue, none of which sees the risk engine.       *)
CancelOrder(r) ==
  /\ Idle
  /\ book' = book \ {r}
  /\ UNCHANGED <<risk, mark, breaker, pc, taker, trades, calls, traded, paid, settled, guessed, spanVars>>

CancelAllForParticipant(o) ==
  /\ Idle
  /\ book' = book \ Owned(o)
  /\ UNCHANGED <<risk, mark, breaker, pc, taker, trades, calls, traded, paid, settled, guessed, spanVars>>

(* modify_order: down to what is filled it cancels, a smaller quantity     *)
(* keeps its place, anything else loses it and may cross the book.         *)
Amended(r, am) == [r EXCEPT !.quantity = am.quantity, !.since = calls, !.amended = TRUE,
                            !.price = IF am.price = NoPrice THEN @ ELSE am.price]

ModifyOrder(r, am) ==
  LET new == Amended(r, am)
  IN  /\ Idle /\ calls < MaxCalls
      /\ calls' = calls + 1
      /\ CASE am.quantity <= r.filled ->
                 /\ book' = book \ {r}
                 /\ UNCHANGED <<pc, taker, settled>>
           [] am.quantity > r.filled /\ new.price = r.price /\ am.quantity <= r.quantity ->
                 /\ book' = (book \ {r}) \cup {[r EXCEPT !.quantity = am.quantity]}
                 /\ UNCHANGED <<pc, taker, settled>>
           [] OTHER ->
                 /\ book' = book \ {r}
                 /\ pc' = "matching" /\ taker' = new
                 /\ settled' = Killed(risk)
      /\ UNCHANGED <<risk, mark, breaker, trades, traded, paid, guessed, spanVars>>

(* trigger_halt, which an operator calls, and the clock.                   *)
Halt(s) ==
  /\ Idle
  /\ breaker' = [breaker EXCEPT ![s] = TriggerHalt(@)]
  /\ UNCHANGED <<risk, mark, book, pc, taker, trades, calls, traded, paid, settled, guessed, spanVars>>

TimePasses ==
  /\ Idle
  /\ breaker' = [s \in Symbol |-> Older(breaker[s])]
  /\ UNCHANGED <<risk, mark, book, pc, taker, trades, calls, traded, paid, settled, guessed, spanVars>>

-----------------------------------------------------------------------------
(* zerene/risk/span.py.  Percentages are multiplied out; the shocks are    *)
(* symmetric and linear, so the worst scenario is a fifth of the net       *)
(* position.  Collateral counts a short position as it does a long one.    *)
Haircut == 80

SpanNet(o) == MapThenSumSet(LAMBDA s : spanned[o][s] * mark[s], Symbol)

SpanGross(o) == MapThenSumSet(LAMBDA s : Abs(spanned[o][s]) * mark[s], Symbol)

WorstLoss(o) == 20 * Abs(SpanNet(o))

MarginEquity(o) == 100 * cash[o] + Haircut * SpanGross(o)

LiquidationRequired(o) == MarginEquity(o) < WorstLoss(o) + SpanGross(o)

SetCashBalance(o, amount) ==
  /\ Idle
  /\ cash' = [cash EXCEPT ![o] = amount]
  /\ UNCHANGED <<risk, mark, breaker, book, pc, taker, trades, calls, traded, paid, settled, guessed, spanned, victim>>

(* update_position, by a caller that follows the trades.                   *)
UpdatePosition(o) ==
  /\ Idle
  /\ spanned' = [spanned EXCEPT ![o] = traded[o]]
  /\ UNCHANGED <<risk, mark, breaker, book, pc, taker, trades, calls, traded, paid, settled, guessed, cash, victim>>

(* execute_liquidation_cascade: everything that rests goes, then a market  *)
(* order for each position, in the liquidator's name; the SPAN position is *)
(* written off whatever the order fills.                                   *)
Liquidate(o) ==
  /\ Idle /\ calls < MaxCalls /\ LiquidationRequired(o)
  /\ book' = book \ Owned(o)
  /\ pc' = "liquidating" /\ victim' = o
  /\ UNCHANGED <<risk, mark, breaker, taker, trades, calls, traded, paid, settled, guessed, spanned, cash>>

LiquidationOrder(o, s) ==
  [owner |-> "LIQUIDATOR", symbol |-> s, side |-> IF spanned[o][s] > 0 THEN "SELL" ELSE "BUY", type |-> "MARKET",
   price |-> NoPrice, quantity |-> Abs(spanned[o][s]), filled |-> 0, since |-> 0, stamped |-> FALSE, amended |-> FALSE]

LiquidatePosition(s) ==
  /\ pc = "liquidating" /\ spanned[victim][s] # 0
  /\ Place(LiquidationOrder(victim, s))
  /\ spanned' = [spanned EXCEPT ![victim][s] = 0]
  /\ UNCHANGED <<cash, victim>>

LiquidationDone ==
  /\ pc = "liquidating" /\ \A s \in Symbol : spanned[victim][s] = 0
  /\ pc' = "idle" /\ victim' = Nobody
  /\ UNCHANGED <<risk, mark, breaker, book, taker, trades, calls, traded, paid, settled, guessed, spanned, cash>>

-----------------------------------------------------------------------------
Next ==
  \/ \E tk \in Tickets : Submit(tk) \/ Refuse(tk)
  \/ Match \/ MatchDone \/ Book \/ BookDone
  \/ \E r \in book : CancelOrder(r) \/ \E am \in Amendments : ModifyOrder(r, am)
  \/ \E o \in Owner : CancelAllForParticipant(o) \/ UpdatePosition(o) \/ Liquidate(o)
  \/ \E s \in Symbol : Halt(s) \/ LiquidatePosition(s)
  \/ \E o \in Owner, c \in Cash : SetCashBalance(o, c)
  \/ TimePasses \/ LiquidationDone

Spec == Init /\ [][Next]_vars

-----------------------------------------------------------------------------
(* What may go wrong.                                                      *)

(* The exposures and the open profit that the risk engine carries along,   *)
(* adding and subtracting at each fill and each price change, are what     *)
(* summing over the positions gives: class comment of ParticipantRiskState.*)
(* Not so once positions were valued without a market price: the first one *)
(* to arrive then changes nothing that is carried (update_market_price).   *)
ExposuresAgree ==
  \A o \in Owner \ guessed : LET st == risk[o] IN
    ~st.dirty => /\ st.gross = GrossOf(st, mark)
                 /\ st.net = NetOf(st, mark)
                 /\ st.unreal = UnrealOf(st, mark)

(* No money comes from nowhere: what the participants have between them,   *)
(* the profit taken and open less the value of their positions, is what    *)
(* the others have paid them, whichever way positions grew, shrank or      *)
(* changed sign (on_trade_fill).                                           *)
MoneyConserved ==
  SumFunction([o \in Owner |-> risk[o].realized + UnrealOf(risk[o], mark) - NetOf(risk[o], mark)]) = paid

(* A participant whose kill switch is on has nothing on any book, at any   *)
(* step of a call (cancel_all_for_participant as the callback).            *)
KilledRestNothing == \A r \in book : r.owner \in Owner => ~risk[r.owner].killed

(* Once the call that tripped it is over, the position of a killed         *)
(* participant never changes again.                                        *)
KilledPositionsFrozen == [][\A o \in settled : risk[o].killed => risk'[o].pos = risk[o].pos]_vars

(* The risk engine's positions have followed every lot traded (docstring   *)
(* of on_trade_fill: "Post-trade exposure and inventory reconciliation").  *)
PositionsMatchTrades == Idle => \A o \in Owner : risk[o].pos = traded[o]

=============================================================================
