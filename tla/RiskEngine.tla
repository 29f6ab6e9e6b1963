----------------------------- MODULE RiskEngine -----------------------------
(***************************************************************************)
(* zerene/risk/engine.py: the state the risk engine keeps of a             *)
(* participant, as a record, and its methods as operators that return the  *)
(* new record.  Quantities are lots and prices integers, so money is an    *)
(* integer too; 0 stands for a price that is not known.                    *)
(***************************************************************************)
EXTENDS Integers, FiniteSetsExt

CONSTANTS
  Owner,             \* the registered participants
  Symbol,
  Capital,           \* initial_capital of each
  MaxPosition, MaxGross, MaxDailyLoss, DrawdownPct    \* RiskLimits

NoPrice == 0

Abs(x) == IF x < 0 THEN -x ELSE x

Signed(side, q) == IF side = "BUY" THEN q ELSE -q

Opposite(side) == IF side = "BUY" THEN "SELL" ELSE "BUY"

(* Division that is only defined where the quotient is an integer: a run   *)
(* that reached another quotient would stop with an error.                 *)
Exactly(a, b) == CASE a % b = 0 -> a \div b

Fresh == [pos |-> [s \in Symbol |-> 0], avg |-> [s \in Symbol |-> NoPrice],
          realized |-> 0, peak |-> Capital, gross |-> 0, net |-> 0, unreal |-> 0,
          dirty |-> FALSE, killed |-> FALSE]

(* PositionDict: whoever writes positions directly makes them dirty.       *)
Written(st, pos, avg) == [st EXCEPT !.pos = pos, !.avg = avg, !.dirty = @ \/ \E s \in Symbol : pos[s] # 0]

-----------------------------------------------------------------------------
(* What the exposures are, summed over the positions.                      *)
PriceOf(st, mark, s) == IF mark[s] # NoPrice THEN mark[s] ELSE st.avg[s]

GrossOf(st, mark) == SumFunction([s \in Symbol |-> Abs(st.pos[s]) * PriceOf(st, mark, s)])

NetOf(st, mark) == SumFunction([s \in Symbol |-> st.pos[s] * PriceOf(st, mark, s)])

UnrealOf(st, mark) ==
  SumFunction([s \in Symbol |->
    IF st.avg[s] > 0 THEN st.pos[s] * (PriceOf(st, mark, s) - st.avg[s]) ELSE 0])

(* _sync_exposures, where the positions were written from outside.         *)
Synced(st, mark) ==
  IF ~st.dirty THEN st
  ELSE [st EXCEPT !.gross = GrossOf(st, mark), !.net = NetOf(st, mark),
                  !.unreal = UnrealOf(st, mark), !.dirty = FALSE]

(* Fault: a price change moves the gross exposure of a short the wrong way.*)
MarkedAsLong(st, s, delta) ==
  IF st.dirty THEN st
  ELSE [st EXCEPT !.gross = @ + st.pos[s] * delta,
                  !.net = @ + st.pos[s] * delta, !.unreal = @ + st.pos[s] * delta]

(* update_market_price, for one participant.                               *)
Marked(st, s, delta) ==
  IF st.dirty THEN st
  ELSE [st EXCEPT !.gross = @ + Abs(st.pos[s]) * delta,
                  !.net = @ + st.pos[s] * delta,
                  !.unreal = @ + st.pos[s] * delta]

Delta(mark, s, price) == IF mark[s] = NoPrice THEN 0 ELSE price - mark[s]

Equity(st) == Capital + st.realized + st.unreal

Peaked(st) == [st EXCEPT !.peak = Max({@, Equity(st)})]

(* calculate_drawdown against the limit, multiplied out.                   *)
DrawnDown(st) == st.peak > 0 /\ 100 * (st.peak - Equity(st)) >= DrawdownPct * st.peak

-----------------------------------------------------------------------------
(* validate_order: the new state of the participant, the quantity the      *)
(* order is left with and the verdict.                                     *)
Reduced(o, st) == IF o.type = "REDUCE_ONLY" THEN Min({o.quantity, Abs(st.pos[o.symbol])}) ELSE o.quantity

Increases(o, st) == Signed(o.side, 1) * st.pos[o.symbol] >= 0

(* Fault: the kill switch only stops those who still hold something.       *)
BarredWhenHolding(o, st) == st.killed /\ st.pos[o.symbol] # 0

Barred(o, st) == st.killed

ValidateOrder(o, st, mark) ==
  LET price == IF o.price # NoPrice THEN o.price ELSE mark[o.symbol]
      q == Reduced(o, st)
      synced == Synced(st, mark)
      peaked == Peaked(synced)
      Say(verdict, state) == [verdict |-> verdict, state |-> state, quantity |-> q]
  IN  IF Barred(o, st) THEN Say("KILL_SWITCH_ACTIVE", st)
      ELSE IF price = NoPrice THEN [verdict |-> "OK", state |-> st, quantity |-> o.quantity]
      ELSE IF o.type = "REDUCE_ONLY" /\ Increases(o, st) THEN Say("REDUCE_ONLY", st)
      ELSE IF Abs(st.pos[o.symbol] + Signed(o.side, q)) > MaxPosition THEN Say("POSITION_LIMIT", st)
      ELSE IF Max({0, synced.gross}) + q * price > MaxGross THEN Say("GROSS_EXPOSURE", synced)
      ELSE IF DrawnDown(peaked) THEN Say("MAX_DRAWDOWN", [peaked EXCEPT !.killed = TRUE])
      ELSE Say("OK", peaked)

(* Fault: a position that changes sign keeps its entry price.              *)
AverageKeptOnFlip(old, new, avg, p) ==
  CASE new = 0 -> NoPrice
    [] Abs(new) > Abs(old) -> Exactly(Abs(old) * avg + Abs(new - old) * p, Abs(new))
    [] OTHER -> avg

(* The entry price once a fill at p has moved the position.                *)
NewAverage(old, new, avg, p) ==
  CASE new = 0 -> NoPrice
    [] old * (new - old) >= 0 -> Exactly(Abs(old) * avg + Abs(new - old) * p, Abs(new))
    [] old * new < 0 -> p
    [] OTHER -> avg

(* The position, the average price, the profit taken and the running       *)
(* exposures of one party to a trade.                                      *)
Filled(st, s, side, p, q) ==
  LET old == st.pos[s]
      avg == st.avg[s]
      new == old + Signed(side, q)
      newAvg == NewAverage(old, new, avg, p)
      open(n, a) == IF a > 0 THEN n * (p - a) ELSE 0
  IN  [st EXCEPT !.pos[s] = new, !.avg[s] = newAvg,
                 !.realized = IF old * Signed(side, 1) < 0
                               THEN @ + Signed(Opposite(side), Min({Abs(old), q})) * (p - avg)
                               ELSE @,
                 !.gross = Max({0, @ - Abs(old) * p}) + Abs(new) * p,
                 !.net = @ + Signed(side, q) * p,
                 !.unreal = @ - open(old, avg) + open(new, newAvg)]

(* The check of the limits after a fill.                                   *)
Judged(st) ==
  LET peaked == Peaked(st)
  IN  [peaked EXCEPT !.killed = @ \/ DrawnDown(peaked) \/ -st.realized >= MaxDailyLoss]

(* on_trade_fill, for one of the two parties.                              *)
Booked(st, mark, s, side, p, q) == Judged(Filled(Synced(st, mark), s, side, p, q))

=============================================================================
