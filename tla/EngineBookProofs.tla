--------------------------- MODULE EngineBookProofs ---------------------------
(***************************************************************************)
(* Proofs about the book of the matching engine as a whole: its sides do   *)
(* not cross, its index and its queues agree, its volumes are those of its *)
(* orders; and about the calls that work through many orders: the stops a  *)
(* trade triggers, the sweep of a participant's orders.                    *)
(***************************************************************************)
EXTENDS EngineOrdersProofs

-----------------------------------------------------------------------------
(* Which steps change what an order asks for.                              *)

Alters ==
  \/ \E tk \in Tickets : Submit(tk)
  \/ \E oid \in OrderId, am \in Amendments :
        ModifyAcross(oid, am) \/ ModifyRequote(oid, am) \/ ModifyReduce(oid, am)
  \/ \E u \in Uid : Trigger(u)

LEMMA ChargesSteady ==
  ASSUME PlacesInv, EngineInv', StpDecrement \/ Execute
  PROVE  \A u \in Uid : Steady(order'[u], order[u])
  <1>1. Matching /\ TopLevel.queue # << >>
    BY DEF StpDecrement, Execute, Prevents
  <1>2. Maker \in Uid /\ cur \in Uid /\ order[cur] \in Order
    BY <1>1, MakerFacts
  <1>3. /\ \A u \in Uid : u \notin {cur, Maker} => order'[u] = order[u]
        /\ order'[cur] = [order[cur] EXCEPT !.filled = @ + Overlap]
        /\ Unfilled(order'[Maker], Executed) \/ Unfilled(order'[Maker], Decremented)
    BY DecrementPlaces, ExecutePlaces
  <1>4. Steady(order'[Maker], order[Maker])
    BY <1>1, <1>3, ChargedFacts DEF Unfilled, Steady, Alike
  <1>5. Steady(order'[cur], order[cur])
    BY <1>2, <1>3 DEF Order, Steady, Alike
  <1>6. QED
    BY <1>3, <1>4, <1>5, OwnAlike DEF Unfilled

LEMMA StepSteady ==
  ASSUME PlacesInv, EngineInv', [Next]_vars, ~Alters
  PROVE  \A u \in Uid : Steady(order'[u], order[u])
  <1>1. order \in [Uid -> Order]
    BY PlaceFacts
  <1>2. ASSUME order' = order PROVE \A u \in Uid : Steady(order'[u], order[u])
    BY <1>2, OwnAlike DEF Unfilled
  <1>3. ASSUME NEW u \in Uid, NEW st, order' = Marked(order, u, st)
        PROVE  \A v \in Uid : Steady(order'[v], order[v])
    BY <1>1, <1>3, MarkedAlike DEF Unfilled
  <1>4. CASE ~Moves
    <2>1. CASE OrdersStay
      BY <1>2, <2>1 DEF OrdersStay
    <2>2. CASE SomeRetires
      <3>1. PICK u, st : Retires(u, st)
        BY <2>2 DEF SomeRetires
      <3>2. u \in Uid /\ order' = Marked(order, u, st)
        BY <3>1 DEF Retires
      <3>3. QED
        BY <1>3, <3>2
    <2>3. QED
      BY <1>4, <2>1, <2>2, StepsSorted
  <1>5. CASE \E u \in Uid : ParkStop(u) \/ StartMatch(u)
    BY <1>2, <1>5 DEF ParkStop, StartMatch
  <1>6. CASE StpCancelNewest \/ Rest
    <2>1. \E st : order' = Marked(order, cur, st)
      BY <1>6 DEF StpCancelNewest, Rest
    <2>2. cur \in Uid
      BY <1>6, CurKnown DEF StpCancelNewest, Rest, Matching, PlacesInv
    <2>3. QED
      BY <1>3, <2>1, <2>2
  <1>7. CASE StpDecrement \/ Execute
    BY <1>7, ChargesSteady
  <1>8. QED
    BY <1>4, <1>5, <1>6, <1>7 DEF Alters, Moves

-----------------------------------------------------------------------------
(* How the steps that alter no order move the call along.                  *)

Busy == {"loop", "match", "residual", "trigger"}

BetweenCalls == pc \notin Busy /\ pc' \notin Busy /\ UNCHANGED <<pending, trades, last>>

TakesOne == \E u \in Uid : /\ Taking(u) /\ pending' = Tail(pending) /\ UNCHANGED <<trades, last>>
                           /\ pc' = "loop" \/ StartMatch(u)

(* With the two things the code passes from phase to phase: whether cur    *)
(* has traded, and hence whether stops are looked at.                      *)
WithinCall ==
  /\ pc \in {"match", "residual", "trigger"} /\ pc' \in Busy /\ pending' = pending
  /\ Execute \/ UNCHANGED <<trades, last, traded>>
  /\ pc = "trigger" => pc' = "trigger" \/ TriggersDone
  /\ pc \in {"match", "residual"} /\ pc' \notin {"match", "residual"} => pc' = AfterResidual

LEMMA Courses ==
  ASSUME [Next]_vars, ~Alters
  PROVE  BetweenCalls \/ Drained \/ TakesOne \/ WithinCall \/ UNCHANGED vars
  <1>1. CASE Call
    <2>1. BetweenCalls
      BY <1>1 DEF Call, Alters, Cancel, CancelAll, ModifyToNothing, Modifiable, BetweenCalls, Busy
    <2>2. QED
      BY <2>1
  <1>2. CASE SweepStops \/ SweepDone \/ \E oid \in OrderId : SweepOne(oid)
    <2>1. BetweenCalls
      BY <1>2 DEF SweepStops, SweepDone, SweepOne, BetweenCalls, Busy
    <2>2. QED
      BY <2>1
  <1>3. ASSUME NEW u \in Uid,
               \/ RejectInvalid(u) \/ RejectStop(u) \/ ParkStop(u) \/ RejectUnfillable(u) \/ RejectTaker(u)
               \/ StartMatch(u)
        PROVE  TakesOne
    BY <1>3 DEF TakesOne, RejectInvalid, RejectStop, ParkStop, RejectUnfillable, RejectTaker, StartMatch,
                Reject, Taking
  <1>4. CASE \E u \in Uid : SkipCanceled(u)
    <2>1. WithinCall
      BY <1>4 DEF SkipCanceled, NextDue, WithinCall, Busy
    <2>2. QED
      BY <2>1
  <1>5. CASE TriggersDone
    <2>1. WithinCall
      BY <1>5 DEF TriggersDone, WithinCall, Busy
    <2>2. QED
      BY <2>1
  <1>6. CASE DropDrained \/ MatchDone \/ StpCancelNewest \/ StpCancelOldest \/ StpDecrement \/ Execute
    <2>1. /\ pc = "match" /\ pc' \in {"match", "residual"} /\ pending' = pending
          /\ Execute \/ UNCHANGED <<trades, last, traded>>
      BY <1>6 DEF DropDrained, MatchDone, StpCancelNewest, StpCancelOldest, StpDecrement, Execute, Matching
    <2>2. QED
      BY <2>1 DEF WithinCall, Busy
  <1>7. CASE Complete \/ Expire \/ Rest
    <2>1. /\ pc = "residual" /\ pc' = AfterResidual /\ pending' = pending
          /\ UNCHANGED <<trades, last, traded>>
      BY <1>7 DEF Complete, Expire, Rest
    <2>2. QED
      BY <2>1 DEF WithinCall, Busy, AfterResidual
  <1>8. CASE NoProgress
    BY <1>8 DEF NoProgress
  <1>9. QED
    BY <1>1, <1>2, <1>3, <1>4, <1>5, <1>6, <1>7, <1>8 DEF Next, Step, Alters

-----------------------------------------------------------------------------
(* The stops a trade triggers.                                             *)

Since(o, tr) == tr # << >> => o.timestamp > tr[Len(tr)].timestamp

TimesPassed ==
  /\ \A u \in Uid : order[u].timestamp <= clock
  /\ \A i \in 1 .. Len(trades) : trades[i].timestamp <= clock

(* A stop reaches the manager at the start of a call, before any trade.    *)
StopsComeAlone ==
  /\ pc \notin Busy => pending = << >>
  /\ \A u \in ToSet(pending) :
        IsStop(order[u]) => pending = <<u>> /\ pc = "loop" /\ Since(order[u], trades)
  /\ \A u \in OnBook(book) \cup InHand : ~IsStop(order[u])

(* While nobody has traded, or once every due stop has been triggered, a   *)
(* stop whose price is reached is newer than the last trade.               *)
Settled == (pc \in {"match", "residual"} => ~traded) /\ pc # "trigger"

NoneOverdue ==
  Settled => \A s \in Side : \A u \in stops.heap[s] : Reached(order[u], last) => Since(order[u], trades)

DueInv == PlacesInv /\ TimesPassed /\ StopsComeAlone /\ NoneOverdue

(* An order that modify_order changed is as old as before, or of now.      *)
LEMMA AmendedTimes ==
  ASSUME PlacesInv, EngineInv', NEW oid \in OrderId, NEW am \in Amendments,
         ModifyAcross(oid, am) \/ ModifyRequote(oid, am) \/ ModifyReduce(oid, am)
  PROVE  /\ clock' = clock + 1 /\ UNCHANGED <<trades, last, stops, traded>> /\ pc = "idle"
         /\ \/ pc' = "idle" /\ pending' = pending
            \/ pc' = "loop" /\ pending' = Append(pending, book.map[oid])
         /\ book.map[oid] \in OnBook(book) /\ book.map[oid] \in Uid
         /\ \A v \in Uid : v # book.map[oid] => order'[v] = order[v]
         /\ order'[book.map[oid]].type = order[book.map[oid]].type
         /\ order'[book.map[oid]].timestamp \in {clock + 1, order[book.map[oid]].timestamp}
         /\ OnBook(book') \subseteq OnBook(book) /\ InHand' = {} /\ InHand = {}
  <1> DEFINE u == book.map[oid]
             o == order[u]
             across == [o EXCEPT !.price = am.price, !.quantity = am.quantity,
                                 !.display = Least(o.display, am.quantity),
                                 !.timestamp = clock + 1, !.status = "REPLACED"]
  <1>1. /\ clock' = clock + 1 /\ UNCHANGED <<trades, last, stops, traded>> /\ pc = "idle"
        /\ \/ pc' = "idle" /\ pending' = pending
           \/ pc' = "loop" /\ pending' = Append(pending, u)
        /\ u # None
    BY DEF ModifyAcross, ModifyRequote, ModifyReduce, Modifiable, ClockTicks
  <1>2. u \in OnBook(book) /\ u \in Uid /\ order \in [Uid -> Order] /\ o \in Order
    BY <1>1, OnMap, PlaceFacts
  <1>3. order' = [order EXCEPT ![u] = across] \/ order' = [order EXCEPT ![u] = Requoted(o, am, clock + 1)]
        \/ order' = [order EXCEPT ![u] = Reduced(o, am)]
    BY DEF ModifyAcross, ModifyRequote, ModifyReduce
  <1>4. across.type = o.type /\ across.timestamp = clock + 1
    BY <1>2 DEF Order
  <1>5. Requoted(o, am, clock + 1).type = o.type /\ Requoted(o, am, clock + 1).timestamp = clock + 1
    BY <1>2 DEF Order, Requoted
  <1>6. Reduced(o, am).type = o.type /\ Reduced(o, am).timestamp = o.timestamp
    BY <1>2 DEF Order, Reduced
  <1> HIDE DEF across
  <1>7. order'[u].type = o.type /\ order'[u].timestamp \in {clock + 1, o.timestamp}
        /\ \A v \in Uid : v # u => order'[v] = order[v]
    BY <1>2, <1>3, <1>4, <1>5, <1>6
  <1>8. PICK w : Amended(w)
    BY ModifyFacts
  <1>9. OnBook(book') \subseteq OnBook(book) /\ InHand' = {} /\ InHand = {}
    BY <1>8 DEF Amended
  <1>10. QED
    BY <1>1, <1>2, <1>7, <1>9

(* What a triggered order is from then on.                                 *)
LEMMA TriggeredFacts ==
  ASSUME PlacesInv, NEW u \in Uid, Trigger(u)
  PROVE  /\ cur \in Uid /\ order'[u].timestamp = order[cur].timestamp /\ ~IsStop(order'[u])
         /\ \A v \in Uid : v # u => order'[v] = order[v]
         /\ pc = "trigger" /\ pc' = "trigger" /\ pending' = Append(pending, u)
         /\ UNCHANGED <<next_id, clock, book, cur, trades, last, traded>> /\ u \in Heaped(stops)
  <1>1. /\ order' = [order EXCEPT ![u] = Triggered(order[u], order[cur].timestamp)]
        /\ pc = "trigger" /\ pc' = "trigger" /\ pending' = Append(pending, u)
        /\ UNCHANGED <<next_id, clock, book, cur, trades, last, traded>> /\ u \in stops.heap[order[u].side]
    BY DEF Trigger, NextDue, IsHeapTop
  <1>2. order[u] \in Order /\ order \in [Uid -> Order] /\ cur \in Uid
    BY <1>1, PlaceFacts, CurKnown DEF PlacesInv
  <1>3. ~IsStop(Triggered(order[u], order[cur].timestamp))
        /\ Triggered(order[u], order[cur].timestamp).timestamp = order[cur].timestamp
    BY <1>2 DEF Triggered, IsStop, Order
  <1>4. order[u].side \in Side
    BY <1>2 DEF Order
  <1>5. u \in Heaped(stops)
    BY <1>1, <1>4 DEF Heaped, Side
  <1>6. QED
    BY <1>1, <1>2, <1>3, <1>5

LEMMA SubmitTimes ==
  ASSUME PlacesInv, NEW tk \in Tickets, Submit(tk)
  PROVE  /\ clock' = clock + 1 /\ order'[next_id + 1].timestamp = clock + 1 /\ pc = "idle" /\ pc' = "loop"
         /\ pending' = Append(pending, next_id + 1) /\ UNCHANGED <<book, stops, trades, last>>
  <1> DEFINE u == next_id + 1
             o == NewOrder(tk, IdOf[u], clock + 1)
  <1>1. /\ clock' = clock + 1 /\ pc = "idle" /\ pc' = "loop" /\ pending' = Append(pending, u)
        /\ UNCHANGED <<book, stops, trades, last>> /\ order' = [order EXCEPT ![u] = o]
    BY DEF Submit, ClockTicks
  <1>2. u \in Uid /\ order \in [Uid -> Order]
    BY SubmitFacts, PlaceFacts
  <1>3. o.timestamp = clock + 1
    BY DEF NewOrder
  <1> HIDE DEF o
  <1>4. order'[u].timestamp = clock + 1
    BY <1>1, <1>2, <1>3
  <1>5. QED
    BY <1>1, <1>4

LEMMA ClockRuns ==
  ASSUME EngineInv, EngineInv', [Next]_vars
  PROVE  clock \in Nat /\ clock' \in Nat /\ clock <= clock'
  <1>1. clock \in Nat /\ clock' \in Nat
    BY InputAssumption DEF EngineInv
  <1>2. clock' = clock \/ clock' = clock + 1
    BY DEF Next, Call, Step, vars, Cancel, CancelAll, ModifyToNothing, ModifyAcross, ModifyRequote,
           ModifyReduce, Drained, RejectInvalid, RejectStop, RejectUnfillable, RejectTaker, Reject, ParkStop,
           StartMatch, SkipCanceled, Trigger, DropDrained, MatchDone, NoProgress, StpCancelNewest,
           StpCancelOldest, StpDecrement, Execute, Complete, Expire, Rest, TriggersDone, SweepOne,
           SweepStops, SweepDone, Submit, ClockTicks
  <1>3. QED
    BY <1>1, <1>2

LEMMA TradeTyped ==
  ASSUME PlacesInv, NEW i \in 1 .. Len(trades)
  PROVE  trades[i].timestamp \in Nat
  <1>1. trades \in Seq(Trade)
    BY DEF PlacesInv, EngineInv
  <1>2. trades[i] \in Trade
    BY <1>1
  <1>3. QED
    BY <1>2 DEF Trade

LEMMA TradeTimes ==
  ASSUME PlacesInv, NEW c \in Nat, \A i \in 1 .. Len(trades) : trades[i].timestamp <= c,
         \A u \in Uid : order[u].timestamp <= c, Execute
  PROVE  \A i \in 1 .. Len(trades') : trades'[i].timestamp <= c
  <1> DEFINE tr == [maker |-> Maker, taker |-> cur, price |-> Top, quantity |-> Overlap,
                    timestamp |-> order[cur].timestamp]
  <1>1. trades' = Append(trades, tr) /\ Matching /\ TopLevel.queue # << >>
    BY DEF Execute, Prevents
  <1>2. cur \in Uid /\ trades \in Seq(Trade)
    BY <1>1, MakerFacts DEF PlacesInv, EngineInv
  <1>3. tr.timestamp <= c
    BY <1>2
  <1> HIDE DEF tr
  <1>4. /\ Len(trades') = Len(trades) + 1 /\ trades'[Len(trades) + 1] = tr /\ Len(trades) \in Nat
        /\ \A i \in 1 .. Len(trades) : trades'[i] = trades[i]
    BY <1>1, <1>2
  <1>5. \A i \in 1 .. Len(trades') : i \in 1 .. Len(trades) \/ i = Len(trades) + 1
    BY <1>4
  <1>6. QED
    BY <1>3, <1>4, <1>5

LEMMA StepTimes ==
  ASSUME PlacesInv, EngineInv', TimesPassed, [Next]_vars
  PROVE  TimesPassed'
  <1>1. clock \in Nat /\ clock' \in Nat /\ clock <= clock' /\ order \in [Uid -> Order]
    BY ClockRuns, PlaceFacts DEF PlacesInv
  <1>2. \A u \in Uid : order[u].timestamp \in Nat /\ order[u].timestamp <= clock
    BY <1>1 DEF Order, TimesPassed
  <1>3. \A u \in Uid : order'[u].timestamp <= clock'
    <2>1. CASE ~Alters
      BY <1>1, <1>2, <2>1, StepSteady DEF Steady
    <2>2. ASSUME NEW tk \in Tickets, Submit(tk) PROVE \A u \in Uid : order'[u].timestamp <= clock'
      BY <1>1, <1>2, <2>2, SubmitTimes, SubmitFacts
    <2>3. ASSUME NEW oid \in OrderId, NEW am \in Amendments,
                 ModifyAcross(oid, am) \/ ModifyRequote(oid, am) \/ ModifyReduce(oid, am)
          PROVE  \A u \in Uid : order'[u].timestamp <= clock'
      <3> DEFINE w == book.map[oid]
      <3>1. clock' = clock + 1 /\ w \in Uid /\ order'[w].timestamp \in {clock + 1, order[w].timestamp}
            /\ \A v \in Uid : v # w => order'[v] = order[v]
        BY <2>3, AmendedTimes
      <3> HIDE DEF w
      <3>2. QED
        BY <1>1, <1>2, <3>1
    <2>4. ASSUME NEW u \in Uid, Trigger(u) PROVE \A v \in Uid : order'[v].timestamp <= clock'
      BY <1>1, <1>2, <2>4, TriggeredFacts
    <2>5. QED
      BY <2>1, <2>2, <2>3, <2>4 DEF Alters
  <1>4. \A i \in 1 .. Len(trades') : trades'[i].timestamp <= clock'
    <2>1. \A i \in 1 .. Len(trades) : trades[i].timestamp \in Nat
      BY TradeTyped
    <2>2. \A i \in 1 .. Len(trades) : trades[i].timestamp <= clock'
      BY <1>1, <2>1 DEF TimesPassed
    <2>3. \A u \in Uid : order[u].timestamp <= clock'
      BY <1>1, <1>2
    <2>4. CASE Execute
      BY <1>1, <2>2, <2>3, <2>4, TradeTimes
    <2>5. CASE ~Execute
      BY <2>2, <2>5, TradesByExecute
    <2>6. QED
      BY <2>4, <2>5
  <1>5. QED
    BY <1>3, <1>4 DEF TimesPassed

(* A new time is newer than every trade.                                   *)
LEMMA NowIsSince ==
  ASSUME PlacesInv, TimesPassed, NEW o, o.timestamp = clock + 1
  PROVE  Since(o, trades)
  <1>1. clock \in Nat /\ trades \in Seq(Trade)
    BY InputAssumption DEF PlacesInv, EngineInv
  <1>2. CASE trades # << >>
    <2>1. Len(trades) \in 1 .. Len(trades)
      BY <1>1, <1>2, EmptySeq
    <2>2. trades[Len(trades)].timestamp <= clock /\ trades[Len(trades)].timestamp \in Nat
      BY <2>1, TradeTyped DEF TimesPassed
    <2>3. QED
      BY <1>1, <2>2 DEF Since
  <1>3. QED
    BY <1>2 DEF Since


LEMMA SteadyStops ==
  ASSUME NEW o, NEW p, Steady(o, p)
  PROVE  /\ IsStop(o) = IsStop(p) /\ o.timestamp = p.timestamp
         /\ \A q : Reached(o, q) = Reached(p, q)
  BY DEF Steady, Alike, IsStop, Reached

(* Nobody comes to the book or into hand who was not there, but an order   *)
(* that is no stop.                                                        *)
LEMMA HandsSteady ==
  ASSUME PlacesInv, EngineInv', [Next]_vars, ~Alters
  PROVE  \A u \in OnBook(book') \cup InHand' :
            \/ u \in OnBook(book) \cup InHand
            \/ (u \in 1 .. next_id /\ ~IsStop(order[u]))
  <1>1. CASE ~Moves
    BY <1>1, StepsSorted DEF Fading
  <1>2. ASSUME NEW u \in Uid, ParkStop(u)
        PROVE  OnBook(book') \subseteq OnBook(book) /\ InHand' \subseteq InHand
    BY <1>2 DEF ParkStop, Taking, InHand
  <1>3. ASSUME NEW u \in Uid, StartMatch(u)
        PROVE  OnBook(book') \subseteq OnBook(book) /\ InHand' = {u} /\ ~IsStop(order[u]) /\ u \in 1 .. next_id
    BY <1>3, TakenFacts DEF StartMatch, InHand
  <1>4. CASE StpCancelNewest
    BY <1>4 DEF StpCancelNewest, Matching, InHand
  <1>5. CASE Rest
    <2>1. InHand' = {} /\ InHand = {cur}
      BY <1>5 DEF Rest, InHand, AfterResidual
    <2>2. OnBook(book') \subseteq OnBook(book) \cup {cur}
      BY <1>5, RestPlaces
    <2>3. QED
      BY <2>1, <2>2
  <1>6. CASE StpDecrement \/ Execute
    <2>1. OnBook(book') \subseteq OnBook(book) /\ UNCHANGED <<pc, cur>>
      BY <1>6, ChargeFacts
    <2>2. QED
      BY <2>1 DEF InHand
  <1>7. QED
    BY <1>1, <1>2, <1>3, <1>4, <1>5, <1>6 DEF Moves, Alters

LEMMA SubmitStopsAlone ==
  ASSUME PlacesInv, EngineInv', TimesPassed, StopsComeAlone, NEW tk \in Tickets, Submit(tk)
  PROVE  StopsComeAlone'
  <1> DEFINE w == next_id + 1
  <1>1. /\ order'[w].timestamp = clock + 1 /\ pc = "idle" /\ pc' = "loop" /\ pending' = Append(pending, w)
        /\ UNCHANGED <<book, trades>> /\ w \in Uid /\ InHand' = {}
        /\ \A v \in Uid : v # w => order'[v] = order[v]
    BY SubmitTimes, SubmitFacts
  <1>2. OnBook(book) \subseteq 1 .. next_id /\ 1 .. next_id \subseteq Uid /\ w \notin 1 .. next_id
    BY PlaceFacts
  <1>3. pending = << >>
    BY <1>1 DEF StopsComeAlone, Busy
  <1>4. Since(order'[w], trades')
    BY <1>1, NowIsSince
  <1> HIDE DEF w
  <1>5. pending' = <<w>> /\ ToSet(pending') = {w}
    BY <1>1, <1>3 DEF ToSet
  <1>6. \A u \in OnBook(book') \cup InHand' : ~IsStop(order'[u])
    BY <1>1, <1>2 DEF StopsComeAlone
  <1>7. QED
    BY <1>1, <1>4, <1>5, <1>6 DEF StopsComeAlone, Busy

LEMMA ModifyStopsAlone ==
  ASSUME PlacesInv, EngineInv', StopsComeAlone, NEW oid \in OrderId, NEW am \in Amendments,
         ModifyAcross(oid, am) \/ ModifyRequote(oid, am) \/ ModifyReduce(oid, am)
  PROVE  StopsComeAlone'
  <1> DEFINE w == book.map[oid]
  <1>1. /\ pc = "idle" /\ \/ pc' = "idle" /\ pending' = pending
                          \/ pc' = "loop" /\ pending' = Append(pending, w)
        /\ w \in OnBook(book) /\ w \in Uid /\ order'[w].type = order[w].type
        /\ \A v \in Uid : v # w => order'[v] = order[v]
        /\ OnBook(book') \subseteq OnBook(book) /\ InHand' = {}
    BY AmendedTimes
  <1>2. OnBook(book) \subseteq Uid
    BY PlaceFacts
  <1>3. pending = << >>
    BY <1>1 DEF StopsComeAlone, Busy
  <1> HIDE DEF w
  <1>4. ToSet(pending') \subseteq {w} /\ (pc' = "idle" => pending' = << >>)
    BY <1>1, <1>3 DEF ToSet
  <1>5. ~IsStop(order'[w])
    BY <1>1 DEF StopsComeAlone, IsStop
  <1>6. \A u \in OnBook(book') \cup InHand' : ~IsStop(order'[u])
    BY <1>1, <1>2, <1>5 DEF StopsComeAlone
  <1>7. QED
    BY <1>1, <1>4, <1>5, <1>6 DEF StopsComeAlone, Busy

LEMMA TriggerStopsAlone ==
  ASSUME PlacesInv, StopsComeAlone, NEW u \in Uid, Trigger(u)
  PROVE  StopsComeAlone'
  <1>1. /\ ~IsStop(order'[u]) /\ \A v \in Uid : v # u => order'[v] = order[v]
        /\ pc = "trigger" /\ pc' = "trigger" /\ pending' = Append(pending, u)
        /\ UNCHANGED <<book, cur>> /\ u \in Heaped(stops)
    BY TriggeredFacts
  <1>2. /\ OnBook(book) \subseteq Uid /\ ToSet(pending) \subseteq Uid /\ Heaped(stops) \subseteq 1 .. next_id
    BY PlaceFacts
  <1>3. ToSet(pending') = ToSet(pending) \cup {u}
    BY <1>1, <1>2, PendingAdds
  <1>4. InHand' = {} /\ InHand = {}
    BY <1>1 DEF InHand
  <1>5. \A v \in ToSet(pending) : ~IsStop(order[v])
    BY <1>1 DEF StopsComeAlone
  <1>6. \A v \in ToSet(pending') : ~IsStop(order'[v])
    BY <1>1, <1>2, <1>3, <1>5
  <1>7. \A v \in OnBook(book') \cup InHand' : ~IsStop(order'[v])
    BY <1>1, <1>2, <1>4 DEF StopsComeAlone
  <1>8. QED
    BY <1>1, <1>6, <1>7 DEF StopsComeAlone, Busy

LEMMA StepStopsAlone ==
  ASSUME PlacesInv, EngineInv', TimesPassed, StopsComeAlone, [Next]_vars
  PROVE  StopsComeAlone'
  <1>1. CASE Alters
    BY <1>1, SubmitStopsAlone, ModifyStopsAlone, TriggerStopsAlone DEF Alters
  <1>2. CASE ~Alters
    <2>1. /\ OnBook(book) \cup InHand \subseteq Uid /\ ToSet(pending) \subseteq Uid /\ 1 .. next_id \subseteq Uid
      BY PlaceFacts, HandFacts DEF InHand
    <2>2. \A u \in Uid : IsStop(order'[u]) = IsStop(order[u]) /\ order'[u].timestamp = order[u].timestamp
      BY <1>2, StepSteady, SteadyStops
    <2>3. \A u \in OnBook(book') \cup InHand' : ~IsStop(order'[u])
      BY <1>2, <2>1, <2>2, HandsSteady DEF StopsComeAlone
    <2>4. ToSet(<< >>) = {}
      BY EmptyQueue
    <2>5. CASE BetweenCalls \/ Drained
      <3>1. pending' = << >>
        BY <2>5 DEF BetweenCalls, Drained, StopsComeAlone
      <3>2. QED
        BY <2>3, <2>4, <3>1 DEF StopsComeAlone
    <2>6. CASE TakesOne
      <3>1. PICK u \in Uid : Taking(u) /\ pending' = Tail(pending) /\ pc' \in {"loop", "match"}
        BY <2>6 DEF TakesOne, StartMatch
      <3>2. ToSet(pending') = ToSet(pending) \ {u} /\ u = Head(pending)
        BY <3>1, TakenFacts DEF Taking
      <3>3. ASSUME NEW v \in ToSet(pending'), IsStop(order'[v]) PROVE FALSE
        <4>1. v \in ToSet(pending) /\ IsStop(order[v]) /\ v # u
          BY <2>1, <2>2, <3>2, <3>3
        <4>2. pending = <<v>>
          BY <4>1 DEF StopsComeAlone
        <4>3. QED
          BY <3>2, <4>1, <4>2
      <3>4. QED
        BY <2>3, <3>1, <3>3 DEF StopsComeAlone, Busy
    <2>7. CASE WithinCall
      <3>1. pc # "loop" /\ pc' \in Busy /\ pending' = pending
        BY <2>7 DEF WithinCall
      <3>2. \A v \in ToSet(pending') : ~IsStop(order'[v])
        BY <2>1, <2>2, <3>1 DEF StopsComeAlone
      <3>3. QED
        BY <2>3, <3>1, <3>2 DEF StopsComeAlone
    <2>8. CASE UNCHANGED vars
      <3>1. UNCHANGED <<pending, pc, trades, order, book, cur>> /\ InHand' = InHand
        BY <2>8 DEF vars, InHand
      <3>2. QED
        BY <3>1 DEF StopsComeAlone, Since
    <2>9. QED
      BY <1>2, <2>5, <2>6, <2>7, <2>8, Courses
  <1>3. QED
    BY <1>1, <1>2

(* Only parking puts an order on a heap.                                   *)
LEMMA HeapsOnlyPark ==
  ASSUME EngineInv, [Next]_vars, ~Alters, \A u \in Uid : ~ParkStop(u)
  PROVE  \A s \in Side : stops'.heap[s] \subseteq stops.heap[s]
  <1>1. stops \in Stops
    BY DEF EngineInv, StopsOK
  <1>2. ASSUME NEW oid \in OrderId, CancelEffect(oid)
        PROVE  \A s \in Side : stops'.heap[s] \subseteq stops.heap[s]
    <2>1. ForgetStop(stops, oid).heap = stops.heap
      BY <1>1 DEF ForgetStop, Stops
    <2>2. QED
      BY <1>2, <2>1 DEF CancelEffect, CancelResting, CancelStop, CancelUnknown
  <1>3. ASSUME NEW u \in Uid, SkipCanceled(u) PROVE \A s \in Side : stops'.heap[s] \subseteq stops.heap[s]
    <2>1. \A s \in Side : PopStop(stops, order[u], u).heap[s] \subseteq stops.heap[s]
      BY <1>1 DEF PopStop, Stops
    <2>2. QED
      BY <1>3, <2>1 DEF SkipCanceled
  <1>4. ASSUME UNCHANGED stops PROVE \A s \in Side : stops'.heap[s] \subseteq stops.heap[s]
    BY <1>4
  <1>5. CASE Call
    BY <1>2, <1>4, <1>5 DEF Call, Alters, Cancel, CancelAll, ModifyToNothing
  <1>6. CASE Step
    BY <1>2, <1>3, <1>4, <1>6 DEF Step, Alters, Drained, RejectInvalid, RejectStop, RejectUnfillable,
       RejectTaker, Reject, StartMatch, DropDrained, MatchDone, NoProgress, vars, StpCancelNewest,
       StpCancelOldest, StpDecrement, Execute, Complete, Expire, Rest, TriggersDone, SweepOne, SweepStops,
       SweepDone
  <1>7. QED
    BY <1>4, <1>5, <1>6 DEF Next, vars

LEMMA ParkedHeaps ==
  ASSUME EngineInv, NEW u \in Uid, ParkStop(u)
  PROVE  \A s \in Side : stops'.heap[s] \subseteq stops.heap[s] \cup {u}
  <1>1. stops \in Stops /\ stops' = AddStop(stops, order[u], u)
    BY DEF EngineInv, StopsOK, ParkStop
  <1>2. QED
    BY <1>1 DEF AddStop, Stops

(* What a step leaves of the stops nothing has been done about.            *)
Quiet(s) == \A u \in stops.heap[s] : Reached(order[u], last) => Since(order[u], trades)

LEMMA StaysQuiet ==
  ASSUME PlacesInv, NEW s \in Side, Quiet(s), UNCHANGED <<last, trades>>,
         \A u \in Heaped(stops) : order'[u] = order[u] \/ Steady(order'[u], order[u]),
         \A u \in stops'.heap[s] \ stops.heap[s] : Since(order'[u], trades)
  PROVE  Quiet(s)'
  <1>1. SUFFICES ASSUME NEW u \in stops'.heap[s], Reached(order'[u], last) PROVE Since(order'[u], trades)
    BY DEF Quiet, Since
  <1>2. CASE u \in stops.heap[s]
    <2>1. u \in Heaped(stops)
      BY <1>2 DEF Heaped, Side
    <2>2. Reached(order[u], last) /\ order'[u].timestamp = order[u].timestamp
      BY <1>1, <2>1, SteadyStops
    <2>3. QED
      BY <1>2, <2>2 DEF Quiet, Since
  <1>3. QED
    BY <1>2

LEMMA OverdueIsQuiet == NoneOverdue <=> (Settled => \A s \in Side : Quiet(s))
  BY DEF NoneOverdue, Quiet

LEMMA AlteredOverdue ==
  ASSUME PlacesInv, EngineInv', NoneOverdue, Alters
  PROVE  NoneOverdue'
  <1>1. ASSUME pc = "idle", UNCHANGED <<last, trades, stops>>, \A u \in Heaped(stops) : order'[u] = order[u]
        PROVE  NoneOverdue'
    <2>1. \A s \in Side : Quiet(s)
      BY <1>1, OverdueIsQuiet DEF Settled
    <2>2. \A s \in Side : Quiet(s)'
      BY <1>1, <2>1, StaysQuiet
    <2>3. QED
      BY <2>2 DEF NoneOverdue, Quiet
  <1>2. ASSUME NEW tk \in Tickets, Submit(tk) PROVE NoneOverdue'
    <2>1. \A u \in Heaped(stops) : u \in Uid /\ u # next_id + 1
      BY PlaceFacts
    <2>2. \A u \in Heaped(stops) : order'[u] = order[u]
      BY <1>2, <2>1, SubmitFacts
    <2>3. QED
      BY <1>1, <1>2, <2>2, SubmitTimes
  <1>3. ASSUME NEW oid \in OrderId, NEW am \in Amendments,
               ModifyAcross(oid, am) \/ ModifyRequote(oid, am) \/ ModifyReduce(oid, am)
        PROVE  NoneOverdue'
    <2>1. /\ pc = "idle" /\ UNCHANGED <<last, trades, stops>> /\ book.map[oid] \in OnBook(book)
          /\ \A v \in Uid : v # book.map[oid] => order'[v] = order[v]
      BY <1>3, AmendedTimes
    <2>2. \A u \in Heaped(stops) : u \in Uid /\ u # book.map[oid]
      BY <2>1, PlaceFacts DEF Apart
    <2>3. QED
      BY <1>1, <2>1, <2>2
  <1>4. ASSUME NEW u \in Uid, Trigger(u) PROVE NoneOverdue'
    BY <1>4, TriggeredFacts DEF NoneOverdue, Settled
  <1>5. QED
    BY <1>2, <1>3, <1>4 DEF Alters

LEMMA StepOverdue ==
  ASSUME PlacesInv, EngineInv', StopsComeAlone, NoneOverdue, [Next]_vars
  PROVE  NoneOverdue'
  <1>1. CASE Alters
    BY <1>1, AlteredOverdue
  <1>2. CASE ~Alters
    <2>1. /\ \A u \in Heaped(stops) : Steady(order'[u], order[u])
          /\ \A u \in Uid : order'[u].timestamp = order[u].timestamp
      <3>1. Heaped(stops) \subseteq Uid
        BY PlaceFacts
      <3>2. \A u \in Uid : Steady(order'[u], order[u])
        BY <1>2, StepSteady
      <3>3. QED
        BY <3>1, <3>2, SteadyStops
    <2>2. ASSUME Settled, UNCHANGED <<last, trades>>, pc \in {"match", "residual", "trigger"} \/ pc \notin Busy
          PROVE  NoneOverdue'
      <3>1. \A u \in Uid : ~ParkStop(u)
        BY <2>2 DEF ParkStop, Taking, Busy
      <3>2. \A s \in Side : stops'.heap[s] \subseteq stops.heap[s]
        BY <1>2, <3>1, HeapsOnlyPark DEF PlacesInv
      <3>3. \A s \in Side : Quiet(s)'
        BY <2>1, <2>2, <3>2, StaysQuiet, OverdueIsQuiet
      <3>4. QED
        BY <3>3 DEF NoneOverdue, Quiet
    <2>3. CASE BetweenCalls
      BY <2>2, <2>3 DEF BetweenCalls, Settled, Busy
    <2>4. CASE Drained \/ TakesOne
      <3>1. pc = "loop" /\ UNCHANGED <<last, trades>>
        BY <2>4 DEF Drained, TakesOne, Taking
      <3>2. \A s \in Side : Quiet(s)
        BY <3>1, OverdueIsQuiet DEF Settled
      <3>3. ASSUME NEW s \in Side, NEW u \in stops'.heap[s] \ stops.heap[s] PROVE Since(order'[u], trades)
        <4>1. PICK v \in Uid : ParkStop(v)
          BY <1>2, <3>3, HeapsOnlyPark DEF PlacesInv
        <4>2. u = v
          BY <3>3, <4>1, ParkedHeaps DEF PlacesInv
        <4>3. u \in ToSet(pending) /\ IsStop(order[u])
          BY <4>1, <4>2, TakenFacts DEF ParkStop
        <4>4. Since(order[u], trades)
          BY <4>3 DEF StopsComeAlone
        <4>5. QED
          BY <2>1, <4>1, <4>2, <4>4 DEF Since
      <3>4. \A s \in Side : Quiet(s)'
        BY <2>1, <3>1, <3>2, <3>3, StaysQuiet
      <3>5. QED
        BY <3>4 DEF NoneOverdue, Quiet
    <2>5. CASE TriggersDone
      <3>1. /\ Due(stops, order, "BUY", last) = {} /\ Due(stops, order, "SELL", last) = {}
            /\ UNCHANGED <<order, stops, last, trades>>
        BY <2>5 DEF TriggersDone
      <3>2. \A s \in Side : \A u \in stops.heap[s] : ~Reached(order[u], last)
        BY <3>1 DEF Due, Side
      <3>3. QED
        BY <3>1, <3>2 DEF NoneOverdue
    <2>6. CASE WithinCall /\ ~TriggersDone
      <3>1. CASE Execute
        <4>1. pc' = "match" /\ traded' = TRUE
          BY <3>1 DEF Execute, Matching
        <4>2. QED
          BY <4>1 DEF NoneOverdue, Settled
      <3>2. CASE ~Execute /\ Settled'
        <4>1. UNCHANGED <<trades, last, traded>> /\ pc # "trigger" /\ pc \in {"match", "residual"}
          BY <2>6, <3>2 DEF WithinCall, Settled
        <4>2. ~traded
          BY <2>6, <3>2, <4>1 DEF WithinCall, Settled, AfterResidual
        <4>3. QED
          BY <2>2, <4>1, <4>2 DEF Settled
      <3>3. QED
        BY <3>1, <3>2 DEF NoneOverdue
    <2>7. CASE UNCHANGED vars
      BY <2>7 DEF vars, NoneOverdue, Settled, Since
    <2>8. QED
      BY <1>2, <2>3, <2>4, <2>5, <2>6, <2>7, Courses
  <1>3. QED
    BY <1>1, <1>2

LEMMA InitDue == ASSUME Init PROVE DueInv
  <1>1. PlacesInv
    BY InitPlaces
  <1>2. /\ \A u \in Uid : order[u].timestamp = 0 /\ ~IsStop(order[u]) /\ clock = 0 /\ trades = << >>
        /\ pending = << >> /\ pc = "idle" /\ \A s \in Side : stops.heap[s] = {}
    BY DEF Init, Blank, IsStop, NoStops
  <1>3. clock = 0 /\ trades = << >> /\ pending = << >> /\ pc = "idle" /\ \A s \in Side : stops.heap[s] = {}
    BY DEF Init, NoStops
  <1>4. OnBook(book) \cup InHand \subseteq Uid
    BY <1>1, <1>3, PlaceFacts DEF InHand
  <1>5. TimesPassed
    BY <1>2, <1>3 DEF TimesPassed
  <1>6. StopsComeAlone
    BY <1>2, <1>3, <1>4, EmptyQueue DEF StopsComeAlone
  <1>7. NoneOverdue
    BY <1>3 DEF NoneOverdue
  <1>8. QED
    BY <1>1, <1>5, <1>6, <1>7 DEF DueInv

LEMMA StepDue == DueInv /\ [Next]_vars => DueInv'
  <1>1. SUFFICES ASSUME DueInv, [Next]_vars PROVE DueInv'
    OBVIOUS
  <1>2. PlacesInv' /\ EngineInv'
    BY <1>1, StepPlaces DEF DueInv, PlacesInv
  <1>3. QED
    BY <1>1, <1>2, StepTimes, StepStopsAlone, StepOverdue DEF DueInv

(* Between calls a waiting stop whose price is reached arrived after the   *)
(* last trade, whatever cascades, cancellations and modifications came in  *)
(* between: check_triggers after an order that traded leaves none behind.  *)
THEOREM DueStopsTriggered == Spec => []DueStopsAreNew
  <1>1. Init => DueInv
    BY InitDue
  <1>2. DueInv /\ [Next]_vars => DueInv'
    BY StepDue
  <1>3. DueInv => DueStopsAreNew
    <2>1. SUFFICES ASSUME DueInv, pc = "idle", trades # << >>, NEW u \in Waiting, Reached(order[u], last)
                   PROVE  order[u].timestamp > Last(trades).timestamp
      BY DEF DueStopsAreNew
    <2>2. u \in Heaped(stops)
      BY <2>1, WaitingHeaped DEF DueInv, Waiting, Mapped
    <2>3. Since(order[u], trades)
      BY <2>1, <2>2 DEF DueInv, NoneOverdue, Settled, Heaped, Side
    <2>4. QED
      BY <2>1, <2>3 DEF Since, Last
  <1>4. QED
    BY <1>1, <1>2, <1>3, PTL DEF Spec

-----------------------------------------------------------------------------
(* The book's operations, written out.                                     *)

Booked(b, ord, n) == n \in 0 .. MaxOrders /\ BookOK(b, ord, n) /\ Placed(b, ord) /\ Named(b.map, ord)

Home(b, o) == b.level[o.side][TicksOf(o.price)]

(* The live ticks once lv is put back at a place.                          *)
LiveWith(b, s, t, lv) == IF IsEmpty(lv) THEN [b.live EXCEPT ![s] = @ \ {t}] ELSE b.live

LEMMA BookWithFacts ==
  ASSUME NEW b \in Book, NEW s \in Side, NEW t \in Tick, NEW live, NEW lv, NEW map
  PROVE  /\ BookWith(live, b, s, t, lv, map).level[s][t] = lv
         /\ \A x \in Side, y \in Tick :
               ~(x = s /\ y = t) => BookWith(live, b, s, t, lv, map).level[x][y] = b.level[x][y]
         /\ BookWith(live, b, s, t, lv, map).live = live
         /\ BookWith(live, b, s, t, lv, map).map = map
  <1>1. b.level \in [Side -> [Tick -> Level]]
    BY DEF Book
  <1>2. QED
    BY <1>1 DEF BookWith

LEMMA StoreLevelIs ==
  ASSUME NEW b \in Book, NEW s \in Side, NEW t \in Tick, NEW lv \in Level
  PROVE  StoreLevel(b, s, t, lv) = BookWith(LiveWith(b, s, t, lv), b, s, t, lv, b.map)
  <1>1. b = [live |-> b.live, level |-> b.level, map |-> b.map]
    BY DEF Book
  <1>2. CASE IsEmpty(lv)
    <2>1. lv = NewLevel
      BY <1>2 DEF Level, IsEmpty, NewLevel
    <2>2. StoreLevel(b, s, t, lv) = [b EXCEPT !.level[s][t] = NewLevel, !.live[s] = @ \ {t}]
      BY <1>2 DEF StoreLevel
    <2>3. LiveWith(b, s, t, lv) = [b.live EXCEPT ![s] = @ \ {t}]
      BY <1>2 DEF LiveWith
    <2>4. QED
      BY <1>1, <2>1, <2>2, <2>3 DEF BookWith
  <1>3. CASE ~IsEmpty(lv)
    <2>1. StoreLevel(b, s, t, lv) = [b EXCEPT !.level[s][t] = lv] /\ LiveWith(b, s, t, lv) = b.live
      BY <1>3 DEF StoreLevel, LiveWith
    <2>2. QED
      BY <1>1, <2>1 DEF BookWith
  <1>4. QED
    BY <1>2, <1>3

(* Where an order that rests stands.                                       *)
LEMMA RestsAtHome ==
  ASSUME NEW ord \in [Uid -> Order], NEW n, NEW b, Booked(b, ord, n), NEW u \in Resting(b)
  PROVE  /\ u \in Uid /\ u \in 1 .. n /\ ord[u] \in Order /\ ord[u].side \in Side /\ ord[u].oid \in OrderId
         /\ ord[u].price # NoPrice /\ TicksOf(ord[u].price) \in Tick
         /\ TicksOf(ord[u].price) \in b.live[ord[u].side]
         /\ u \in ToSet(Home(b, ord[u]).queue) /\ Home(b, ord[u]) \in Level
         /\ Home(b, ord[u]).queue \in Seq(Uid) /\ IsInjective(Home(b, ord[u]).queue)
  <1>1. PICK s \in Side, t \in Tick : u \in ToSet(b.level[s][t].queue)
    BY WhoRests DEF Booked
  <1>2. ord[u].side = s /\ ord[u].price # NoPrice /\ TicksOf(ord[u].price) = t
        /\ IsInjective(b.level[s][t].queue) /\ (b.level[s][t].queue # << >> => t \in b.live[s])
    BY <1>1 DEF Booked, Placed, WellQueued
  <1>3. b.level[s][t].queue # << >>
    BY <1>1, EmptyQueue
  <1>4. b.level[s][t] \in Level /\ b.level[s][t].queue \in Seq(Uid) /\ u \in 1 .. n
    BY <1>1, QueueType DEF Booked
  <1>5. u \in Uid
    BY <1>4, BoundAssumption DEF Uid, Booked
  <1>6. ord[u] \in Order /\ ord[u].oid \in OrderId
    BY <1>5 DEF Order
  <1>7. QED
    BY <1>1, <1>2, <1>3, <1>4, <1>5, <1>6 DEF Home

LEMMA RemoveOrderIs ==
  ASSUME NEW ord \in [Uid -> Order], NEW n, NEW b, Booked(b, ord, n), NEW u \in Resting(b),
         NEW o, o = ord[u], NEW lv, lv = LevelRemove(Home(b, o), o, u)
  PROVE  /\ RemoveOrder(b, ord, u) =
              BookWith(LiveWith(b, o.side, TicksOf(o.price), lv), b, o.side, TicksOf(o.price), lv,
                       [b.map EXCEPT ![o.oid] = None])
         /\ lv.queue = Unlink(Home(b, o).queue, u) /\ lv \in Level
         /\ lv.total = Clip(Home(b, o).total - o.display) /\ lv.hidden = Clip(Home(b, o).hidden - o.hidden)
         /\ ToSet(lv.queue) = ToSet(Home(b, o).queue) \ {u} /\ IsInjective(lv.queue)
  <1> DEFINE t == TicksOf(o.price)
             d == [b EXCEPT !.map[o.oid] = None]
  <1>1. /\ u \in Uid /\ o \in Order /\ o.side \in Side /\ o.oid \in OrderId /\ o.price # NoPrice /\ t \in Tick
        /\ t \in b.live[o.side] /\ u \in ToSet(Home(b, o).queue) /\ Home(b, o) \in Level
        /\ Home(b, o).queue \in Seq(Uid) /\ IsInjective(Home(b, o).queue)
    BY RestsAtHome
  <1>2. IsQueued(Home(b, o), u)
    BY <1>1, QueuedIs
  <1>3. /\ lv.queue = Unlink(Home(b, o).queue, u) /\ lv.total = Clip(Home(b, o).total - o.display)
        /\ lv.hidden = Clip(Home(b, o).hidden - o.hidden)
        /\ lv = [queue |-> lv.queue, total |-> lv.total, hidden |-> lv.hidden]
    BY <1>2 DEF LevelRemove
  <1>4. Unlink(Home(b, o).queue, u) \in Seq(Uid) /\ IsInjective(lv.queue)
        /\ ToSet(lv.queue) = ToSet(Home(b, o).queue) \ {u}
    BY <1>1, <1>3, InjectiveUnlink
  <1>5. lv \in Level
    <2>1. Home(b, o).total - o.display \in Int /\ Home(b, o).hidden - o.hidden \in Int
      BY <1>1 DEF Level, Order
    <2>2. lv.total \in Nat /\ lv.hidden \in Nat
      BY <1>3, <2>1, ClipType
    <2>3. lv.queue \in Seq(Uid)
      BY <1>3, <1>4
    <2>4. QED
      BY <1>3, <2>2, <2>3 DEF Level
  <1>6. b \in Book /\ d \in Book /\ d.map = [b.map EXCEPT ![o.oid] = None]
        /\ d.live = b.live /\ d.level = b.level
    <2>1. b \in Book
      BY DEF Booked, BookOK
    <2>2. QED
      BY <1>1, <2>1 DEF Book, None
  <1>7. RemoveOrder(b, ord, u) = StoreLevel(d, o.side, t, lv)
    BY <1>1, <1>6 DEF RemoveOrder, Home
  <1> HIDE DEF d, t
  <1>8. StoreLevel(d, o.side, t, lv) = BookWith(LiveWith(d, o.side, t, lv), d, o.side, t, lv, d.map)
    BY <1>1, <1>5, <1>6, StoreLevelIs
  <1>9. BookWith(LiveWith(d, o.side, t, lv), d, o.side, t, lv, d.map) =
          BookWith(LiveWith(b, o.side, t, lv), b, o.side, t, lv, [b.map EXCEPT ![o.oid] = None])
    BY <1>6 DEF BookWith, LiveWith
  <1>10. QED
    BY <1>3, <1>4, <1>5, <1>7, <1>8, <1>9 DEF t

LEMMA InsertOrderIs ==
  ASSUME NEW ord, NEW b, NEW u, NEW o, o = ord[u], o.price # NoPrice,
         NEW lv, lv = LevelAppend(Home(b, o), o, u)
  PROVE  /\ InsertOrder(b, ord, u) =
              BookWith([b.live EXCEPT ![o.side] = @ \cup {TicksOf(o.price)}], b, o.side, TicksOf(o.price), lv,
                       [b.map EXCEPT ![o.oid] = u])
         /\ lv.queue = Append(Home(b, o).queue, u)
         /\ lv.total = Home(b, o).total + o.display /\ lv.hidden = Home(b, o).hidden + o.hidden
  BY DEF InsertOrder, BookWith, LevelAppend, Home

(* Who rests after one queue has changed.                                  *)
LEMMA OneQueue ==
  ASSUME NEW ord, NEW n, NEW b, Booked(b, ord, n), NEW s \in Side, NEW t \in Tick, NEW live, NEW lv, NEW map,
         NEW c, c = BookWith(live, b, s, t, lv, map), NEW new, NEW m \in 0 .. MaxOrders, BookOK(c, new, m)
  PROVE  /\ ToSet(lv.queue) = ToSet(b.level[s][t].queue) => Resting(c) = Resting(b)
         /\ \A u \in ToSet(b.level[s][t].queue) :
               ToSet(lv.queue) = ToSet(b.level[s][t].queue) \ {u} => Resting(c) = Resting(b) \ {u}
         /\ \A u : ToSet(lv.queue) = ToSet(b.level[s][t].queue) \cup {u} => Resting(c) = Resting(b) \cup {u}
  <1>1. /\ c.level[s][t] = lv
        /\ \A x \in Side, y \in Tick : ~(x = s /\ y = t) => c.level[x][y] = b.level[x][y]
    BY BookWithFacts DEF Booked, BookOK
  <1>2. /\ \A u : u \in Resting(b) <=> \E x \in Side, y \in Tick : u \in ToSet(b.level[x][y].queue)
        /\ \A u : u \in Resting(c) <=> \E x \in Side, y \in Tick : u \in ToSet(c.level[x][y].queue)
    BY WhoRests DEF Booked
  <1>3. \A u \in ToSet(b.level[s][t].queue), x \in Side, y \in Tick :
           ~(x = s /\ y = t) => u \notin ToSet(b.level[x][y].queue)
    <2>1. ASSUME NEW u \in ToSet(b.level[s][t].queue), NEW x \in Side, NEW y \in Tick,
                 u \in ToSet(b.level[x][y].queue)
          PROVE  x = s /\ y = t
      <3>1. WellQueued(b.level[x][y].queue, ord, x, y) /\ WellQueued(b.level[s][t].queue, ord, s, t)
        BY DEF Booked, Placed
      <3>2. QED
        BY <2>1, <3>1 DEF WellQueued
    <2>2. QED
      BY <2>1
  <1>4. ASSUME ToSet(lv.queue) = ToSet(b.level[s][t].queue) PROVE Resting(c) = Resting(b)
    <2>1. \A x \in Side, y \in Tick : ToSet(c.level[x][y].queue) = ToSet(b.level[x][y].queue)
      BY <1>1, <1>4
    <2>2. \A v : v \in Resting(c) <=> v \in Resting(b)
      BY <1>2, <2>1
    <2>3. QED
      BY Zenon, <2>2
  <1>5. ASSUME NEW u \in ToSet(b.level[s][t].queue), ToSet(lv.queue) = ToSet(b.level[s][t].queue) \ {u}
        PROVE  Resting(c) = Resting(b) \ {u}
    <2>1. ASSUME NEW v \in Resting(c) PROVE v \in Resting(b) \ {u}
      BY <1>1, <1>2, <1>3, <1>5, <2>1
    <2>2. ASSUME NEW v \in Resting(b) \ {u} PROVE v \in Resting(c)
      BY <1>1, <1>2, <1>5, <2>2
    <2>3. QED
      BY <2>1, <2>2
  <1>6. ASSUME NEW u, ToSet(lv.queue) = ToSet(b.level[s][t].queue) \cup {u}
        PROVE  Resting(c) = Resting(b) \cup {u}
    <2>1. ASSUME NEW v \in Resting(c) PROVE v \in Resting(b) \cup {u}
      BY <1>1, <1>2, <1>6, <2>1
    <2>2. ASSUME NEW v \in Resting(b) \cup {u} PROVE v \in Resting(c)
      BY <1>1, <1>2, <1>6, <2>2
    <2>3. QED
      BY <2>1, <2>2
  <1>7. QED
    BY <1>4, <1>5, <1>6

IsABook(c) == \E new : \E m \in 0 .. MaxOrders : BookOK(c, new, m)

Joined(lv, b, s, t, u) == ToSet(lv.queue) = ToSet(b.level[s][t].queue) \cup {u}

Written(c, b, s, t, lv) == \E live, map : c = BookWith(live, b, s, t, lv, map)

Parted(lv, b, s, t, u) ==
  u \in ToSet(b.level[s][t].queue) /\ ToSet(lv.queue) = ToSet(b.level[s][t].queue) \ {u}

LEMMA QueueJoined ==
  ASSUME NEW ord, NEW n, NEW b, Booked(b, ord, n), NEW s \in Side, NEW t \in Tick, NEW lv,
         NEW c, Written(c, b, s, t, lv), IsABook(c),
         NEW u, Joined(lv, b, s, t, u)
  PROVE  Resting(c) = Resting(b) \cup {u}
  <1>1. \A v : ToSet(lv.queue) = ToSet(b.level[s][t].queue) \cup {v} => Resting(c) = Resting(b) \cup {v}
    BY OneQueue DEF IsABook, Written
  <1>2. QED
    BY <1>1 DEF Joined

LEMMA QueueParted ==
  ASSUME NEW ord, NEW n, NEW b, Booked(b, ord, n), NEW s \in Side, NEW t \in Tick, NEW lv,
         NEW c, Written(c, b, s, t, lv), IsABook(c),
         NEW u, Parted(lv, b, s, t, u)
  PROVE  Resting(c) = Resting(b) \ {u}
  <1>1. \A v \in ToSet(b.level[s][t].queue) :
           ToSet(lv.queue) = ToSet(b.level[s][t].queue) \ {v} => Resting(c) = Resting(b) \ {v}
    BY OneQueue DEF IsABook, Written
  <1>2. QED
    BY <1>1 DEF Parted

-----------------------------------------------------------------------------
(* The order types of the participants: a trigger only makes MARKET and    *)
(* LIMIT orders of stops.                                                  *)

NoneOf(ty) == \A u \in 1 .. next_id : order[u].type # ty

NeverSent(ty) == \A tk \in Tickets : tk.type # ty

LEMMA TypesStay ==
  ASSUME PlacesInv, EngineInv', [Next]_vars, NEW ty, ty \notin {"MARKET", "LIMIT"}, NeverSent(ty), NoneOf(ty)
  PROVE  NoneOf(ty)'
  <1>1. order \in [Uid -> Order] /\ 1 .. next_id \subseteq Uid /\ next_id \in Nat
    BY PlaceFacts
  <1>2. ASSUME next_id' = next_id, \A u \in Uid : order'[u].type = order[u].type PROVE NoneOf(ty)'
    BY <1>1, <1>2 DEF NoneOf
  <1>3. CASE ~Alters
    <2>1. next_id' = next_id
      BY <1>3, CountedBySubmit DEF Alters
    <2>2. \A u \in Uid : order'[u].type = order[u].type
      BY <1>3, StepSteady DEF Steady
    <2>3. QED
      BY <1>2, <2>1, <2>2
  <1>4. ASSUME NEW tk \in Tickets, Submit(tk) PROVE NoneOf(ty)'
    <2>1. next_id' = next_id + 1 /\ order'[next_id + 1].type = tk.type
          /\ \A v \in Uid : v # next_id + 1 => order'[v] = order[v]
      BY <1>4, SubmitFacts
    <2>2. \A v \in 1 .. next_id + 1 : v \in 1 .. next_id \/ v = next_id + 1
      BY <1>1
    <2>3. QED
      BY <1>1, <2>1, <2>2 DEF NoneOf, NeverSent
  <1>5. ASSUME NEW oid \in OrderId, NEW am \in Amendments,
               ModifyAcross(oid, am) \/ ModifyRequote(oid, am) \/ ModifyReduce(oid, am)
        PROVE  NoneOf(ty)'
    <2>1. next_id' = next_id
      BY <1>5 DEF ModifyAcross, ModifyRequote, ModifyReduce
    <2>2. \A u \in Uid : order'[u].type = order[u].type
      BY <1>5, AmendedTimes
    <2>3. QED
      BY <1>2, <2>1, <2>2
  <1>6. ASSUME NEW u \in Uid, Trigger(u) PROVE NoneOf(ty)'
    <2>1. next_id' = next_id /\ order' = [order EXCEPT ![u] = Triggered(order[u], order[cur].timestamp)]
      BY <1>6 DEF Trigger
    <2>2. Triggered(order[u], order[cur].timestamp).type \in {"MARKET", "LIMIT", order[u].type}
      BY <1>1 DEF Triggered, Order
    <2>3. QED
      BY <1>1, <2>1, <2>2 DEF NoneOf
  <1>7. QED
    BY <1>3, <1>4, <1>5, <1>6 DEF Alters

-----------------------------------------------------------------------------
(* How each step changes who rests, and the map.  Without icebergs, the    *)
(* map names only orders that rest.                                        *)

MappedRest == Mapped(book.map) \subseteq Resting(book)

Stays == Resting(book') = Resting(book) /\ book'.map = book.map

Leaves(u) ==
  /\ u \in Resting(book) /\ Resting(book') = Resting(book) \ {u}
  /\ book'.map = [book.map EXCEPT ![order[u].oid] = None]

Arrives(u) ==
  /\ u \in 1 .. next_id /\ u \notin OnBook(book) /\ Resting(book') = Resting(book) \cup {u}
  /\ book'.map = [book.map EXCEPT ![order[u].oid] = u]

LiveShrinks == \A s \in Side : book'.live[s] \subseteq book.live[s]

LEMMA BookedNow ==
  ASSUME PlacesInv
  PROVE  /\ Booked(book, order, next_id) /\ order \in [Uid -> Order] /\ next_id \in 0 .. MaxOrders
         /\ 1 .. next_id \subseteq Uid /\ book \in Book
  BY PlaceFacts DEF Booked, BookOK

LEMMA NextBookOK ==
  ASSUME EngineInv' PROVE BookOK(book', order', next_id') /\ next_id' \in 0 .. MaxOrders
  BY DEF EngineInv

LEMMA LiveWithShrinks ==
  ASSUME NEW b \in Book, NEW s \in Side, NEW t, NEW lv, NEW x \in Side
  PROVE  LiveWith(b, s, t, lv)[x] \subseteq b.live[x]
  BY DEF LiveWith, Book

(* A step that changes one queue.                                          *)
LEMMA QueueNow ==
  ASSUME PlacesInv, EngineInv', NEW s \in Side, NEW t \in Tick, NEW live, NEW lv, NEW map,
         book' = BookWith(live, book, s, t, lv, map), NEW q, q = book.level[s][t].queue
  PROVE  /\ book'.live = live /\ book'.map = map
         /\ ToSet(lv.queue) = ToSet(q) => Resting(book') = Resting(book)
         /\ \A u \in ToSet(q) : ToSet(lv.queue) = ToSet(q) \ {u} => Resting(book') = Resting(book) \ {u}
         /\ \A u : ToSet(lv.queue) = ToSet(q) \cup {u} => Resting(book') = Resting(book) \cup {u}
  <1>1. Booked(book, order, next_id) /\ book \in Book
    BY BookedNow
  <1>2. BookOK(book', order', next_id') /\ next_id' \in 0 .. MaxOrders
    BY NextBookOK
  <1>3. book'.live = live /\ book'.map = map
    BY <1>1, BookWithFacts
  <1>4. QED
    BY <1>1, <1>2, <1>3, OneQueue

LEMMA QueueGains ==
  ASSUME PlacesInv, EngineInv', NEW s \in Side, NEW t \in Tick, NEW live, NEW lv, NEW map,
         book' = BookWith(live, book, s, t, lv, map), NEW u, Joined(lv, book, s, t, u)
  PROVE  Resting(book') = Resting(book) \cup {u}
  <1>1. \A v : ToSet(lv.queue) = ToSet(book.level[s][t].queue) \cup {v} => Resting(book') = Resting(book) \cup {v}
    BY QueueNow
  <1>2. QED
    BY <1>1 DEF Joined

LEMMA RemoveIndex ==
  ASSUME PlacesInv, EngineInv', MappedRest, NEW oid \in OrderId, NEW u, u = book.map[oid], u # None,
         book' = RemoveOrder(book, order, u)
  PROVE  LiveShrinks /\ Leaves(u)
  <1> DEFINE o == order[u]
             s == o.side
             t == TicksOf(o.price)
             lv == LevelRemove(Home(book, o), o, u)
  <1>1. u \in Resting(book)
    BY DEF MappedRest, Mapped
  <1>2. /\ Booked(book, order, next_id) /\ order \in [Uid -> Order] /\ book \in Book
    BY BookedNow
  <1>3. /\ s \in Side /\ t \in Tick /\ u \in ToSet(Home(book, o).queue)
    BY <1>1, <1>2, RestsAtHome
  <1>4. /\ book' = BookWith(LiveWith(book, s, t, lv), book, s, t, lv, [book.map EXCEPT ![o.oid] = None])
        /\ ToSet(lv.queue) = ToSet(Home(book, o).queue) \ {u}
    BY <1>1, <1>2, RemoveOrderIs
  <1>5. Home(book, o) = book.level[s][t]
    BY DEF Home
  <1> HIDE DEF lv, s, t, o
  <1>6. /\ book'.live = LiveWith(book, s, t, lv) /\ book'.map = [book.map EXCEPT ![o.oid] = None]
        /\ Resting(book') = Resting(book) \ {u}
    BY <1>3, <1>4, <1>5, QueueNow
  <1>7. LiveShrinks
    BY <1>2, <1>3, <1>6, LiveWithShrinks DEF LiveShrinks
  <1>8. QED
    BY <1>1, <1>6, <1>7 DEF Leaves, o

LEMMA CancelIndex ==
  ASSUME PlacesInv, EngineInv', MappedRest, NEW oid \in OrderId, CancelEffect(oid), next_id' = next_id
  PROVE  LiveShrinks /\ (Stays \/ \E u : Leaves(u))
  <1>1. CASE CancelResting(oid)
    BY <1>1, RemoveIndex DEF CancelResting
  <1>2. CASE ~CancelResting(oid)
    <2>1. book' = book
      BY <1>2 DEF CancelEffect, CancelStop, CancelUnknown
    <2>2. QED
      BY <2>1 DEF LiveShrinks, Stays
  <1>3. QED
    BY <1>1, <1>2

LEMMA ReduceIndex ==
  ASSUME PlacesInv, EngineInv', MappedRest, NEW oid \in OrderId, NEW am \in Amendments, ModifyReduce(oid, am)
  PROVE  LiveShrinks /\ Stays
  <1> DEFINE u == book.map[oid]
             o == order[u]
             s == o.side
             t == TicksOf(o.price)
             lv == ReducedLevel(Home(book, o), o, am)
  <1>1. u # None /\ next_id' = next_id
        /\ book' = [book EXCEPT !.level[o.side][TicksOf(o.price)] = ReducedLevel(@, o, am)]
    BY DEF ModifyReduce, Modifiable
  <1>2. u \in Resting(book)
    BY <1>1 DEF MappedRest, Mapped
  <1>3. Booked(book, order, next_id) /\ order \in [Uid -> Order] /\ book \in Book
    BY BookedNow
  <1>4. /\ s \in Side /\ t \in Tick /\ Home(book, o) \in Level
    BY <1>2, <1>3, RestsAtHome
  <1>5. book' = BookWith(book.live, book, s, t, lv, book.map)
    BY <1>1, <1>3 DEF Book, BookWith, Home
  <1>6. lv.queue = Home(book, o).queue
    BY <1>4 DEF ReducedLevel, Level
  <1>7. Home(book, o) = book.level[s][t]
    BY DEF Home
  <1> HIDE DEF lv, s, t, o
  <1>8. Resting(book') = Resting(book) /\ book'.live = book.live /\ book'.map = book.map
    BY <1>4, <1>5, <1>6, <1>7, QueueNow
  <1>9. QED
    BY <1>8 DEF LiveShrinks, Stays

LEMMA DropIs ==
  ASSUME PlacesInv, DropDrained
  PROVE  /\ book' = BookWith([book.live EXCEPT ![Contra] = @ \ {Top}], book, Contra, Top, NewLevel, book.map)
         /\ TopLevel = NewLevel /\ Contra \in Side /\ Top \in Tick /\ TopLevel = book.level[Contra][Top]
         /\ UNCHANGED order
  <1>1. pc = "match" /\ HasSide(book, Contra) /\ IsEmpty(TopLevel) /\ UNCHANGED order
        /\ book' = StoreLevel(book, Contra, Top, book.level[Contra][Top])
    BY DEF DropDrained, LevelDrained, CleanEmptyLevel
  <1>2. Contra \in Side /\ Top \in Tick /\ TopLevel \in Level /\ book.level[Contra][Top] = TopLevel
    BY <1>1, TopFacts
  <1>3. book \in Book
    BY BookedNow
  <1>4. TopLevel = NewLevel
    BY <1>1, <1>2 DEF Level, IsEmpty, NewLevel
  <1>5. book' = BookWith(LiveWith(book, Contra, Top, TopLevel), book, Contra, Top, TopLevel, book.map)
    BY <1>1, <1>2, <1>3, StoreLevelIs
  <1>6. LiveWith(book, Contra, Top, TopLevel) = [book.live EXCEPT ![Contra] = @ \ {Top}]
    BY <1>1 DEF LiveWith
  <1>7. QED
    BY <1>1, <1>2, <1>4, <1>5, <1>6

LEMMA DropIndex ==
  ASSUME PlacesInv, EngineInv', DropDrained
  PROVE  LiveShrinks /\ Stays
  <1> DEFINE live == [book.live EXCEPT ![Contra] = @ \ {Top}]
             q == book.level[Contra][Top].queue
  <1>1. /\ book' = BookWith(live, book, Contra, Top, NewLevel, book.map)
        /\ Contra \in Side /\ Top \in Tick /\ book.level[Contra][Top] = NewLevel /\ book \in Book
    BY DropIs, BookedNow
  <1>2. \A s \in Side : live[s] \subseteq book.live[s]
    BY <1>1 DEF Book
  <1>3. ToSet(NewLevel.queue) = ToSet(q)
    BY <1>1
  <1> HIDE DEF live, q
  <1>4. book'.live = live /\ book'.map = book.map
    BY <1>1, QueueNow
  <1>5. Resting(book') = Resting(book)
    BY <1>1, <1>3, QueueNow DEF q
  <1>6. QED
    BY <1>2, <1>4, <1>5 DEF LiveShrinks, Stays

LEMMA CancelOldestIs ==
  ASSUME PlacesInv, StpCancelOldest
  PROVE  /\ book' = BookWith(book.live, book, Contra, Top, PopHead(TopLevel, order),
                             [book.map EXCEPT ![order[Maker].oid] = None])
         /\ Matching /\ TopLevel.queue # << >> /\ order' = Marked(order, Maker, "CANCELED")
  BY DEF StpCancelOldest, Prevents, BookWith

LEMMA CancelOldestIndex ==
  ASSUME PlacesInv, EngineInv', StpCancelOldest
  PROVE  LiveShrinks /\ Leaves(Maker)
  <1> DEFINE lv == PopHead(TopLevel, order)
             map == [book.map EXCEPT ![order[Maker].oid] = None]
  <1>1. book' = BookWith(book.live, book, Contra, Top, lv, map) /\ Matching /\ TopLevel.queue # << >>
    BY CancelOldestIs
  <1>2. /\ Maker \in ToSet(TopLevel.queue) /\ Maker \in Resting(book)
        /\ ToSet(Tail(TopLevel.queue)) = ToSet(TopLevel.queue) \ {Maker}
    BY <1>1, MakerFacts
  <1>3. Contra \in Side /\ Top \in Tick /\ TopLevel = book.level[Contra][Top]
    BY <1>1, MakerFacts, TopFacts
  <1>4. lv.queue = Tail(TopLevel.queue)
    BY DEF PopHead
  <1> HIDE DEF lv, map
  <1>5. book'.live = book.live /\ book'.map = map /\ Resting(book') = Resting(book) \ {Maker}
    BY <1>1, <1>2, <1>3, <1>4, QueueNow
  <1>6. QED
    BY <1>2, <1>5 DEF Leaves, LiveShrinks, map

(* A charge to a maker that is no iceberg: its place in the queue is kept. *)
ChargedLevel(f, after, gone) == IF gone THEN PopHead(f.level, after) ELSE f.level

LEMMA ConsumeIs ==
  ASSUME PlacesInv, Matching, TopLevel.queue # << >>, NEW o \in Order, Steady(o, order[Maker]),
         order[Maker].type # "ICEBERG", NEW final, Consume(o, Overlap, final),
         NEW f, f = UpdateVolumeAfterFill(TopLevel, o, Maker, Overlap),
         NEW lv, lv = ChargedLevel(f, order', Remaining(o) = 0)
  PROVE  /\ book' = BookWith(book.live, book, Contra, Top, lv,
                             IF Remaining(o) = 0 THEN [book.map EXCEPT ![order[Maker].oid] = None] ELSE book.map)
         /\ lv.queue = IF Remaining(o) = 0 THEN Tail(TopLevel.queue) ELSE TopLevel.queue
         /\ f.level.queue = TopLevel.queue
  <1>1. Maker \in ToSet(TopLevel.queue) /\ Overlap \in Nat
    BY MakerFacts
  <1>2. TopLevel \in Level /\ IsInjective(TopLevel.queue)
    BY MakerFacts, TopFacts
  <1>3. o.type # "ICEBERG" /\ o.oid = order[Maker].oid
    BY DEF Steady, Alike
  <1>4. f.level.queue = TopLevel.queue
    BY <1>1, <1>2, <1>3, FillQueue
  <1>5. book' = BookWith(book.live, book, Contra, Top, lv,
                         IF Remaining(o) = 0 THEN [book.map EXCEPT ![o.oid] = None] ELSE book.map)
    BY DEF Consume, BookWith, ChargedLevel
  <1>6. lv.queue = IF Remaining(o) = 0 THEN Tail(f.level.queue) ELSE f.level.queue
    BY DEF ChargedLevel, PopHead
  <1>7. QED
    BY <1>3, <1>4, <1>5, <1>6

LEMMA ConsumeIndex ==
  ASSUME PlacesInv, EngineInv', Matching, TopLevel.queue # << >>, NEW o \in Order, Steady(o, order[Maker]),
         order[Maker].type # "ICEBERG", NEW final, Consume(o, Overlap, final)
  PROVE  LiveShrinks /\ (Stays \/ Leaves(Maker))
  <1> DEFINE f == UpdateVolumeAfterFill(TopLevel, o, Maker, Overlap)
             lv == ChargedLevel(f, order', Remaining(o) = 0)
             gone == Remaining(o) = 0
             map == IF gone THEN [book.map EXCEPT ![order[Maker].oid] = None] ELSE book.map
  <1>1. /\ book' = BookWith(book.live, book, Contra, Top, lv, map)
        /\ lv.queue = IF gone THEN Tail(TopLevel.queue) ELSE TopLevel.queue
    BY ConsumeIs
  <1>2. /\ Maker \in ToSet(TopLevel.queue) /\ Maker \in Resting(book)
        /\ ToSet(Tail(TopLevel.queue)) = ToSet(TopLevel.queue) \ {Maker}
    BY MakerFacts
  <1>3. Contra \in Side /\ Top \in Tick /\ TopLevel = book.level[Contra][Top]
    BY MakerFacts, TopFacts
  <1>4. map = IF gone THEN [book.map EXCEPT ![order[Maker].oid] = None] ELSE book.map
    OBVIOUS
  <1> HIDE DEF f, lv, map, gone
  <1>5. book'.live = book.live /\ book'.map = map
    BY <1>1, <1>3, QueueNow
  <1>6. CASE gone
    <2>1. ToSet(lv.queue) = ToSet(TopLevel.queue) \ {Maker}
      BY <1>1, <1>2, <1>6
    <2>2. Resting(book') = Resting(book) \ {Maker}
      BY <1>1, <1>2, <1>3, <2>1, QueueNow
    <2>3. QED
      BY <1>2, <1>4, <1>5, <1>6, <2>2 DEF Leaves, LiveShrinks
  <1>7. CASE ~gone
    <2>1. ToSet(lv.queue) = ToSet(TopLevel.queue)
      BY <1>1, <1>7
    <2>2. Resting(book') = Resting(book)
      BY <1>1, <1>3, <2>1, QueueNow
    <2>3. QED
      BY <1>4, <1>5, <1>7, <2>2 DEF Stays, LiveShrinks
  <1>8. QED
    BY <1>6, <1>7

LEMMA ChargeIndex ==
  ASSUME PlacesInv, EngineInv', NoneOf("ICEBERG"), StpDecrement \/ Execute
  PROVE  LiveShrinks /\ (Stays \/ Leaves(Maker))
  <1>1. Matching /\ TopLevel.queue # << >>
    BY DEF StpDecrement, Execute, Prevents
  <1>2. Maker \in 1 .. next_id
    BY <1>1, MakerFacts
  <1>3. /\ Executed \in Order /\ Steady(Executed, order[Maker])
        /\ Decremented \in Order /\ Steady(Decremented, order[Maker])
    BY <1>1, ChargedFacts
  <1>4. order[Maker].type # "ICEBERG"
    BY <1>2 DEF NoneOf
  <1>5. Consume(Executed, Overlap, "FILLED") \/ Consume(Decremented, Overlap, "CANCELED")
    BY DEF StpDecrement, Execute, Executed, Decremented
  <1>6. QED
    BY <1>1, <1>3, <1>4, <1>5, ConsumeIndex

LEMMA RestIs ==
  ASSUME PlacesInv, Rest, NEW o, o = order[cur], o.price # NoPrice,
         NEW lv, lv = LevelAppend(Home(book, o), o, cur)
  PROVE  /\ book' = BookWith([book.live EXCEPT ![o.side] = @ \cup {TicksOf(o.price)}], book, o.side,
                             TicksOf(o.price), lv, [book.map EXCEPT ![o.oid] = cur])
         /\ lv.queue = Append(Home(book, o).queue, cur)
         /\ o.side \in Side /\ TicksOf(o.price) \in Tick /\ Home(book, o).queue \in Seq(Uid)
         /\ cur \in 1 .. next_id /\ cur \in Uid /\ cur \notin OnBook(book) /\ o \in Order
         /\ Home(book, o) \in Level
  <1>1. pc = "residual" /\ book' = InsertOrder(book, order, cur)
    BY DEF Rest
  <1>2. cur \in 1 .. next_id /\ cur \in Uid /\ order[cur] \in Order
    BY <1>1, CurKnown DEF PlacesInv
  <1>3. cur \notin OnBook(book)
    <2>1. cur \in InHand
      BY <1>1 DEF InHand
    <2>2. QED
      BY <2>1, PlaceFacts DEF Apart
  <1>4. o.side \in Side /\ TicksOf(o.price) \in Tick
    BY <1>2, TicksOfType DEF Order
  <1>5. Home(book, o) \in Level
    BY <1>4, BookedNow DEF Home, Book
  <1>6. QED
    BY <1>1, <1>2, <1>3, <1>4, <1>5, InsertOrderIs DEF Level

LEMMA RestIndex ==
  ASSUME PlacesInv, EngineInv', Rest
  PROVE  \/ order[cur].price = NoPrice /\ book' = book
         \/ /\ Arrives(cur) /\ order[cur].price # NoPrice
            /\ book'.live = [book.live EXCEPT ![order[cur].side] = @ \cup {TicksOf(order[cur].price)}]
  <1>1. CASE order[cur].price = NoPrice
    BY <1>1 DEF Rest, InsertOrder
  <1>2. CASE order[cur].price # NoPrice
    <2> DEFINE o == order[cur]
               s == o.side
               t == TicksOf(o.price)
               lv == LevelAppend(Home(book, o), o, cur)
               live == [book.live EXCEPT ![s] = @ \cup {t}]
               map == [book.map EXCEPT ![o.oid] = cur]
    <2>1. /\ book' = BookWith(live, book, s, t, lv, map)
          /\ lv.queue = Append(Home(book, o).queue, cur)
          /\ s \in Side /\ t \in Tick /\ Home(book, o).queue \in Seq(Uid)
          /\ cur \in 1 .. next_id /\ cur \in Uid /\ cur \notin OnBook(book)
      BY <1>2, RestIs
    <2>2. Home(book, o) = book.level[s][t]
      BY DEF Home
    <2> HIDE DEF o, s, t, lv, live, map
    <2>3. ToSet(lv.queue) = ToSet(Home(book, o).queue) \cup {cur}
      BY <2>1, AppendFacts
    <2>4. book'.live = live /\ book'.map = map
      BY <2>1, QueueNow
    <2>5. Resting(book') = Resting(book) \cup {cur}
      <3>1. Joined(lv, book, s, t, cur)
        BY <2>2, <2>3 DEF Joined
      <3>2. QED
        BY <2>1, <3>1, QueueGains
    <2>6. QED
      BY <1>2, <2>1, <2>4, <2>5 DEF Arrives, o, s, t, live, map
  <1>3. QED
    BY <1>1, <1>2

(* A requoted order is taken out and put in again, so that it rests.       *)
LEMMA RequoteIs ==
  ASSUME PlacesInv, MappedRest, NEW oid \in OrderId, NEW am \in Amendments, ModifyRequote(oid, am),
         NEW u, u = book.map[oid], NEW o, o = order[u], NEW p, p = Requoted(o, am, clock + 1),
         NEW c, c = RemoveOrder(book, order, u), NEW lv, lv = LevelAppend(Home(c, p), p, u)
  PROVE  /\ u \in Resting(book) /\ u \in Uid /\ o \in Order /\ p \in Order /\ o.oid = oid /\ p.oid = oid
         /\ p.side = o.side /\ o.price # NoPrice /\ p.price = AmendedPrice(o, am) /\ p.price # NoPrice
         /\ order' = [order EXCEPT ![u] = p] /\ next_id' = next_id /\ ~AmendCrosses(o, am) /\ pc = "idle"
         /\ Booked(c, order', next_id)
         /\ book' = BookWith([c.live EXCEPT ![o.side] = @ \cup {TicksOf(p.price)}], c, o.side,
                             TicksOf(p.price), lv, [c.map EXCEPT ![oid] = u])
         /\ lv.queue = Append(Home(c, p).queue, u) /\ Home(c, p) \in Level
         /\ TicksOf(p.price) \in Tick /\ o.side \in Side /\ u \notin Resting(c)
  <1>1. /\ u # None /\ order' = [order EXCEPT ![u] = p] /\ book' = InsertOrder(c, order', u)
        /\ next_id' = next_id /\ ~AmendsToNothing(o, am) /\ ~AmendCrosses(o, am) /\ pc = "idle"
    BY DEF ModifyRequote, Modifiable
  <1>2. u \in Resting(book)
    BY <1>1 DEF MappedRest, Mapped
  <1>3. Booked(book, order, next_id) /\ order \in [Uid -> Order]
    BY BookedNow
  <1>4. /\ u \in Uid /\ o \in Order /\ o.price # NoPrice /\ o.side \in Side
    BY <1>2, <1>3, RestsAtHome
  <1>5. o.oid = oid
    BY <1>1, OnMap
  <1>6. p \in Order /\ p.side = o.side
    BY <1>1, <1>4, RequotedType, InputAssumption DEF PlacesInv, EngineInv
  <1>7. SameParty(p, o) /\ p.price = AmendedPrice(o, am)
    BY <1>4 DEF Requoted, SameParty, Order
  <1>8. p.price # NoPrice /\ p.price \in Price
    BY <1>4, <1>6, <1>7 DEF AmendedPrice, Order
  <1>a. Changed(order', order, book.map[oid], p) /\ Removed(c, book, order, book.map[oid])
        /\ book.map[oid] # None /\ SameParty(p, order[book.map[oid]])
    BY <1>1, <1>7 DEF Changed, Removed
  <1>9. /\ BookOK(c, order', next_id) /\ Placed(c, order') /\ Named(c.map, order') /\ u \notin OnBook(c)
        /\ order'[u] = p
    BY <1>a, <1>6, AmendedPlaces
  <1>10. Booked(c, order', next_id)
    BY <1>3, <1>9 DEF Booked
  <1>11. /\ book' = BookWith([c.live EXCEPT ![p.side] = @ \cup {TicksOf(p.price)}], c, p.side,
                             TicksOf(p.price), lv, [c.map EXCEPT ![p.oid] = u])
         /\ lv.queue = Append(Home(c, p).queue, u)
    <2>1. p = order'[u] /\ p.price # NoPrice /\ book' = InsertOrder(c, order', u)
      BY <1>1, <1>8, <1>9
    <2>2. QED
      BY <2>1, InsertOrderIs
  <1>12. TicksOf(p.price) \in Tick
    BY <1>8, TicksOfType
  <1>13. Home(c, p) \in Level
    <2>1. p.side \in Side /\ c.level \in [Side -> [Tick -> Level]]
      BY <1>4, <1>6, <1>9 DEF BookOK, Book
    <2>2. QED
      BY <1>12, <2>1 DEF Home
  <1>14. QED
    BY <1>1, <1>2, <1>4, <1>5, <1>6, <1>7, <1>8, <1>9, <1>10, <1>11, <1>12, <1>13 DEF SameParty, OnBook

LEMMA RequoteIndex ==
  ASSUME PlacesInv, EngineInv', MappedRest, NEW oid \in OrderId, NEW am \in Amendments, ModifyRequote(oid, am),
         NEW o, o = order[book.map[oid]]
  PROVE  /\ Stays /\ o.side \in Side /\ AmendedPrice(o, am) # NoPrice
         /\ \A x \in Side : book'.live[x] \subseteq
               book.live[x] \cup (IF x = o.side THEN {TicksOf(AmendedPrice(o, am))} ELSE {})
         /\ o.price # NoPrice /\ TicksOf(o.price) \in book.live[o.side] /\ o \in Order
         /\ ~AmendCrosses(o, am)
  <1> DEFINE u == book.map[oid]
             p == Requoted(o, am, clock + 1)
             c == RemoveOrder(book, order, u)
             s == o.side
             t == TicksOf(p.price)
             lv == LevelAppend(Home(c, p), p, u)
             home == TicksOf(o.price)
             old == LevelRemove(Home(book, o), o, u)
             less == LiveWith(book, s, home, old)
             named == [book.map EXCEPT ![oid] = None]
             live == [c.live EXCEPT ![s] = @ \cup {t}]
             map == [c.map EXCEPT ![oid] = u]
  <1>1. /\ u \in Resting(book) /\ u \in Uid /\ o \in Order /\ p \in Order /\ o.oid = oid
        /\ p.side = s /\ o.price # NoPrice /\ p.price = AmendedPrice(o, am) /\ p.price # NoPrice
        /\ Booked(c, order', next_id) /\ next_id' = next_id /\ ~AmendCrosses(o, am)
        /\ book' = BookWith(live, c, s, t, lv, map)
        /\ lv.queue = Append(Home(c, p).queue, u) /\ Home(c, p) \in Level
        /\ t \in Tick /\ s \in Side
    BY RequoteIs
  <1>2. /\ Booked(book, order, next_id) /\ order \in [Uid -> Order] /\ book \in Book
    BY BookedNow
  <1>3. /\ home \in book.live[s] /\ home \in Tick /\ u \in ToSet(Home(book, o).queue)
    BY <1>1, <1>2, RestsAtHome
  <1>4. c = BookWith(less, book, s, home, old, named) /\ ToSet(old.queue) = ToSet(Home(book, o).queue) \ {u}
    <2>1. o = order[u] /\ o.oid = oid
      BY <1>1
    <2>2. c = BookWith(LiveWith(book, o.side, TicksOf(o.price), old), book, o.side, TicksOf(o.price), old,
                       [book.map EXCEPT ![o.oid] = None])
          /\ ToSet(old.queue) = ToSet(Home(book, o).queue) \ {u}
      <3> HIDE DEF u
      <3>1. QED
        BY <1>1, <1>2, <2>1, RemoveOrderIs, SMTT(20)
    <2>3. QED
      BY <2>1, <2>2
  <1>5. Home(book, o) = book.level[s][home] /\ Home(c, p) = c.level[s][t]
    BY <1>1 DEF Home
  <1>6. c \in Book /\ next_id \in 0 .. MaxOrders
    BY <1>1 DEF Booked, BookOK
  <1>7. live \in [Side -> SUBSET Tick] /\ live = [c.live EXCEPT ![s] = c.live[s] \cup {t}]
        /\ map = [c.map EXCEPT ![oid] = u] /\ less = LiveWith(book, s, home, old)
        /\ named = [book.map EXCEPT ![oid] = None]
    BY <1>1, <1>6 DEF Book
  <1>8. p.price = AmendedPrice(o, am) /\ t = TicksOf(p.price)
    BY <1>1
  <1> HIDE DEF lv, live, map, t, old, c, s, p, u, home, less, named
  <1>9. c.live = less /\ c.map = named
    BY <1>1, <1>2, <1>3, <1>4, BookWithFacts
  <1>10. Resting(c) = Resting(book) \ {u}
    <2>1. IsABook(c)
      BY <1>1 DEF Booked, IsABook
    <2>2. Parted(old, book, s, home, u)
      BY <1>3, <1>4, <1>5 DEF Parted
    <2>3. s \in Side /\ home \in Tick /\ Written(c, book, s, home, old)
      BY <1>1, <1>3, <1>4 DEF Written
    <2>4. Booked(book, order, next_id)
      BY <1>2
    <2>5. QED
      BY <2>1, <2>2, <2>3, <2>4, QueueParted
  <1>11. book'.live = live /\ book'.map = map
    BY <1>1, <1>6, BookWithFacts
  <1>12. Resting(book') = Resting(c) \cup {u}
    <2>1. Joined(lv, c, s, t, u)
      BY <1>1, <1>5, AppendFacts DEF Level, Joined
    <2>2. IsABook(book')
      BY NextBookOK DEF IsABook
    <2>3. s \in Side /\ t \in Tick /\ Written(book', c, s, t, lv) /\ Booked(c, order', next_id)
      BY <1>1 DEF Written
    <2>4. QED
      BY <2>1, <2>2, <2>3, QueueJoined
  <1>13. Resting(book') = Resting(book)
    BY <1>1, <1>10, <1>12
  <1>14. book'.map = book.map
    <2>1. book.map \in [OrderId -> Uid \cup {None}] /\ book.map[oid] = u
      BY <1>2 DEF Book, u
    <2>2. QED
      BY <1>7, <1>9, <1>11, <2>1
  <1>15. ASSUME NEW x \in Side
         PROVE  book'.live[x] \subseteq book.live[x] \cup (IF x = s THEN {t} ELSE {})
    <2>1. c.live[x] \subseteq book.live[x]
      BY <1>1, <1>2, <1>7, <1>9, LiveWithShrinks
    <2>2. book'.live[x] = IF x = s THEN c.live[x] \cup {t} ELSE c.live[x]
      BY <1>1, <1>6, <1>7, <1>11 DEF Book
    <2>3. QED
      BY <2>1, <2>2
  <1>16. QED
    BY <1>1, <1>3, <1>8, <1>13, <1>14, <1>15 DEF Stays, s, home

(* The steps by what they do to the book.                                  *)
TakesOff ==
  \E oid \in OrderId : CancelEffect(oid) \/ \E am \in Amendments : ModifyToNothing(oid, am) \/ ModifyAcross(oid, am)

LEMMA BookSteps ==
  ASSUME [Next]_vars
  PROVE  \/ book' = book
         \/ TakesOff /\ next_id' = next_id
         \/ \E oid \in OrderId, am \in Amendments : ModifyRequote(oid, am) \/ ModifyReduce(oid, am)
         \/ DropDrained \/ StpCancelOldest \/ StpDecrement \/ Execute \/ Rest
  <1>1. CASE Call
    BY <1>1 DEF Call, Submit, Cancel, CancelAll, ModifyToNothing, ModifyAcross, TakesOff
  <1>2. CASE Step
    BY <1>2 DEF Step, Drained, RejectInvalid, RejectStop, RejectUnfillable, RejectTaker, Reject, ParkStop,
       StartMatch, SkipCanceled, Trigger, MatchDone, NoProgress, vars, StpCancelNewest, Complete, Expire,
       TriggersDone, SweepOne, SweepStops, SweepDone, TakesOff
  <1>3. QED
    BY <1>1, <1>2 DEF Next, vars

LEMMA TakesOffIndex ==
  ASSUME PlacesInv, EngineInv', MappedRest, TakesOff, next_id' = next_id
  PROVE  LiveShrinks /\ (Stays \/ \E u : Leaves(u))
  <1>1. ASSUME NEW oid \in OrderId, CancelEffect(oid) PROVE LiveShrinks /\ (Stays \/ \E u : Leaves(u))
    BY <1>1, CancelIndex
  <1>2. ASSUME NEW oid \in OrderId, NEW am \in Amendments, ModifyToNothing(oid, am) \/ ModifyAcross(oid, am)
        PROVE  LiveShrinks /\ (Stays \/ \E u : Leaves(u))
    BY <1>2, RemoveIndex DEF ModifyToNothing, ModifyAcross, Modifiable
  <1>3. QED
    BY <1>1, <1>2 DEF TakesOff

LEMMA IndexSteps ==
  ASSUME PlacesInv, EngineInv', MappedRest, NoneOf("ICEBERG"), [Next]_vars
  PROVE  Stays \/ (\E u : Leaves(u)) \/ (Rest /\ Arrives(cur))
  <1>1. CASE book' = book
    BY <1>1 DEF Stays
  <1>2. CASE TakesOff /\ next_id' = next_id
    BY <1>2, TakesOffIndex
  <1>3. ASSUME NEW oid \in OrderId, NEW am \in Amendments, ModifyRequote(oid, am) \/ ModifyReduce(oid, am)
        PROVE  Stays
    BY <1>3, RequoteIndex, ReduceIndex
  <1>4. CASE DropDrained \/ StpCancelOldest \/ StpDecrement \/ Execute
    BY <1>4, DropIndex, CancelOldestIndex, ChargeIndex
  <1>5. CASE Rest
    BY <1>5, RestIndex DEF Stays
  <1>6. QED
    BY <1>1, <1>2, <1>3, <1>4, <1>5, BookSteps

LEMMA StepMapped ==
  ASSUME PlacesInv, EngineInv', MappedRest, NoneOf("ICEBERG"), [Next]_vars
  PROVE  MappedRest'
  <1>1. CASE Stays
    BY <1>1 DEF Stays, MappedRest, Mapped
  <1>2. book.map \in [OrderId -> Uid \cup {None}] /\ Named(book.map, order)
    BY BookedNow, PlaceFacts DEF Book
  <1>3. ASSUME NEW u, Leaves(u) PROVE MappedRest'
    <2>1. SUFFICES ASSUME NEW i \in OrderId, book'.map[i] # None PROVE book'.map[i] \in Resting(book')
      BY DEF MappedRest, Mapped
    <2>2. book'.map[i] = book.map[i] /\ i # order[u].oid
      BY <1>2, <1>3, <2>1 DEF Leaves
    <2>3. book.map[i] \in Resting(book) /\ order[book.map[i]].oid = i
      BY <1>2, <2>1, <2>2 DEF MappedRest, Mapped, Named
    <2>4. QED
      BY <1>3, <2>2, <2>3 DEF Leaves
  <1>4. ASSUME Arrives(cur) PROVE MappedRest'
    <2>1. SUFFICES ASSUME NEW i \in OrderId, book'.map[i] # None PROVE book'.map[i] \in Resting(book')
      BY DEF MappedRest, Mapped
    <2>2. book'.map[i] = cur \/ book'.map[i] = book.map[i]
      BY <1>2, <1>4, <2>1 DEF Arrives
    <2>3. book.map[i] # None => book.map[i] \in Resting(book)
      BY DEF MappedRest, Mapped
    <2>4. QED
      BY <1>4, <2>1, <2>2, <2>3 DEF Arrives
  <1>5. QED
    BY <1>1, <1>3, <1>4, IndexSteps

-----------------------------------------------------------------------------
(* The sides do not cross.                                                 *)

Uncrossed == \A b \in book.live["BUY"], a \in book.live["SELL"] : b < a

(* What is left of an order that will rest does not reach the other side.  *)
ResidualClear ==
  pc = "residual" /\ Remaining(order[cur]) > 0 /\ ~NeverRests(order[cur]) => ~Crosses

CrossInv ==
  EndedInv /\ NoneOf("ICEBERG") /\ MappedRest /\ Uncrossed /\ ResidualClear

LEMMA BestExtreme ==
  ASSUME NEW b \in Book, NEW s \in Side, NEW t \in b.live[s]
  PROVE  /\ HasSide(b, s) /\ Best(b, s) \in Nat /\ t \in Nat
         /\ IF s = "BUY" THEN t <= Best(b, s) ELSE Best(b, s) <= t
  <1>1. HasSide(b, s) /\ b.live[s] \in (SUBSET Tick) \ {{}}
    BY DEF HasSide, Book
  <1>2. Tick \subseteq Nat
    BY GridAssumption
  <1>3. Best(b, s) \in Tick
    BY <1>1, BestType
  <1>4. IF s = "BUY" THEN \E x \in b.live[s] : \A y \in b.live[s] : y <= x
                     ELSE \E x \in b.live[s] : \A y \in b.live[s] : x <= y
    BY <1>1, GridAssumption
  <1>5. \A y \in b.live[s] : IF s = "BUY" THEN y <= Best(b, s) ELSE Best(b, s) <= y
    BY <1>4 DEF Best
  <1>6. QED
    BY <1>1, <1>2, <1>3, <1>5

(* A tick that does not reach the other side may be added to a side.       *)
ReachesNone(p, s) ==
  HasSide(book, Opposite(s)) =>
     IF s = "BUY" THEN p < Best(book, "SELL") ELSE p > Best(book, "BUY")

LEMMA AddsUncrossed ==
  ASSUME PlacesInv, EngineInv', Uncrossed, NEW s \in Side, NEW t \in Tick,
         ReachesNone(t, s) \/ t \in book.live[s],
         \A x \in Side : book'.live[x] \subseteq book.live[x] \cup (IF x = s THEN {t} ELSE {})
  PROVE  Uncrossed'
  <1>1. book \in Book /\ t \in Nat
    BY BookedNow, GridAssumption
  <1>2. ASSUME NEW b \in book'.live["BUY"], NEW a \in book'.live["SELL"] PROVE b < a
    <2>1. b \in book.live["BUY"] \/ (s = "BUY" /\ b = t)
      BY DEF Side
    <2>2. a \in book.live["SELL"] \/ (s = "SELL" /\ a = t)
      BY DEF Side
    <2>3. CASE b \in book.live["BUY"] /\ a \in book.live["SELL"]
      BY <2>3 DEF Uncrossed
    <2>4. CASE s = "BUY" /\ b = t /\ a \in book.live["SELL"]
      <3>1. HasSide(book, "SELL") /\ Best(book, "SELL") \in Nat /\ a \in Nat /\ Best(book, "SELL") <= a
        BY <1>1, <2>4, BestExtreme DEF Side
      <3>2. CASE ReachesNone(t, s)
        BY <1>1, <2>4, <3>1, <3>2 DEF ReachesNone, Opposite
      <3>3. CASE t \in book.live[s]
        BY <2>4, <3>3 DEF Uncrossed
      <3>4. QED
        BY <3>2, <3>3
    <2>5. CASE s = "SELL" /\ a = t /\ b \in book.live["BUY"]
      <3>1. HasSide(book, "BUY") /\ Best(book, "BUY") \in Nat /\ b \in Nat /\ b <= Best(book, "BUY")
        BY <1>1, <2>5, BestExtreme DEF Side
      <3>2. CASE ReachesNone(t, s)
        BY <1>1, <2>5, <3>1, <3>2 DEF ReachesNone, Opposite
      <3>3. CASE t \in book.live[s]
        BY <2>5, <3>3 DEF Uncrossed
      <3>4. QED
        BY <3>2, <3>3
    <2>6. QED
      BY <2>1, <2>2, <2>3, <2>4, <2>5
  <1>3. QED
    BY <1>2 DEF Uncrossed

LEMMA ShrinksUncrossed == ASSUME Uncrossed, LiveShrinks PROVE Uncrossed'
  BY DEF Uncrossed, LiveShrinks, Side

LEMMA RestUncrossed ==
  ASSUME Price = Tick, CrossInv, EngineInv', Rest
  PROVE  Uncrossed'
  <1> DEFINE o == order[cur]
  <1>1. CASE o.price = NoPrice /\ book' = book
    BY <1>1 DEF Uncrossed, CrossInv
  <1>2. CASE /\ o.price # NoPrice
             /\ book'.live = [book.live EXCEPT ![o.side] = @ \cup {TicksOf(o.price)}]
    <2>1. pc = "residual" /\ ~Crosses /\ PlacesInv
      BY DEF Rest, CrossInv, ResidualClear, EndedInv
    <2>2. o \in Order /\ book \in Book
      BY <2>1, CurKnown, BookedNow DEF PlacesInv
    <2>3. o.side \in Side /\ o.price \in Tick /\ TicksOf(o.price) = o.price /\ o.price \in Nat
      BY <1>2, <2>2, OnGrid, GridAssumption DEF Order
    <2>4. ReachesNone(o.price, o.side)
      <3>1. SUFFICES ASSUME HasSide(book, Opposite(o.side))
                     PROVE  IF o.side = "BUY" THEN o.price < Best(book, "SELL") ELSE o.price > Best(book, "BUY")
        BY DEF ReachesNone
      <3>2. ~PriceReaches(o, Top) /\ Top = Best(book, Opposite(o.side))
        BY <2>1, <3>1 DEF Crosses, Contra, Top
      <3>3. Best(book, Opposite(o.side)) \in Nat
        BY <2>2, <2>3, <3>1, OppositeSide, BestType, GridAssumption
      <3>4. QED
        BY <2>3, <3>2, <3>3 DEF PriceReaches, Opposite, Side
    <2>5. \A x \in Side : book'.live[x] \subseteq book.live[x] \cup (IF x = o.side THEN {o.price} ELSE {})
      BY <1>2, <2>2, <2>3 DEF Book
    <2> HIDE DEF o
    <2>6. QED
      BY <2>1, <2>3, <2>4, <2>5, AddsUncrossed DEF CrossInv
  <1>3. QED
    BY <1>1, <1>2, RestIndex DEF CrossInv, EndedInv

LEMMA RequoteUncrossed ==
  ASSUME Price = Tick, CrossInv, EngineInv', NEW oid \in OrderId, NEW am \in Amendments, ModifyRequote(oid, am)
  PROVE  Uncrossed'
  <1> DEFINE o == order[book.map[oid]]
             p == AmendedPrice(o, am)
             s == o.side
  <1>1. PlacesInv /\ MappedRest /\ Uncrossed /\ book \in Book
    BY BookedNow DEF CrossInv, EndedInv
  <1>2. /\ s \in Side /\ p # NoPrice /\ o.price # NoPrice /\ o \in Order
        /\ \A x \in Side : book'.live[x] \subseteq book.live[x] \cup (IF x = s THEN {TicksOf(p)} ELSE {})
        /\ TicksOf(o.price) \in book.live[s] /\ ~AmendCrosses(o, am)
    BY <1>1, RequoteIndex
  <1>3. am.price \in Price \cup {NoPrice}
    BY InputAssumption DEF Amendment
  <1>4. p \in Tick /\ TicksOf(p) = p /\ o.price \in Tick /\ TicksOf(o.price) = o.price /\ p \in Nat
    BY <1>2, <1>3, OnGrid, GridAssumption DEF AmendedPrice, Order
  <1>5. ReachesNone(p, s) \/ p \in book.live[s]
    <2>1. CASE am.price = NoPrice
      BY <1>2, <1>4, <2>1 DEF AmendedPrice
    <2>2. CASE am.price # NoPrice
      <3>1. SUFFICES ASSUME HasSide(book, Opposite(s))
                     PROVE  IF s = "BUY" THEN p < Best(book, "SELL") ELSE p > Best(book, "BUY")
        BY DEF ReachesNone
      <3>2. p = am.price /\ ~(IF s = "BUY" THEN p >= Best(book, "SELL") ELSE p <= Best(book, "BUY"))
        BY <1>2, <2>2, <3>1 DEF AmendCrosses, AmendedPrice
      <3>3. Best(book, Opposite(s)) \in Nat
        BY <1>1, <1>2, <3>1, OppositeSide, BestType, GridAssumption
      <3>4. QED
        BY <1>2, <1>4, <3>2, <3>3 DEF Opposite, Side
    <2>3. QED
      BY <2>1, <2>2
  <1> HIDE DEF o, p, s
  <1>6. QED
    BY <1>1, <1>2, <1>4, <1>5, AddsUncrossed

LEMMA StepUncrossed ==
  ASSUME Price = Tick, CrossInv, EngineInv', [Next]_vars
  PROVE  Uncrossed'
  <1>1. PlacesInv /\ MappedRest /\ Uncrossed /\ NoneOf("ICEBERG")
    BY DEF CrossInv, EndedInv
  <1>2. CASE book' = book
    BY <1>1, <1>2 DEF Uncrossed
  <1>3. CASE TakesOff /\ next_id' = next_id
    BY <1>1, <1>3, TakesOffIndex, ShrinksUncrossed
  <1>4. ASSUME NEW oid \in OrderId, NEW am \in Amendments, ModifyReduce(oid, am) PROVE Uncrossed'
    BY <1>1, <1>4, ReduceIndex, ShrinksUncrossed
  <1>5. CASE DropDrained \/ StpCancelOldest \/ StpDecrement \/ Execute
    BY <1>1, <1>5, DropIndex, CancelOldestIndex, ChargeIndex, ShrinksUncrossed
  <1>6. QED
    BY <1>2, <1>3, <1>4, <1>5, BookSteps, RequoteUncrossed, RestUncrossed

LEMMA StepClear ==
  ASSUME CrossInv, EngineInv', [Next]_vars
  PROVE  ResidualClear'
  <1>1. SUFFICES ASSUME pc' = "residual", Remaining(order'[cur']) > 0, ~NeverRests(order'[cur'])
                 PROVE  ~Crosses'
    BY DEF ResidualClear
  <1>2. CASE MatchDone
    BY <1>1, <1>2 DEF MatchDone, Crosses, Contra, Top, HasSide, Best, PriceReaches
  <1>3. CASE StpCancelNewest
    <2>1. NeverRests(order[cur]) /\ cur' = cur /\ order' = Marked(order, cur, "CANCELED") /\ pc = "match"
      BY <1>3, NewestCancelsTakers DEF CrossInv, StpCancelNewest, Matching
    <2>2. cur \in Uid /\ order \in [Uid -> Order]
      BY <2>1, CurKnown, PlaceFacts DEF CrossInv, EndedInv, PlacesInv
    <2>3. order'[cur].type = order[cur].type /\ order'[cur].tif = order[cur].tif
      BY <2>1, <2>2, MarkedAlike DEF Unfilled, Steady, Alike
    <2>4. QED
      BY <1>1, <2>1, <2>3 DEF NeverRests
  <1>4. CASE UNCHANGED vars
    BY <1>1, <1>4 DEF vars, Crosses, Contra, Top, HasSide, Best, PriceReaches, ResidualClear, CrossInv
  <1>5. CASE ~MatchDone /\ ~StpCancelNewest /\ ~UNCHANGED vars
    <2>1. pc' # "residual"
      BY <1>5, ZenonT(40) DEF Next, Call, Step, vars, Cancel, CancelAll, ModifyToNothing, ModifyAcross, ModifyRequote,
         ModifyReduce, Modifiable, Drained, RejectInvalid, RejectStop, RejectUnfillable, RejectTaker, Reject,
         ParkStop, Taking, StartMatch, SkipCanceled, Trigger, NextDue, DropDrained, NoProgress, Matching,
         StpCancelOldest, StpDecrement, Execute, Complete, Expire, Rest, TriggersDone, SweepOne,
         SweepStops, SweepDone, Submit, AfterResidual
    <2>2. QED
      BY <1>1, <2>1
  <1>6. QED
    BY <1>2, <1>3, <1>4, <1>5

LEMMA StepCross ==
  ASSUME Price = Tick, NewestNeverRests, NeverSent("ICEBERG")
  PROVE  CrossInv /\ [Next]_vars => CrossInv'
  <1>1. SUFFICES ASSUME CrossInv, [Next]_vars PROVE CrossInv'
    OBVIOUS
  <1>2. EndedInv' /\ EngineInv' /\ PlacesInv
    BY <1>1, StepEnded DEF CrossInv, EndedInv, PlacesInv
  <1>3. NoneOf("ICEBERG")' /\ MappedRest'
    BY <1>1, <1>2, TypesStay, StepMapped DEF CrossInv
  <1>4. QED
    BY <1>1, <1>2, <1>3, StepUncrossed, StepClear DEF CrossInv

LEMMA InitCross == ASSUME Init PROVE CrossInv
  <1>1. PlacesInv
    BY InitPlaces
  <1>2. /\ pending = << >> /\ pc = "idle" /\ next_id = 0 /\ book = EmptyBook
        /\ \A u \in Uid : order[u] = Blank
    BY DEF Init
  <1>3. /\ \A s \in Side, t \in Tick : book.level[s][t].queue = << >>
        /\ \A i \in OrderId : book.map[i] = None
        /\ \A s \in Side : book.live[s] = {}
    BY <1>2 DEF EmptyBook, NewLevel
  <1>4. Resting(book) = {} /\ Mapped(book.map) = {}
    <2>1. \A u : u \in Resting(book) <=> \E s \in Side, t \in Tick : u \in ToSet(book.level[s][t].queue)
      BY <1>1, WhoRests, PlaceFacts
    <2>2. \A s \in Side, t \in Tick : ToSet(book.level[s][t].queue) = {}
      BY <1>3, EmptyQueue
    <2>3. QED
      BY <1>3, <2>1, <2>2 DEF Mapped
  <1>5. OnBook(book) = {} /\ InHand = {} /\ ToSet(pending) = {}
    BY <1>2, <1>4, EmptyQueue DEF OnBook, InHand
  <1>6. EndedInv
    <2>1. \A u \in Uid : ~Ended(order[u])
      <3>1. Blank.status = "NEW"
        BY DEF Blank
      <3>2. QED
        BY <1>2, <3>1 DEF Ended
    <2>2. OpenUnused
      BY <2>1 DEF OpenUnused
    <2>3. NewestKnown
      <3>1. 1 .. next_id = {}
        BY <1>2
      <3>2. QED
        BY <3>1 DEF NewestKnown
    <2>4. OpenPending /\ OpenInHand /\ SpentOnBook /\ RestersOnBook
      BY <1>4, <1>5 DEF OpenPending, OpenInHand, SpentOnBook, RestersOnBook
    <2>5. QED
      BY <1>1, <2>2, <2>3, <2>4 DEF EndedInv
  <1>7. NoneOf("ICEBERG")
    BY <1>2 DEF NoneOf, Blank
  <1>8. MappedRest /\ Uncrossed /\ ResidualClear
    <2>1. MappedRest
      BY <1>4 DEF MappedRest
    <2>2. Uncrossed
      BY <1>3 DEF Uncrossed, Side
    <2>3. ResidualClear
      BY <1>2 DEF ResidualClear
    <2>4. QED
      BY <2>1, <2>2, <2>3
  <1>9. QED
    BY <1>6, <1>7, <1>8 DEF CrossInv

(* Between calls no bid stands at or above an ask, through every mixture   *)
(* of matching, cancellation, modification and triggered stops, when       *)
(* prices lie on the grid, CANCEL_NEWEST is asked for only with orders     *)
(* that never rest, and nobody sends icebergs: whose code (price ticks,    *)
(* _match's residual, update_volume_after_fill) breaks it otherwise.       *)
THEOREM NeverCrossed ==
  ASSUME Price = Tick, NewestNeverRests, NeverSent("ICEBERG")
  PROVE  Spec => []BookUncrossed
  <1>1. Init => CrossInv
    BY InitCross
  <1>2. CrossInv /\ [Next]_vars => CrossInv'
    BY StepCross
  <1>3. CrossInv => BookUncrossed
    BY DEF CrossInv, Uncrossed, BookUncrossed
  <1>4. QED
    BY <1>1, <1>2, <1>3, PTL DEF Spec

-----------------------------------------------------------------------------
(* The volumes of a level: v is the sum of f over S, or (while an order    *)
(* may be larger than what it shows) no more than it.                      *)

Agrees(exact, v, S, f) ==
  v \in Nat /\ IF exact THEN v = SumFunctionOnSet(f, S) ELSE v <= SumFunctionOnSet(f, S)

Lotted(f) == \A u \in Uid : f[u] \in Nat

LEMMA UidsFinite ==
  ASSUME NEW S \in SUBSET Uid, NEW f, Lotted(f)
  PROVE  IsFiniteSet(S) /\ Ints(f, S) /\ SumFunctionOnSet(f, S) \in Nat
  <1>1. IsFiniteSet(Uid)
    BY BoundAssumption, FS_Interval DEF Uid
  <1>2. IsFiniteSet(S)
    BY <1>1, FS_Subset
  <1>3. \A u \in S : f[u] \in Nat
    BY DEF Lotted
  <1>4. QED
    BY <1>2, <1>3, SumNat DEF Ints

LEMMA AgreesSame ==
  ASSUME NEW S \in SUBSET Uid, NEW f, Lotted(f), NEW e, \A u \in S : e[u] = f[u],
         NEW exact \in BOOLEAN, NEW v, Agrees(exact, v, S, f)
  PROVE  Agrees(exact, v, S, e)
  <1>1. IsFiniteSet(S)
    BY UidsFinite
  <1>2. SumFunctionOnSet(e, S) = SumFunctionOnSet(f, S)
    BY <1>1, SumSame
  <1>3. QED
    BY <1>2 DEF Agrees

LEMMA AgreesJoined ==
  ASSUME NEW S \in SUBSET Uid, NEW f, Lotted(f), NEW u \in Uid \ S,
         NEW exact \in BOOLEAN, NEW v, Agrees(exact, v, S, f)
  PROVE  Agrees(exact, v + f[u], S \cup {u}, f)
  <1>1. IsFiniteSet(S) /\ Ints(f, S) /\ SumFunctionOnSet(f, S) \in Nat
    BY UidsFinite
  <1>2. f[u] \in Nat
    BY DEF Lotted
  <1>3. SumFunctionOnSet(f, S \cup {u}) = f[u] + SumFunctionOnSet(f, S)
    BY <1>1, <1>2, SumAdd
  <1>4. QED
    BY <1>1, <1>2, <1>3 DEF Agrees

LEMMA AgreesParted ==
  ASSUME NEW S \in SUBSET Uid, NEW f, Lotted(f), NEW u \in S,
         NEW exact \in BOOLEAN, NEW v, Agrees(exact, v, S, f)
  PROVE  Agrees(exact, Clip(v - f[u]), S \ {u}, f)
  <1>1. IsFiniteSet(S) /\ Ints(f, S) /\ SumFunctionOnSet(f, S \ {u}) \in Nat
    BY UidsFinite
  <1>2. f[u] \in Nat
    BY DEF Lotted
  <1>3. SumFunctionOnSet(f, S) = f[u] + SumFunctionOnSet(f, S \ {u})
    BY <1>1, SumTake
  <1>4. QED
    BY <1>1, <1>2, <1>3 DEF Agrees, Clip

(* One order of S has k lots fewer, and is charged for no more than it has *)
(* where the volume is to stay exact.                                      *)
Cut(e, f, S, u, k) == e[u] = Clip(f[u] - k) /\ \A w \in S : w # u => e[w] = f[w]

LEMMA AgreesLess ==
  ASSUME NEW S \in SUBSET Uid, NEW f, Lotted(f), NEW e, Lotted(e), NEW u \in S,
         NEW k \in Nat, Cut(e, f, S, u, k),
         NEW exact \in BOOLEAN, exact => k <= f[u], NEW v, Agrees(exact, v, S, f)
  PROVE  Agrees(exact, Clip(v - k), S, e)
  <1>1. /\ IsFiniteSet(S) /\ Ints(f, S) /\ Ints(e, S)
        /\ SumFunctionOnSet(f, S) \in Nat /\ SumFunctionOnSet(e, S) \in Nat
    BY UidsFinite
  <1>2. f[u] \in Nat /\ e[u] \in Nat
    BY DEF Lotted
  <1>3. SumFunctionOnSet(e, S) = SumFunctionOnSet(f, S) - f[u] + e[u]
    BY <1>1, SumChange DEF Cut
  <1>4. QED
    BY <1>1, <1>2, <1>3 DEF Agrees, Clip, Cut

LEMMA AgreesMore ==
  ASSUME NEW S \in SUBSET Uid, NEW f, Lotted(f), NEW e, Lotted(e), NEW u \in S,
         \A w \in S : w # u => e[w] = f[w],
         NEW k \in Nat, e[u] = f[u] + k,
         NEW exact \in BOOLEAN, NEW v, Agrees(exact, v, S, f)
  PROVE  Agrees(exact, v + k, S, e)
  <1>1. /\ IsFiniteSet(S) /\ Ints(f, S) /\ Ints(e, S)
        /\ SumFunctionOnSet(f, S) \in Nat /\ SumFunctionOnSet(e, S) \in Nat
    BY UidsFinite
  <1>2. f[u] \in Nat /\ e[u] \in Nat
    BY DEF Lotted
  <1>3. SumFunctionOnSet(e, S) = SumFunctionOnSet(f, S) - f[u] + e[u]
    BY <1>1, SumChange
  <1>4. QED
    BY <1>1, <1>2, <1>3 DEF Agrees

-----------------------------------------------------------------------------
(* A level whose two volumes are those of the orders in its queue.         *)

Displays(ord) == [u \in Uid |-> ord[u].display]
Hiddens(ord) == [u \in Uid |-> ord[u].hidden]

AddsUp(exact, lv, ord) ==
  /\ Agrees(exact, lv.total, ToSet(lv.queue), Displays(ord))
  /\ Agrees(exact, lv.hidden, ToSet(lv.queue), Hiddens(ord))

LEMMA OrdersLotted ==
  ASSUME NEW ord \in [Uid -> Order]
  PROVE  /\ Lotted(Displays(ord)) /\ Lotted(Hiddens(ord))
         /\ \A u \in Uid : Displays(ord)[u] = ord[u].display /\ Hiddens(ord)[u] = ord[u].hidden
  BY DEF Lotted, Displays, Hiddens, Order

(* What the volumes depend on of an order.                                 *)
SameVolumes(S, new, ord) == \A u \in S : new[u].display = ord[u].display /\ new[u].hidden = ord[u].hidden

LEMMA AddsUpSame ==
  ASSUME NEW ord \in [Uid -> Order], NEW new \in [Uid -> Order], NEW lv, ToSet(lv.queue) \subseteq Uid,
         SameVolumes(ToSet(lv.queue), new, ord), NEW exact \in BOOLEAN, AddsUp(exact, lv, ord)
  PROVE  AddsUp(exact, lv, new)
  <1> DEFINE S == ToSet(lv.queue)
  <1>1. /\ Lotted(Displays(ord)) /\ Lotted(Hiddens(ord)) /\ S \in SUBSET Uid
        /\ \A u \in S : Displays(new)[u] = Displays(ord)[u] /\ Hiddens(new)[u] = Hiddens(ord)[u]
    <2>1. \A u \in S : u \in Uid /\ new[u].display = ord[u].display /\ new[u].hidden = ord[u].hidden
      BY DEF SameVolumes
    <2>2. QED
      BY <2>1, OrdersLotted
  <1>2. Agrees(exact, lv.total, S, Displays(ord)) /\ Agrees(exact, lv.hidden, S, Hiddens(ord))
    BY DEF AddsUp
  <1> HIDE DEF S
  <1>3. Agrees(exact, lv.total, S, Displays(new)) /\ Agrees(exact, lv.hidden, S, Hiddens(new))
    BY <1>1, <1>2, AgreesSame
  <1>4. QED
    BY <1>3 DEF AddsUp, S

LEMMA NewLevelAddsUp == ASSUME NEW ord, NEW exact \in BOOLEAN PROVE AddsUp(exact, NewLevel, ord)
  <1>1. NewLevel.total = 0 /\ NewLevel.hidden = 0 /\ ToSet(NewLevel.queue) = {}
    BY EmptyQueue DEF NewLevel
  <1>2. \A f : Agrees(exact, 0, {}, f)
    BY SumEmpty DEF Agrees
  <1>3. QED
    BY <1>1, <1>2 DEF AddsUp

LEMMA AppendAddsUp ==
  ASSUME NEW ord \in [Uid -> Order], NEW lv \in Level, NEW u \in Uid, u \notin ToSet(lv.queue),
         NEW exact \in BOOLEAN, AddsUp(exact, lv, ord)
  PROVE  AddsUp(exact, LevelAppend(lv, ord[u], u), ord)
  <1> DEFINE S == ToSet(lv.queue)
             k == LevelAppend(lv, ord[u], u)
  <1>1. lv.queue \in Seq(Uid)
    BY DEF Level
  <1>2. ToSet(k.queue) = S \cup {u} /\ S \in SUBSET Uid
    BY <1>1, AppendFacts, ToSetFacts DEF LevelAppend
  <1>3. k.total = lv.total + Displays(ord)[u] /\ k.hidden = lv.hidden + Hiddens(ord)[u]
    BY OrdersLotted DEF LevelAppend
  <1>4. /\ Lotted(Displays(ord)) /\ Lotted(Hiddens(ord)) /\ u \in Uid \ S
        /\ Agrees(exact, lv.total, S, Displays(ord)) /\ Agrees(exact, lv.hidden, S, Hiddens(ord))
    BY OrdersLotted DEF AddsUp
  <1> HIDE DEF S, k
  <1>5. /\ Agrees(exact, lv.total + Displays(ord)[u], S \cup {u}, Displays(ord))
        /\ Agrees(exact, lv.hidden + Hiddens(ord)[u], S \cup {u}, Hiddens(ord))
    BY <1>2, <1>4, AgreesJoined
  <1>6. AddsUp(exact, k, ord)
    BY <1>2, <1>3, <1>5 DEF AddsUp
  <1>7. QED
    BY <1>6 DEF k

(* lv2 is lv without u.                                                    *)
Without(lv2, lv, ord, u) ==
  /\ u \in ToSet(lv.queue) /\ ToSet(lv2.queue) = ToSet(lv.queue) \ {u}
  /\ lv2.total = Clip(lv.total - ord[u].display) /\ lv2.hidden = Clip(lv.hidden - ord[u].hidden)

LEMMA WithoutAddsUp ==
  ASSUME NEW ord \in [Uid -> Order], NEW lv, ToSet(lv.queue) \subseteq Uid, NEW u, NEW lv2,
         Without(lv2, lv, ord, u), NEW exact \in BOOLEAN, AddsUp(exact, lv, ord)
  PROVE  AddsUp(exact, lv2, ord)
  <1> DEFINE S == ToSet(lv.queue)
  <1>1. u \in S /\ S \in SUBSET Uid /\ ToSet(lv2.queue) = S \ {u}
    BY DEF Without
  <1>2. lv2.total = Clip(lv.total - Displays(ord)[u]) /\ lv2.hidden = Clip(lv.hidden - Hiddens(ord)[u])
    BY <1>1, OrdersLotted DEF Without
  <1>3. /\ Lotted(Displays(ord)) /\ Lotted(Hiddens(ord))
        /\ Agrees(exact, lv.total, S, Displays(ord)) /\ Agrees(exact, lv.hidden, S, Hiddens(ord))
    BY OrdersLotted DEF AddsUp
  <1> HIDE DEF S
  <1>4. /\ Agrees(exact, Clip(lv.total - Displays(ord)[u]), S \ {u}, Displays(ord))
        /\ Agrees(exact, Clip(lv.hidden - Hiddens(ord)[u]), S \ {u}, Hiddens(ord))
    BY <1>1, <1>3, AgreesParted
  <1>5. QED
    BY <1>1, <1>2, <1>4 DEF AddsUp

LEMMA RemoveAddsUp ==
  ASSUME NEW ord \in [Uid -> Order], NEW lv \in Level, IsInjective(lv.queue), NEW u,
         NEW exact \in BOOLEAN, AddsUp(exact, lv, ord)
  PROVE  AddsUp(exact, LevelRemove(lv, ord[u], u), ord)
  <1>1. lv.queue \in Seq(Uid) /\ ToSet(lv.queue) \subseteq Uid
    BY ToSetFacts DEF Level
  <1>2. IsQueued(lv, u) <=> u \in ToSet(lv.queue)
    BY <1>1, QueuedIs
  <1>3. CASE u \in ToSet(lv.queue)
    <2>1. ToSet(Unlink(lv.queue, u)) = ToSet(lv.queue) \ {u}
      BY <1>1, <1>3, InjectiveUnlink
    <2>2. Without(LevelRemove(lv, ord[u], u), lv, ord, u)
      BY <1>2, <1>3, <2>1 DEF Without, LevelRemove
    <2>3. QED
      BY <1>1, <2>2, WithoutAddsUp
  <1>4. CASE u \notin ToSet(lv.queue)
    BY <1>2, <1>4 DEF LevelRemove
  <1>5. QED
    BY <1>3, <1>4

LEMMA PopAddsUp ==
  ASSUME NEW ord \in [Uid -> Order], NEW lv, lv.queue \in Seq(Uid), IsInjective(lv.queue),
         lv.queue # << >>, NEW exact \in BOOLEAN, AddsUp(exact, lv, ord)
  PROVE  AddsUp(exact, PopHead(lv, ord), ord)
  <1>1. ToSet(lv.queue) \subseteq Uid
    BY ToSetFacts
  <1>2. ToSet(Tail(lv.queue)) = ToSet(lv.queue) \ {Head(lv.queue)} /\ Head(lv.queue) \in ToSet(lv.queue)
    BY InjectiveTail
  <1>3. Without(PopHead(lv, ord), lv, ord, Head(lv.queue))
    BY <1>2 DEF Without, PopHead
  <1>4. QED
    BY <1>1, <1>3, WithoutAddsUp

(* lv2 is lv after u's display has been cut by k and raised by m, and its  *)
(* hidden part cut by j: a fill, a new tranche, a reduction.               *)
Turned(lv2, lv, new, ord, u, k, m, j) ==
  /\ ToSet(lv2.queue) = ToSet(lv.queue)
  /\ lv2.total = Clip(lv.total - k) + m /\ new[u].display = Clip(ord[u].display - k) + m
  /\ lv2.hidden = Clip(lv.hidden - j) /\ new[u].hidden = Clip(ord[u].hidden - j)

LEMMA TurnedAddsUp ==
  ASSUME NEW ord \in [Uid -> Order], NEW new \in [Uid -> Order], NEW lv, ToSet(lv.queue) \subseteq Uid,
         NEW u \in ToSet(lv.queue), SameVolumes(ToSet(lv.queue) \ {u}, new, ord),
         NEW k \in Nat, NEW m \in Nat, NEW j \in Nat, NEW lv2, Turned(lv2, lv, new, ord, u, k, m, j),
         NEW exact \in BOOLEAN, exact => k <= ord[u].display /\ j <= ord[u].hidden, AddsUp(exact, lv, ord)
  PROVE  AddsUp(exact, lv2, new)
  <1> DEFINE S == ToSet(lv.queue)
             f == Displays(ord)
             g == Hiddens(ord)
             e == Displays(new)
             h == Hiddens(new)
             mid == [f EXCEPT ![u] = Clip(@ - k)]
  <1>1. S \in SUBSET Uid /\ u \in S /\ u \in Uid
    OBVIOUS
  <1>2. /\ Lotted(f) /\ Lotted(g) /\ Lotted(e) /\ Lotted(h)
        /\ \A w \in Uid : /\ f[w] = ord[w].display /\ g[w] = ord[w].hidden
                           /\ e[w] = new[w].display /\ h[w] = new[w].hidden
    BY OrdersLotted
  <1>3. f \in [Uid -> Nat] /\ g[u] \in Nat /\ f[u] \in Nat
    BY <1>1, <1>2 DEF Displays, Order
  <1>4. Agrees(exact, lv.total, S, f) /\ Agrees(exact, lv.hidden, S, g)
    BY DEF AddsUp
  <1>5. /\ \A w \in S : w # u => e[w] = f[w] /\ h[w] = g[w]
        /\ exact => k <= f[u] /\ j <= g[u]
        /\ e[u] = Clip(f[u] - k) + m /\ h[u] = Clip(g[u] - j)
        /\ lv2.total = Clip(lv.total - k) + m /\ lv2.hidden = Clip(lv.hidden - j) /\ ToSet(lv2.queue) = S
    BY <1>1, <1>2 DEF SameVolumes, Turned
  <1>6. /\ Clip(f[u] - k) \in Nat /\ mid[u] = Clip(f[u] - k) /\ \A w \in S : w # u => mid[w] = f[w]
        /\ mid \in [Uid -> Nat]
    BY <1>1, <1>3 DEF Clip
  <1>7. Lotted(mid)
    BY <1>6 DEF Lotted
  <1> HIDE DEF S, f, g, e, h, mid
  <1>8. Agrees(exact, Clip(lv.total - k), S, mid)
    <2>1. Cut(mid, f, S, u, k)
      BY <1>6 DEF Cut
    <2>2. (exact => k <= f[u]) /\ Lotted(f) /\ Lotted(mid)
      BY <1>2, <1>5, <1>7
    <2>3. QED
      BY <1>1, <1>4, <2>1, <2>2, AgreesLess
  <1>9. Agrees(exact, Clip(lv.total - k) + m, S, e)
    <2>1. \A w \in S : w # u => e[w] = mid[w]
      BY <1>5, <1>6
    <2>2. e[u] = mid[u] + m
      BY <1>5, <1>6
    <2>3. QED
      BY <1>1, <1>2, <1>7, <1>8, <2>1, <2>2, AgreesMore
  <1>10. Agrees(exact, Clip(lv.hidden - j), S, h)
    <2>1. Cut(h, g, S, u, j)
      BY <1>5 DEF Cut
    <2>2. (exact => j <= g[u]) /\ Lotted(g) /\ Lotted(h)
      BY <1>2, <1>5
    <2>3. QED
      BY <1>1, <1>4, <2>1, <2>2, AgreesLess
  <1>11. QED
    BY <1>5, <1>9, <1>10 DEF AddsUp, e, h, S

(* What an order shows covers a fill of n lots.                            *)
Fits(o, n) ==
  /\ o.type \notin {"ICEBERG", "HIDDEN"} => n <= o.display
  /\ o.type = "HIDDEN" => n <= o.hidden

Turns(f, lv, o, n, k, m, j) ==
  /\ ToSet(f.level.queue) = ToSet(lv.queue)
  /\ f.level.total = Clip(lv.total - k) + m /\ f.order.display = Clip(o.display - k) + m
  /\ f.level.hidden = Clip(lv.hidden - j) /\ f.order.hidden = Clip(o.hidden - j)
  /\ Fits(o, n) => k <= o.display /\ j <= o.hidden

LEMMA FillTurns ==
  ASSUME NEW o \in Order, NEW lv \in Level, IsInjective(lv.queue), NEW u \in ToSet(lv.queue), NEW n \in Nat,
         NEW f, f = UpdateVolumeAfterFill(lv, o, u, n)
  PROVE  \E k, m, j \in Nat : Turns(f, lv, o, n, k, m, j)
  <1>1. /\ o.display \in Nat /\ o.hidden \in Nat /\ o.slice \in Nat /\ lv.total \in Nat /\ lv.hidden \in Nat
        /\ lv = [queue |-> lv.queue, total |-> lv.total, hidden |-> lv.hidden]
    BY DEF Order, Level
  <1>2. ToSet(f.level.queue) = ToSet(lv.queue)
    BY FillQueue
  <1> DEFINE shown == Least(o.display, n)
             fresh == Replenishment(o)
  <1>3. /\ shown \in Nat /\ shown <= o.display /\ fresh \in Nat /\ fresh <= o.hidden
        /\ \A x \in Nat : Clip(x - 0) = x /\ Clip(x - 0) + 0 = x
    BY <1>1 DEF Least, Replenishment, Clip
  <1>4. CASE o.type = "ICEBERG"
    <2>1. f = FillIceberg(lv, o, u, n)
      BY <1>4 DEF UpdateVolumeAfterFill
    <2>2. CASE o.display - shown = 0 /\ o.hidden > 0
      <3>1. /\ f.order.display = fresh /\ f.order.hidden = o.hidden - fresh
            /\ f.level.total = Clip(lv.total - shown) + fresh /\ f.level.hidden = Clip(lv.hidden - fresh)
        BY <1>1, <2>1, <2>2 DEF FillIceberg, Order
      <3>2. /\ Clip(o.display - shown) + fresh = fresh /\ Clip(o.hidden - fresh) = o.hidden - fresh
            /\ shown <= o.display /\ fresh <= o.hidden
        BY <1>1, <1>3, <2>2 DEF Clip
      <3>3. Turns(f, lv, o, n, shown, fresh, fresh)
        BY <1>2, <3>1, <3>2 DEF Turns
      <3>4. QED
        BY <1>3, <3>3
    <2>3. CASE ~(o.display - shown = 0 /\ o.hidden > 0)
      <3>1. /\ f.order.display = o.display - shown /\ f.order.hidden = o.hidden
            /\ f.level.total = Clip(lv.total - shown) /\ f.level.hidden = lv.hidden
        BY <1>1, <2>1, <2>3 DEF FillIceberg, Order, Level
      <3>2. /\ Clip(o.display - shown) + 0 = o.display - shown
            /\ Clip(o.hidden - 0) = o.hidden /\ Clip(lv.hidden - 0) = lv.hidden
        BY <1>1, <1>3 DEF Clip
      <3>3. Clip(lv.total - shown) + 0 = Clip(lv.total - shown) /\ shown <= o.display /\ 0 <= o.hidden
        BY <1>1, <1>3 DEF Clip
      <3>4. Turns(f, lv, o, n, shown, 0, 0)
        BY <1>2, <3>1, <3>2, <3>3 DEF Turns
      <3>5. QED
        BY <1>3, <3>4
    <2>4. QED
      BY <2>2, <2>3
  <1>5. CASE o.type = "HIDDEN"
    <2>1. /\ f.order.display = o.display /\ f.order.hidden = Clip(o.hidden - n)
          /\ f.level.total = lv.total /\ f.level.hidden = Clip(lv.hidden - n)
      BY <1>1, <1>5 DEF UpdateVolumeAfterFill, FillHidden, Order, Level
    <2>2. f.order.display = Clip(o.display - 0) + 0 /\ f.level.total = Clip(lv.total - 0) + 0
      BY <1>1, <1>3, <2>1
    <2>3. Fits(o, n) => 0 <= o.display /\ n <= o.hidden
      BY <1>1, <1>5 DEF Fits
    <2>4. Turns(f, lv, o, n, 0, 0, n)
      BY <1>2, <2>1, <2>2, <2>3 DEF Turns
    <2>5. QED
      BY <2>4
  <1>6. CASE o.type \notin {"ICEBERG", "HIDDEN"}
    <2>1. /\ f.order.display = Clip(o.display - n) /\ f.order.hidden = o.hidden
          /\ f.level.total = Clip(lv.total - n) /\ f.level.hidden = lv.hidden
      BY <1>1, <1>6 DEF UpdateVolumeAfterFill, FillVisible, Order, Level
    <2>2. /\ Clip(o.display - n) + 0 = Clip(o.display - n) /\ Clip(o.hidden - 0) = o.hidden
          /\ Clip(lv.total - n) + 0 = Clip(lv.total - n) /\ Clip(lv.hidden - 0) = lv.hidden
      BY <1>1, <1>3 DEF Clip
    <2>3. Fits(o, n) => n <= o.display /\ 0 <= o.hidden
      BY <1>1, <1>6 DEF Fits
    <2>4. Turns(f, lv, o, n, n, 0, 0)
      BY <1>2, <2>1, <2>2, <2>3 DEF Turns
    <2>5. QED
      BY <2>4
  <1>7. QED
    BY <1>4, <1>5, <1>6

LEMMA FillAddsUp ==
  ASSUME NEW ord \in [Uid -> Order], NEW new \in [Uid -> Order], NEW lv \in Level, IsInjective(lv.queue),
         NEW u \in ToSet(lv.queue), NEW o \in Order, o.display = ord[u].display, o.hidden = ord[u].hidden,
         NEW n \in Nat, NEW f, f = UpdateVolumeAfterFill(lv, o, u, n),
         new[u].display = f.order.display, new[u].hidden = f.order.hidden,
         SameVolumes(ToSet(lv.queue) \ {u}, new, ord),
         NEW exact \in BOOLEAN, exact => Fits(o, n), AddsUp(exact, lv, ord)
  PROVE  AddsUp(exact, f.level, new)
  <1>1. PICK k, m, j \in Nat : Turns(f, lv, o, n, k, m, j)
    BY FillTurns
  <1>2. Turned(f.level, lv, new, ord, u, k, m, j)
    BY <1>1 DEF Turned, Turns
  <1>3. exact => k <= ord[u].display /\ j <= ord[u].hidden
    BY <1>1 DEF Turns
  <1>4. ToSet(lv.queue) \subseteq Uid
    BY ToSetFacts DEF Level
  <1>5. QED
    BY <1>2, <1>3, <1>4, TurnedAddsUp

-----------------------------------------------------------------------------
(* A book all of whose levels add up.                                      *)

BookAddsUp(exact, b, ord) == \A s \in Side, t \in Tick : AddsUp(exact, b.level[s][t], ord)

LEMMA BookSame ==
  ASSUME NEW ord \in [Uid -> Order], NEW new \in [Uid -> Order], NEW b, IsABook(b),
         SameVolumes(Resting(b), new, ord), NEW exact \in BOOLEAN, BookAddsUp(exact, b, ord)
  PROVE  BookAddsUp(exact, b, new)
  <1>1. SUFFICES ASSUME NEW s \in Side, NEW t \in Tick PROVE AddsUp(exact, b.level[s][t], new)
    BY DEF BookAddsUp
  <1> DEFINE lv == b.level[s][t]
  <1>2. PICK any : \E n \in 0 .. MaxOrders : BookOK(b, any, n)
    BY DEF IsABook
  <1>3. ToSet(lv.queue) \subseteq Resting(b) /\ lv.queue \in Seq(Uid)
    BY <1>2, WhoRests, QueueType
  <1>4. ToSet(lv.queue) \subseteq Uid
    BY <1>3, ToSetFacts
  <1>5. AddsUp(exact, lv, ord)
    BY DEF BookAddsUp
  <1> HIDE DEF lv
  <1>6. SameVolumes(ToSet(lv.queue), new, ord)
    BY <1>3 DEF SameVolumes
  <1>7. AddsUp(exact, lv, new)
    BY <1>4, <1>5, <1>6, AddsUpSame
  <1>8. QED
    BY <1>7 DEF lv

LEMMA OneLevelAddsUp ==
  ASSUME NEW ord \in [Uid -> Order], NEW new \in [Uid -> Order], NEW n, NEW b, Booked(b, ord, n),
         NEW s \in Side, NEW t \in Tick, NEW lv, NEW c, Written(c, b, s, t, lv),
         SameVolumes(Resting(b) \ ToSet(b.level[s][t].queue), new, ord),
         NEW exact \in BOOLEAN, BookAddsUp(exact, b, ord), AddsUp(exact, lv, new)
  PROVE  BookAddsUp(exact, c, new)
  <1>1. SUFFICES ASSUME NEW x \in Side, NEW y \in Tick PROVE AddsUp(exact, c.level[x][y], new)
    BY DEF BookAddsUp
  <1>2. b \in Book
    BY DEF Booked, BookOK
  <1>3. c.level[s][t] = lv /\ (~(x = s /\ y = t) => c.level[x][y] = b.level[x][y])
    BY <1>2, BookWithFacts DEF Written
  <1>4. CASE x = s /\ y = t
    BY <1>3, <1>4
  <1>5. CASE ~(x = s /\ y = t)
    <2> DEFINE l == b.level[x][y]
    <2>1. ToSet(l.queue) \subseteq Resting(b)
      BY WhoRests DEF Booked
    <2>2. ToSet(l.queue) \subseteq Uid
      <3>1. BookOK(b, ord, n) /\ n \in 0 .. MaxOrders
        BY DEF Booked
      <3>2. l.queue \in Seq(Uid)
        BY <3>1, QueueType
      <3>3. QED
        BY <3>2, ToSetFacts
    <2>3. ToSet(l.queue) \cap ToSet(b.level[s][t].queue) = {}
      <3>1. WellQueued(l.queue, ord, x, y) /\ WellQueued(b.level[s][t].queue, ord, s, t)
        BY DEF Booked, Placed
      <3> HIDE DEF l
      <3>2. QED
        BY <1>5, <3>1 DEF WellQueued
    <2>4. AddsUp(exact, l, ord)
      BY DEF BookAddsUp
    <2> HIDE DEF l
    <2>5. SameVolumes(ToSet(l.queue), new, ord)
      BY <2>1, <2>3 DEF SameVolumes
    <2>6. AddsUp(exact, l, new)
      BY <2>2, <2>4, <2>5, AddsUpSame
    <2>7. QED
      BY <1>3, <1>5, <2>6 DEF l
  <1>6. QED
    BY <1>4, <1>5

LEMMA RemoveOrderAddsUp ==
  ASSUME NEW ord \in [Uid -> Order], NEW n, NEW b, Booked(b, ord, n), NEW u \in Uid,
         NEW exact \in BOOLEAN, BookAddsUp(exact, b, ord)
  PROVE  BookAddsUp(exact, RemoveOrder(b, ord, u), ord)
  <1> DEFINE o == ord[u]
             s == o.side
             t == TicksOf(o.price)
             d == [b EXCEPT !.map[o.oid] = None]
             lv == LevelRemove(b.level[s][t], o, u)
  <1>1. b \in Book /\ o \in Order /\ s \in Side /\ o.oid \in OrderId
    BY DEF Booked, BookOK, Order
  <1>2. d \in Book /\ d.level = b.level
    BY <1>1 DEF Book, None
  <1>3. CASE ~(o.price # NoPrice /\ t \in b.live[s])
    <2>1. RemoveOrder(b, ord, u) = d
      BY <1>2, <1>3 DEF RemoveOrder, Book
    <2>2. QED
      BY <1>2, <2>1 DEF BookAddsUp
  <1>4. CASE o.price # NoPrice /\ t \in b.live[s]
    <2>1. t \in Tick
      BY <1>1, <1>4 DEF Book
    <2>2. b.level[s][t] \in Level /\ IsInjective(b.level[s][t].queue)
      BY <1>1, <2>1 DEF Booked, Placed, WellQueued, Book
    <2>3. Holds(b.level[s][t], Uid)
      BY <2>2 DEF Holds, Level
    <2>4. lv \in Level
      BY <1>1, <2>3, LevelRemoveHolds DEF Holds
    <2>5. AddsUp(exact, lv, ord)
      <3>1. AddsUp(exact, b.level[s][t], ord)
        BY <1>1, <2>1 DEF BookAddsUp
      <3>2. QED
        BY <2>2, <3>1, RemoveAddsUp
    <2>6. d.live = b.live
      BY <1>1 DEF Book
    <2>7. RemoveOrder(b, ord, u) = StoreLevel(d, s, t, lv)
      BY <1>2, <1>4, <2>6 DEF RemoveOrder
    <2>8. Written(StoreLevel(d, s, t, lv), b, s, t, lv)
      <3> HIDE DEF d, lv, s, t
      <3>1. StoreLevel(d, s, t, lv) = BookWith(LiveWith(d, s, t, lv), d, s, t, lv, d.map)
        BY <1>1, <1>2, <2>1, <2>4, StoreLevelIs
      <3>2. BookWith(LiveWith(d, s, t, lv), d, s, t, lv, d.map) = BookWith(LiveWith(d, s, t, lv), b, s, t, lv, d.map)
        BY <1>2 DEF BookWith
      <3>3. QED
        BY <3>1, <3>2 DEF Written
    <2>9. SameVolumes(Resting(b) \ ToSet(b.level[s][t].queue), ord, ord)
      BY DEF SameVolumes
    <2> HIDE DEF d, lv, s, t
    <2>10. QED
      BY <1>1, <2>1, <2>5, <2>7, <2>8, <2>9, OneLevelAddsUp
  <1>5. QED
    BY <1>3, <1>4

LEMMA InsertOrderAddsUp ==
  ASSUME NEW ord \in [Uid -> Order], NEW n, NEW b, Booked(b, ord, n), NEW u \in Uid, u \notin Resting(b),
         NEW exact \in BOOLEAN, BookAddsUp(exact, b, ord)
  PROVE  BookAddsUp(exact, InsertOrder(b, ord, u), ord)
  <1> DEFINE o == ord[u]
             s == o.side
             t == TicksOf(o.price)
             lv == LevelAppend(b.level[s][t], o, u)
  <1>1. CASE o.price = NoPrice
    BY <1>1 DEF InsertOrder
  <1>2. CASE o.price # NoPrice
    <2>1. b \in Book /\ o \in Order /\ s \in Side /\ o.price \in Price
      BY <1>2 DEF Booked, BookOK, Order
    <2>2. t \in Tick
      BY <2>1, TicksOfType
    <2>3. Home(b, o) = b.level[s][t]
      BY DEF Home
    <2>4. Written(InsertOrder(b, ord, u), b, s, t, lv)
      <3>1. InsertOrder(b, ord, u) = BookWith([b.live EXCEPT ![s] = @ \cup {t}], b, s, t, lv,
                                              [b.map EXCEPT ![o.oid] = u])
        BY <1>2, <2>3, InsertOrderIs
      <3>2. QED
        BY <3>1 DEF Written
    <2>5. b.level[s][t] \in Level /\ u \notin ToSet(b.level[s][t].queue)
      <3>1. BookOK(b, ord, n) /\ n \in 0 .. MaxOrders
        BY DEF Booked
      <3>2. QED
        BY <2>1, <2>2, <3>1, QueueType, WhoRests
    <2>6. AddsUp(exact, b.level[s][t], ord)
      BY <2>1, <2>2 DEF BookAddsUp
    <2>7. AddsUp(exact, lv, ord)
      BY <2>5, <2>6, AppendAddsUp
    <2>8. SameVolumes(Resting(b) \ ToSet(b.level[s][t].queue), ord, ord)
      BY DEF SameVolumes
    <2> HIDE DEF lv, s, t
    <2>9. QED
      BY <2>1, <2>2, <2>4, <2>7, <2>8, OneLevelAddsUp
  <1>3. QED
    BY <1>1, <1>2

-----------------------------------------------------------------------------
(* What an order shows and hides covers what it can still trade.           *)

Cover(o) ==
  /\ o.type \notin {"ICEBERG", "HIDDEN"} => Remaining(o) <= o.display
  /\ o.type = "HIDDEN" => Remaining(o) <= o.hidden
  /\ Remaining(o) <= o.display + o.hidden

Covered == \A u \in Uid : Cover(order[u])

(* What no step changes of an order but a new one, an amendment, a trigger *)
(* and a fill.                                                             *)
AsShown(o, p) == Unfilled(o, p) /\ o.display = p.display /\ o.hidden = p.hidden

LEMMA ShownCover == ASSUME NEW o, NEW p, AsShown(o, p), Cover(p) PROVE Cover(o)
  BY DEF AsShown, Unfilled, Steady, Cover, Remaining

LEMMA StepShown ==
  ASSUME PlacesInv, EngineInv', [Next]_vars, ~Alters, ~(StpDecrement \/ Execute)
  PROVE  \A u \in Uid : AsShown(order'[u], order[u])
  <1>1. order \in [Uid -> Order]
    BY PlaceFacts
  <1>2. ASSUME order' = order PROVE \A u \in Uid : AsShown(order'[u], order[u])
    BY <1>2, OwnAlike DEF AsShown
  <1>3. ASSUME NEW u \in Uid, NEW st, order' = Marked(order, u, st)
        PROVE  \A v \in Uid : AsShown(order'[v], order[v])
    <2>1. \A v \in Uid : Unfilled(order'[v], order[v])
      BY <1>1, <1>3, MarkedAlike
    <2>2. \A v \in Uid : order'[v].display = order[v].display /\ order'[v].hidden = order[v].hidden
      BY <1>1, <1>3 DEF Marked, Order
    <2>3. QED
      BY <2>1, <2>2 DEF AsShown
  <1>4. CASE ~Moves
    <2>1. CASE OrdersStay
      BY <1>2, <2>1 DEF OrdersStay
    <2>2. CASE SomeRetires
      <3>1. PICK u, st : Retires(u, st)
        BY <2>2 DEF SomeRetires
      <3>2. u \in Uid /\ order' = Marked(order, u, st)
        BY <3>1 DEF Retires
      <3>3. QED
        BY <1>3, <3>2
    <2>3. QED
      BY <1>4, <2>1, <2>2, StepsSorted
  <1>5. CASE \E u \in Uid : ParkStop(u) \/ StartMatch(u)
    BY <1>2, <1>5 DEF ParkStop, StartMatch
  <1>6. CASE StpCancelNewest \/ Rest
    <2>1. \E st : order' = Marked(order, cur, st)
      BY <1>6 DEF StpCancelNewest, Rest
    <2>2. cur \in Uid
      BY <1>6, CurKnown DEF StpCancelNewest, Rest, Matching, PlacesInv
    <2>3. QED
      BY <1>3, <2>1, <2>2
  <1>7. QED
    BY <1>4, <1>5, <1>6 DEF Alters, Moves

(* A fill takes no more off an order's tranches than it trades.            *)
LEMMA FillCovers ==
  ASSUME NEW o \in Order, NEW lv, NEW u, NEW n \in Nat, NEW p \in Order, Cover(p), n <= Remaining(p),
         p.type = o.type, p.display = o.display, p.hidden = o.hidden, p.quantity = o.quantity,
         o.filled = p.filled + n,
         NEW f, f = UpdateVolumeAfterFill(lv, o, u, n), NEW q \in Order,
         q.type = o.type, q.quantity = o.quantity, q.filled = o.filled,
         q.display = f.order.display, q.hidden = f.order.hidden
  PROVE  Cover(q) /\ Fits(o, n)
  <1>1. /\ o.display \in Nat /\ o.hidden \in Nat /\ o.slice \in Nat /\ o.quantity \in Nat /\ o.filled \in Nat
        /\ p.filled \in Nat
    BY DEF Order
  <1>2. Remaining(q) + n = Remaining(p) /\ Remaining(q) \in Nat /\ Remaining(p) \in Nat
    BY <1>1 DEF Remaining, Clip
  <1>3. Fits(o, n)
    BY <1>1, <1>2 DEF Fits, Cover
  <1>4. CASE o.type = "ICEBERG"
    <2> DEFINE shown == Least(o.display, n)
               fresh == Replenishment(o)
    <2>1. shown \in Nat /\ shown <= o.display /\ shown <= n /\ fresh \in Nat /\ fresh <= o.hidden
      BY <1>1 DEF Least, Replenishment
    <2>2. \/ q.display + q.hidden = o.hidden /\ o.display - shown = 0
          \/ q.display + q.hidden = o.display - shown + o.hidden
      BY <1>1, <1>4, <2>1, SMTT(20) DEF UpdateVolumeAfterFill, FillIceberg, Order
    <2>3. Remaining(p) <= o.display + o.hidden
      BY DEF Cover
    <2> HIDE DEF shown, fresh
    <2>4. Remaining(q) <= q.display + q.hidden
      BY <1>1, <1>2, <2>1, <2>2, <2>3
    <2>5. QED
      BY <1>3, <1>4, <2>4 DEF Cover
  <1>5. CASE o.type = "HIDDEN"
    <2>1. q.display = o.display /\ q.hidden = Clip(o.hidden - n)
      BY <1>1, <1>5 DEF UpdateVolumeAfterFill, FillHidden, Order
    <2>2. Remaining(q) <= q.hidden /\ q.hidden \in Nat
      BY <1>1, <1>2, <1>5, <2>1 DEF Cover, Clip
    <2>3. QED
      BY <1>1, <1>2, <1>3, <1>5, <2>1, <2>2 DEF Cover
  <1>6. CASE o.type \notin {"ICEBERG", "HIDDEN"}
    <2>1. q.display = Clip(o.display - n) /\ q.hidden = o.hidden
      BY <1>1, <1>6 DEF UpdateVolumeAfterFill, FillVisible, Order
    <2>2. Remaining(q) <= q.display /\ q.display \in Nat
      BY <1>1, <1>2, <1>6, <2>1 DEF Cover, Clip
    <2>3. QED
      BY <1>1, <1>2, <1>3, <1>6, <2>1, <2>2 DEF Cover
  <1>7. QED
    BY <1>4, <1>5, <1>6

-----------------------------------------------------------------------------
(* What each step leaves of volumes that add up.                           *)

LEMMA ConsumedShows ==
  ASSUME PlacesInv, EngineInv', Matching, TopLevel.queue # << >>, NEW o \in Order, NEW final,
         Consume(o, Overlap, final), NEW f, f = UpdateVolumeAfterFill(TopLevel, o, Maker, Overlap)
  PROVE  /\ order'[Maker].display = f.order.display /\ order'[Maker].hidden = f.order.hidden
         /\ SameVolumes(Uid \ {Maker}, order', order)
         /\ f.order \in Order /\ f.level.queue \in Seq(Uid) /\ IsInjective(f.level.queue)
         /\ f.level.queue # << >>
  <1>1. /\ Maker \in Uid /\ cur \in Uid /\ Maker # cur /\ Overlap \in Nat /\ Maker \in ToSet(TopLevel.queue)
        /\ order \in [Uid -> Order] /\ TopLevel \in Level /\ IsInjective(TopLevel.queue)
    BY MakerFacts, TopFacts, PlaceFacts
  <1>2. IsQueued(TopLevel, Maker) /\ Holds(TopLevel, Uid)
    BY <1>1, QueuedIs DEF Level, Holds
  <1>3. f.order \in Order
    BY <1>1, <1>2, FillHolds
  <1>4. /\ f.level.queue \in Seq(Uid) /\ IsInjective(f.level.queue) /\ f.level.queue # << >>
    BY <1>1, FillQueue
  <1>5. order' = [order EXCEPT ![Maker] = IF Remaining(o) = 0 THEN [f.order EXCEPT !.status = final] ELSE f.order,
                               ![cur].filled = @ + Overlap]
    BY DEF Consume
  <1> HIDE DEF Maker, Overlap
  <1>6. order'[Maker] \in {f.order, [f.order EXCEPT !.status = final]}
    BY <1>1, <1>5
  <1>7. order'[Maker].display = f.order.display /\ order'[Maker].hidden = f.order.hidden
    BY <1>3, <1>6 DEF Order
  <1>8. order'[cur] = [order[cur] EXCEPT !.filled = @ + Overlap]
    BY <1>1, <1>5
  <1>9. order'[cur].display = order[cur].display /\ order'[cur].hidden = order[cur].hidden
    BY <1>1, <1>8 DEF Order
  <1>10. \A v \in Uid \ {Maker, cur} : order'[v] = order[v]
    BY <1>1, <1>5
  <1>11. QED
    BY <1>3, <1>4, <1>7, <1>9, <1>10 DEF SameVolumes

LEMMA ConsumeAddsUp ==
  ASSUME PlacesInv, EngineInv', Matching, TopLevel.queue # << >>, NEW o \in Order, NEW final,
         Consume(o, Overlap, final), o.display = order[Maker].display, o.hidden = order[Maker].hidden,
         NEW exact \in BOOLEAN, exact => Fits(o, Overlap), BookAddsUp(exact, book, order)
  PROVE  BookAddsUp(exact, book', order')
  <1> DEFINE f == UpdateVolumeAfterFill(TopLevel, o, Maker, Overlap)
             lv == IF Remaining(o) = 0 THEN PopHead(f.level, order') ELSE f.level
  <1>1. /\ order'[Maker].display = f.order.display /\ order'[Maker].hidden = f.order.hidden
        /\ SameVolumes(Uid \ {Maker}, order', order)
        /\ f.level.queue \in Seq(Uid) /\ IsInjective(f.level.queue) /\ f.level.queue # << >>
    BY ConsumedShows
  <1>2. /\ Maker \in Uid /\ Overlap \in Nat /\ Maker \in ToSet(TopLevel.queue)
        /\ order \in [Uid -> Order] /\ order' \in [Uid -> Order] /\ Contra \in Side /\ Top \in Tick
        /\ TopLevel \in Level /\ IsInjective(TopLevel.queue) /\ TopLevel = book.level[Contra][Top]
        /\ ToSet(TopLevel.queue) \subseteq Uid
    <2>1. Maker \in Uid /\ Overlap \in Nat /\ Maker \in ToSet(TopLevel.queue) /\ pc = "match" /\ HasSide(book, Contra)
      BY MakerFacts
    <2>2. /\ Contra \in Side /\ Top \in Tick /\ TopLevel \in Level /\ IsInjective(TopLevel.queue)
          /\ TopLevel = book.level[Contra][Top] /\ TopLevel.queue \in Seq(Uid)
      BY <2>1, TopFacts
    <2>3. ToSet(TopLevel.queue) \subseteq Uid
      BY <2>2, ToSetFacts
    <2>4. order \in [Uid -> Order] /\ order' \in [Uid -> Order]
      BY PlaceFacts DEF EngineInv, OrdersOK
    <2>5. QED
      BY <2>1, <2>2, <2>3, <2>4
  <1>3. book' = BookWith(book.live, book, Contra, Top, lv,
                         IF Remaining(o) = 0 THEN [book.map EXCEPT ![o.oid] = None] ELSE book.map)
    BY DEF Consume, BookWith
  <1>4. Written(book', book, Contra, Top, lv)
    BY <1>3 DEF Written
  <1>5. AddsUp(exact, TopLevel, order)
    BY <1>2 DEF BookAddsUp
  <1>6. SameVolumes(ToSet(TopLevel.queue) \ {Maker}, order', order)
    BY <1>1, <1>2 DEF SameVolumes
  <1>7. SameVolumes(Resting(book) \ ToSet(TopLevel.queue), order', order)
    <2>1. Resting(book) \subseteq Uid
      BY PlaceFacts
    <2>2. QED
      BY <1>1, <1>2, <2>1 DEF SameVolumes
  <1> HIDE DEF Maker, TopLevel, Overlap, Contra, Top
  <1>8. AddsUp(exact, f.level, order')
    BY <1>1, <1>2, <1>5, <1>6, FillAddsUp
  <1> HIDE DEF f
  <1>9. AddsUp(exact, lv, order')
    BY <1>1, <1>2, <1>8, PopAddsUp
  <1> HIDE DEF lv
  <1>10. Booked(book, order, next_id)
    BY BookedNow
  <1>11. QED
    BY <1>2, <1>4, <1>7, <1>9, <1>10, OneLevelAddsUp

LEMMA RemoveBooked ==
  ASSUME NEW ord \in [Uid -> Order], NEW n, NEW b, Booked(b, ord, n), NEW u \in Uid,
         NEW c, c = RemoveOrder(b, ord, u)
  PROVE  Booked(c, ord, n) /\ u \notin OnBook(c)
  <1>1. n \in 0 .. MaxOrders /\ BookOK(b, ord, n) /\ Placed(b, ord) /\ Named(b.map, ord)
    BY DEF Booked
  <1>2. BookOK(c, ord, n)
    BY <1>1, RemoveOrderOK
  <1>3. Thinner(c, b) /\ u \notin OnBook(c)
    BY <1>1, RemovePlaced
  <1>4. Placed(c, ord) /\ Named(c.map, ord)
    BY <1>1, <1>2, <1>3, ThinnerPlaced
  <1>5. QED
    BY <1>1, <1>2, <1>3, <1>4 DEF Booked

(* Taken off the book, an order may change as it likes.                    *)
LEMMA TakenOffAddsUp ==
  ASSUME PlacesInv, EngineInv', NEW u \in Uid, book' = RemoveOrder(book, order, u),
         \A v \in Uid : v # u => order'[v] = order[v],
         NEW exact \in BOOLEAN, BookAddsUp(exact, book, order)
  PROVE  BookAddsUp(exact, book', order')
  <1>1. Booked(book, order, next_id) /\ order \in [Uid -> Order] /\ order' \in [Uid -> Order]
    BY BookedNow DEF EngineInv, OrdersOK
  <1>2. BookAddsUp(exact, book', order)
    BY <1>1, RemoveOrderAddsUp
  <1>3. Booked(book', order, next_id) /\ u \notin OnBook(book')
    BY <1>1, RemoveBooked
  <1>4. IsABook(book')
    BY <1>3 DEF IsABook, Booked
  <1>5. Resting(book') \subseteq Uid \ {u}
    <2>1. Resting(book') \subseteq OnBook(book') /\ next_id \in 0 .. MaxOrders /\ OnBook(book') \subseteq 1 .. next_id
      BY <1>3, WhoRests DEF OnBook, Booked
    <2>2. QED
      BY <1>3, <2>1, BoundAssumption DEF Uid
  <1>6. SameVolumes(Resting(book'), order', order)
    BY <1>5 DEF SameVolumes
  <1>7. QED
    BY <1>1, <1>2, <1>4, <1>6, BookSame

LEMMA CancelAddsUp ==
  ASSUME PlacesInv, EngineInv', NEW oid \in OrderId, CancelEffect(oid),
         \A u \in Uid : AsShown(order'[u], order[u]),
         NEW exact \in BOOLEAN, BookAddsUp(exact, book, order)
  PROVE  BookAddsUp(exact, book', order')
  <1>1. /\ order \in [Uid -> Order] /\ order' \in [Uid -> Order] /\ IsABook(book)
        /\ SameVolumes(Resting(book), order', order)
    <2>1. order \in [Uid -> Order] /\ order' \in [Uid -> Order] /\ Booked(book, order, next_id)
      BY BookedNow DEF EngineInv, OrdersOK
    <2>2. Resting(book) \subseteq Uid
      BY PlaceFacts
    <2>3. QED
      BY <2>1, <2>2 DEF SameVolumes, AsShown, IsABook, Booked
  <1>2. CASE CancelResting(oid)
    <2> DEFINE u == book.map[oid]
    <2>1. u # None /\ book' = RemoveOrder(book, order, u) /\ order' = Marked(order, u, "CANCELED")
      BY <1>2 DEF CancelResting
    <2>2. u \in Uid
      <3>1. u \in 0 .. next_id /\ 1 .. next_id \subseteq Uid /\ next_id \in Nat
        BY PlaceFacts DEF BookOK
      <3>2. QED
        BY <2>1, <3>1 DEF None
    <2>3. \A v \in Uid : v # u => order'[v] = order[v]
      BY <1>1, <2>1 DEF Marked
    <2> HIDE DEF u
    <2>4. QED
      BY <2>1, <2>2, <2>3, TakenOffAddsUp
  <1>3. CASE ~CancelResting(oid)
    <2>1. book' = book
      BY <1>3 DEF CancelEffect, CancelStop, CancelUnknown
    <2>2. QED
      BY <1>1, <2>1, BookSame
  <1>4. QED
    BY <1>2, <1>3

LEMMA DropAddsUp ==
  ASSUME PlacesInv, EngineInv', DropDrained, NEW exact \in BOOLEAN, BookAddsUp(exact, book, order)
  PROVE  BookAddsUp(exact, book', order')
  <1>1. /\ book' = BookWith([book.live EXCEPT ![Contra] = @ \ {Top}], book, Contra, Top, NewLevel, book.map)
        /\ Contra \in Side /\ Top \in Tick /\ order' = order
    BY DropIs
  <1>2. Written(book', book, Contra, Top, NewLevel)
    BY <1>1 DEF Written
  <1>3. Booked(book, order, next_id) /\ order \in [Uid -> Order]
    BY BookedNow
  <1>4. AddsUp(exact, NewLevel, order)
    BY NewLevelAddsUp
  <1>5. SameVolumes(Resting(book) \ ToSet(book.level[Contra][Top].queue), order, order)
    BY DEF SameVolumes
  <1> HIDE DEF Contra, Top
  <1>6. BookAddsUp(exact, book', order)
    BY <1>1, <1>2, <1>3, <1>4, <1>5, OneLevelAddsUp
  <1>7. QED
    BY <1>1, <1>6

LEMMA CancelOldestAddsUp ==
  ASSUME PlacesInv, EngineInv', StpCancelOldest, \A u \in Uid : AsShown(order'[u], order[u]),
         NEW exact \in BOOLEAN, BookAddsUp(exact, book, order)
  PROVE  BookAddsUp(exact, book', order')
  <1> DEFINE lv == PopHead(TopLevel, order)
  <1>1. /\ book' = BookWith(book.live, book, Contra, Top, lv, [book.map EXCEPT ![order[Maker].oid] = None])
        /\ Matching /\ TopLevel.queue # << >>
    BY CancelOldestIs
  <1>2. Written(book', book, Contra, Top, lv)
    BY <1>1 DEF Written
  <1>3. /\ Booked(book, order, next_id) /\ order \in [Uid -> Order] /\ order' \in [Uid -> Order]
        /\ Resting(book) \subseteq Uid
    BY BookedNow, PlaceFacts DEF EngineInv, OrdersOK
  <1>4. /\ Contra \in Side /\ Top \in Tick /\ TopLevel.queue \in Seq(Uid) /\ IsInjective(TopLevel.queue)
        /\ TopLevel = book.level[Contra][Top]
    BY <1>1, MakerFacts, TopFacts
  <1>5. AddsUp(exact, TopLevel, order)
    BY <1>4 DEF BookAddsUp
  <1>6. AddsUp(exact, lv, order)
    BY <1>1, <1>3, <1>4, <1>5, PopAddsUp
  <1>7. SameVolumes(Resting(book) \ ToSet(book.level[Contra][Top].queue), order, order)
    BY DEF SameVolumes
  <1> HIDE DEF Contra, Top, lv
  <1>8. BookAddsUp(exact, book', order)
    BY <1>2, <1>3, <1>4, <1>6, <1>7, OneLevelAddsUp
  <1>9. IsABook(book') /\ Resting(book') \subseteq Uid
    <2>1. BookOK(book', order', next_id') /\ next_id' \in 0 .. MaxOrders
      BY NextBookOK
    <2>2. OnBook(book') \subseteq 1 .. next_id'
      BY <2>1, WhoRests
    <2>3. QED
      BY <2>1, <2>2, BoundAssumption DEF IsABook, OnBook, Uid
  <1>10. SameVolumes(Resting(book'), order', order)
    BY <1>9 DEF SameVolumes, AsShown
  <1>11. QED
    BY <1>3, <1>8, <1>9, <1>10, BookSame

LEMMA RestAddsUp ==
  ASSUME PlacesInv, EngineInv', Rest, \A u \in Uid : AsShown(order'[u], order[u]),
         NEW exact \in BOOLEAN, BookAddsUp(exact, book, order)
  PROVE  BookAddsUp(exact, book', order')
  <1>1. pc = "residual" /\ book' = InsertOrder(book, order, cur)
    BY DEF Rest
  <1>2. cur \in Uid /\ cur \notin Resting(book)
    <2>1. cur \in InHand /\ cur \in Uid
      BY <1>1, CurKnown DEF InHand, PlacesInv
    <2>2. QED
      BY <2>1, PlaceFacts DEF Apart
  <1>3. Booked(book, order, next_id) /\ order \in [Uid -> Order] /\ order' \in [Uid -> Order]
    BY BookedNow DEF EngineInv, OrdersOK
  <1>4. BookAddsUp(exact, book', order)
    BY <1>1, <1>2, <1>3, InsertOrderAddsUp
  <1>5. IsABook(book') /\ Resting(book') \subseteq Uid
    <2>1. BookOK(book', order', next_id') /\ next_id' \in 0 .. MaxOrders
      BY NextBookOK
    <2>2. OnBook(book') \subseteq 1 .. next_id'
      BY <2>1, WhoRests
    <2>3. QED
      BY <2>1, <2>2, BoundAssumption DEF IsABook, OnBook, Uid
  <1>6. SameVolumes(Resting(book'), order', order)
    BY <1>5 DEF SameVolumes, AsShown
  <1>7. QED
    BY <1>3, <1>4, <1>5, <1>6, BookSame

(* The book between the two halves of a requote: without the order, it is  *)
(* in order for the orders as they will be.                                *)
LEMMA RequotedBook ==
  ASSUME PlacesInv, EngineInv', NEW oid \in OrderId, NEW am \in Amendments, ModifyRequote(oid, am),
         NEW u, u = book.map[oid], NEW c, c = RemoveOrder(book, order, u)
  PROVE  /\ book' = InsertOrder(c, order', u) /\ next_id' = next_id
         /\ u \in Uid /\ Booked(book, order, next_id) /\ order \in [Uid -> Order] /\ order' \in [Uid -> Order]
         /\ Booked(c, order, next_id) /\ Booked(c, order', next_id)
         /\ u \notin Resting(c) /\ SameVolumes(Resting(c), order', order)
  <1> DEFINE p == Requoted(order[u], am, clock + 1)
  <1>1. /\ order' = [order EXCEPT ![u] = p] /\ book' = InsertOrder(c, order', u) /\ Modifiable(oid)
        /\ next_id' = next_id
    BY DEF ModifyRequote
  <1>2. u \in Uid /\ u \in 1 .. next_id
    BY <1>1, ModifiableKnown DEF PlacesInv
  <1>3. Booked(book, order, next_id) /\ order \in [Uid -> Order] /\ order' \in [Uid -> Order]
    BY BookedNow DEF EngineInv, OrdersOK
  <1>4. p.oid = order[u].oid /\ p.side = order[u].side
    BY <1>2, <1>3 DEF Requoted, Order
  <1>5. \A v \in Uid : v # u => order'[v] = order[v]
    BY <1>1, <1>3
  <1>6. \A v \in Uid : order'[v].oid = order[v].oid /\ order'[v].side = order[v].side
    BY <1>1, <1>2, <1>3, <1>4
  <1> HIDE DEF p
  <1>7. Booked(c, order, next_id) /\ u \notin OnBook(c)
    BY <1>2, <1>3, RemoveBooked
  <1>8. Resting(c) \subseteq Uid \ {u} /\ next_id \in 0 .. MaxOrders /\ 1 .. next_id \subseteq Uid
    <2>1. next_id \in 0 .. MaxOrders /\ BookOK(c, order, next_id)
      BY <1>7 DEF Booked
    <2>2. OnBook(c) \subseteq 1 .. next_id
      BY <2>1, WhoRests
    <2>3. QED
      BY <1>7, <2>1, <2>2, PlaceFacts DEF OnBook
  <1>9. Booked(c, order', next_id)
    <2>1. BookOK(c, order, next_id) /\ Placed(c, order) /\ Named(c.map, order)
      BY <1>7 DEF Booked
    <2>2. BookOK(c, order', next_id)
      BY <1>6, <1>8, <2>1, BookStays
    <2>3. /\ \A v \in 1 .. next_id : order'[v].oid = order[v].oid
          /\ \A v \in Resting(c) : order'[v].side = order[v].side /\ order'[v].price = order[v].price
      BY <1>5, <1>6, <1>8
    <2>4. Placed(c, order') /\ Named(c.map, order')
      BY <1>8, <2>1, <2>3, Relabelled
    <2>5. QED
      BY <1>8, <2>2, <2>4 DEF Booked
  <1>10. SameVolumes(Resting(c), order', order)
    BY <1>5, <1>8 DEF SameVolumes
  <1>11. QED
    BY <1>1, <1>2, <1>3, <1>7, <1>8, <1>9, <1>10

(* modify_order moves an order: out of its level, and into the other.      *)
LEMMA RequoteAddsUp ==
  ASSUME PlacesInv, EngineInv', NEW oid \in OrderId, NEW am \in Amendments, ModifyRequote(oid, am),
         NEW exact \in BOOLEAN, BookAddsUp(exact, book, order)
  PROVE  BookAddsUp(exact, book', order')
  <1> DEFINE u == book.map[oid]
             c == RemoveOrder(book, order, u)
  <1> HIDE DEF u, c
  <1>1. /\ book' = InsertOrder(c, order', u)
        /\ u \in Uid /\ Booked(book, order, next_id) /\ order \in [Uid -> Order] /\ order' \in [Uid -> Order]
        /\ Booked(c, order, next_id) /\ Booked(c, order', next_id)
        /\ u \notin Resting(c) /\ SameVolumes(Resting(c), order', order)
    BY RequotedBook DEF u, c
  <1>2. BookAddsUp(exact, c, order)
    BY <1>1, RemoveOrderAddsUp DEF c
  <1>3. IsABook(c)
    BY <1>1 DEF IsABook, Booked
  <1>4. BookAddsUp(exact, c, order')
    BY <1>1, <1>2, <1>3, BookSame
  <1>5. BookAddsUp(exact, InsertOrder(c, order', u), order')
    BY <1>1, <1>4, InsertOrderAddsUp
  <1>6. QED
    BY <1>1, <1>5

(* modify_order takes lots off an order that shows all its lots: off its   *)
(* level as well.  (Of a hidden order it takes off what is left, too,      *)
(* should a crossing amendment have left more hidden than its quantity.)   *)
LEMMA ReduceAddsUp ==
  ASSUME PlacesInv, EngineInv', MappedRest, NEW oid \in OrderId, NEW am \in Amendments, ModifyReduce(oid, am),
         order[book.map[oid]].type \notin {"ICEBERG", "HIDDEN"},
         NEW exact \in BOOLEAN, BookAddsUp(exact, book, order)
  PROVE  BookAddsUp(exact, book', order')
  <1> DEFINE u == book.map[oid]
             o == order[u]
             s == o.side
             t == TicksOf(o.price)
             lv == ReducedLevel(book.level[s][t], o, am)
             k == DisplayCut(o, am)
  <1>1. /\ u # None /\ order' = [order EXCEPT ![u] = Reduced(o, am)] /\ Modifiable(oid)
        /\ ~AmendsToNothing(o, am) /\ ~LosesPriority(o, am)
        /\ book' = [book EXCEPT !.level[o.side][TicksOf(o.price)] = ReducedLevel(@, o, am)]
    BY DEF ModifyReduce, Modifiable
  <1>2. u \in Resting(book)
    BY <1>1 DEF MappedRest, Mapped
  <1>3. Booked(book, order, next_id) /\ order \in [Uid -> Order] /\ order' \in [Uid -> Order] /\ book \in Book
    BY BookedNow DEF EngineInv, OrdersOK
  <1>4. /\ s \in Side /\ t \in Tick /\ book.level[s][t] \in Level /\ u \in ToSet(book.level[s][t].queue)
        /\ u \in Uid /\ o \in Order
    BY <1>2, <1>3, RestsAtHome DEF Home
  <1>5. book' = BookWith(book.live, book, s, t, lv, book.map)
    BY <1>1, <1>3 DEF Book, BookWith
  <1>6. Written(book', book, s, t, lv)
    BY <1>5 DEF Written
  <1>7. am \in Amendment
    BY <1>1, ModifiableKnown DEF PlacesInv
  <1>8. k \in Nat /\ k <= o.display /\ o.display \in Nat /\ o.hidden \in Nat
    <2>1. o.display \in Nat /\ o.hidden \in Nat /\ o.quantity \in Nat /\ am.quantity \in Nat
      BY <1>4, <1>7 DEF Order, Amendment
    <2>2. am.quantity <= o.quantity
      BY <1>1, <2>1 DEF LosesPriority
    <2>3. k = Least(o.display, o.quantity - am.quantity)
      BY DEF DisplayCut
    <2> HIDE DEF o, k
    <2>4. QED
      BY <2>1, <2>2, <2>3 DEF Least
  <1>9. /\ ToSet(lv.queue) = ToSet(book.level[s][t].queue)
        /\ lv.total = Clip(book.level[s][t].total - k) + 0 /\ lv.hidden = Clip(book.level[s][t].hidden - 0)
    <2>1. lv.queue = book.level[s][t].queue /\ lv.total = Clip(book.level[s][t].total - k)
          /\ lv.hidden = Clip(book.level[s][t].hidden - 0)
      BY <1>4 DEF ReducedLevel, Level
    <2>2. book.level[s][t].total - k \in Int
      BY <1>4, <1>8 DEF Level
    <2>3. lv.total \in Nat
      BY <2>1, <2>2, ClipType
    <2> HIDE DEF lv, k, s, t
    <2>4. lv.total = lv.total + 0
      BY <2>3
    <2>5. QED
      BY <2>1, <2>4
  <1>10. order'[u].display = Clip(o.display - k) + 0 /\ order'[u].hidden = Clip(o.hidden - 0)
    <2>1. order'[u].display = o.display - k /\ order'[u].hidden = o.hidden
      BY <1>1, <1>3, <1>4 DEF Reduced, Order
    <2>2. Clip(o.display - k) + 0 = o.display - k /\ Clip(o.hidden - 0) = o.hidden
      BY <1>8 DEF Clip
    <2>3. QED
      BY <2>1, <2>2
  <1>11. Turned(lv, book.level[s][t], order', order, u, k, 0, 0)
    BY <1>9, <1>10 DEF Turned
  <1>12. \A v \in Uid : v # u => order'[v] = order[v]
    BY <1>1, <1>3
  <1>13. AddsUp(exact, book.level[s][t], order) /\ ToSet(book.level[s][t].queue) \subseteq Uid
    <2>1. AddsUp(exact, book.level[s][t], order)
      BY <1>4 DEF BookAddsUp
    <2>2. book.level[s][t].queue \in Seq(Uid)
      BY <1>4 DEF Level
    <2> HIDE DEF s, t
    <2>3. QED
      BY <2>1, <2>2, ToSetFacts
  <1>14. Resting(book) \subseteq Uid
    BY PlaceFacts
  <1>15. /\ SameVolumes(ToSet(book.level[s][t].queue) \ {u}, order', order)
         /\ SameVolumes(Resting(book) \ ToSet(book.level[s][t].queue), order', order)
    BY <1>4, <1>12, <1>13, <1>14 DEF SameVolumes
  <1>16. exact => k <= order[u].display /\ 0 <= order[u].hidden
    BY <1>8
  <1> HIDE DEF lv, s, t, u, k
  <1>17. AddsUp(exact, lv, order')
    BY <1>3, <1>4, <1>8, <1>11, <1>13, <1>15, <1>16, TurnedAddsUp
  <1>18. QED
    BY <1>3, <1>4, <1>6, <1>15, <1>17, OneLevelAddsUp

LEMMA ChargeAddsUp ==
  ASSUME PlacesInv, EngineInv', StpDecrement \/ Execute, NEW exact \in BOOLEAN, exact => Covered,
         BookAddsUp(exact, book, order)
  PROVE  BookAddsUp(exact, book', order') /\ (Covered => Covered')
  <1>1. Matching /\ TopLevel.queue # << >>
    BY DEF StpDecrement, Execute, Prevents
  <1>2. /\ Maker \in Uid /\ cur \in Uid /\ Maker # cur /\ Overlap \in Nat /\ order[Maker] \in Order
        /\ order[cur] \in Order /\ order' \in [Uid -> Order] /\ order \in [Uid -> Order]
    BY <1>1, MakerFacts, PlaceFacts DEF EngineInv, OrdersOK
  <1>3. PICK o \in Order, final \in OrderStatus :
           /\ Consume(o, Overlap, final) /\ Unfilled(order'[Maker], o) /\ o \in {Executed, Decremented}
    <2>1. /\ Execute => Consume(Executed, Overlap, "FILLED") /\ Unfilled(order'[Maker], Executed)
          /\ StpDecrement => Consume(Decremented, Overlap, "CANCELED") /\ Unfilled(order'[Maker], Decremented)
      BY ExecutePlaces, DecrementPlaces DEF Execute, StpDecrement, Executed, Decremented
    <2>2. Executed \in Order /\ Decremented \in Order
      BY <1>1, ChargedFacts
    <2>3. QED
      BY <2>1, <2>2 DEF OrderStatus
  <1>4. /\ o.display = order[Maker].display /\ o.hidden = order[Maker].hidden /\ o.type = order[Maker].type
        /\ o.quantity = order[Maker].quantity /\ o.filled = order[Maker].filled + Overlap
    <2>1. Executed.display = order[Maker].display /\ Executed.hidden = order[Maker].hidden
          /\ Decremented.display = order[Maker].display /\ Decremented.hidden = order[Maker].hidden
      BY <1>2 DEF Executed, Decremented, Order
    <2>2. QED
      BY <1>1, <1>3, <2>1, ChargedFacts
  <1> DEFINE f == UpdateVolumeAfterFill(TopLevel, o, Maker, Overlap)
  <1>5. /\ order'[Maker].display = f.order.display /\ order'[Maker].hidden = f.order.hidden
        /\ SameVolumes(Uid \ {Maker}, order', order)
    BY <1>1, <1>3, ConsumedShows
  <1>6. /\ order'[Maker] \in Order /\ order'[Maker].type = o.type /\ order'[Maker].quantity = o.quantity
        /\ order'[Maker].filled = o.filled
    BY <1>2, <1>3 DEF Unfilled, Steady
  <1>7. Overlap <= Remaining(order[Maker])
    <2>1. Remaining(order[Maker]) \in Nat /\ Remaining(order[cur]) \in Nat
      BY <1>2 DEF Remaining, Clip, Order
    <2>2. QED
      BY <2>1 DEF Overlap, Least
  <1>8. Covered => Cover(order[Maker])
    BY <1>2 DEF Covered
  <1> HIDE DEF Maker, Overlap
  <1>9. Covered => Cover(order'[Maker]) /\ Fits(o, Overlap)
    BY <1>2, <1>3, <1>4, <1>5, <1>6, <1>7, <1>8, FillCovers
  <1>10. BookAddsUp(exact, book', order')
    <2>1. exact => Fits(o, Overlap)
      BY <1>9
    <2>2. QED
      BY <1>1, <1>3, <1>4, <2>1, ConsumeAddsUp DEF Maker, Overlap
  <1>11. ASSUME Covered PROVE Covered'
    <2>1. /\ \A v \in Uid : v \notin {cur, Maker} => order'[v] = order[v]
          /\ order'[cur] = [order[cur] EXCEPT !.filled = @ + Overlap]
      BY ExecutePlaces, DecrementPlaces DEF Maker, Overlap
    <2>2. Cover(order'[cur])
      <3>1. Cover(order[cur])
        BY <1>2, <1>11 DEF Covered
      <3>2. /\ order'[cur].type = order[cur].type /\ order'[cur].display = order[cur].display
            /\ order'[cur].hidden = order[cur].hidden
            /\ Remaining(order'[cur]) <= Remaining(order[cur])
            /\ Remaining(order'[cur]) \in Nat /\ Remaining(order[cur]) \in Nat
            /\ order[cur].display \in Nat /\ order[cur].hidden \in Nat
        BY <1>2, <2>1 DEF Remaining, Clip, Order
      <3>3. QED
        BY <3>1, <3>2 DEF Cover
    <2>3. QED
      BY <1>9, <1>11, <2>1, <2>2 DEF Covered
  <1>12. QED
    BY <1>10, <1>11

(* Amendments that take lots off an order where it stands are taken off    *)
(* its level alike, if the order has no hidden part.                       *)
AmendsShown == Amendments = {} \/ (NoneOf("ICEBERG") /\ NoneOf("HIDDEN") /\ MappedRest)

LEMMA StepAddsUp ==
  ASSUME PlacesInv, EngineInv', [Next]_vars, AmendsShown, NEW exact \in BOOLEAN, exact => Covered,
         BookAddsUp(exact, book, order)
  PROVE  BookAddsUp(exact, book', order')
  <1>1. /\ order \in [Uid -> Order] /\ order' \in [Uid -> Order] /\ IsABook(book)
        /\ Resting(book) \subseteq 1 .. next_id /\ 1 .. next_id \subseteq Uid
        /\ next_id \in 0 .. MaxOrders /\ BookOK(book, order, next_id)
    <2>1. order \in [Uid -> Order] /\ order' \in [Uid -> Order] /\ Booked(book, order, next_id)
      BY BookedNow DEF EngineInv, OrdersOK
    <2>2. next_id \in 0 .. MaxOrders /\ BookOK(book, order, next_id)
      BY <2>1 DEF Booked
    <2>3. Resting(book) \subseteq 1 .. next_id /\ 1 .. next_id \subseteq Uid
      BY PlaceFacts
    <2>4. IsABook(book)
      BY <2>2 DEF IsABook
    <2>5. QED
      BY <2>1, <2>2, <2>3, <2>4
  <1>2. ASSUME book' = book, SameVolumes(Resting(book), order', order)
        PROVE  BookAddsUp(exact, book', order')
    BY <1>1, <1>2, BookSame
  <1>3. CASE StpDecrement \/ Execute
    BY <1>3, ChargeAddsUp
  <1>4. ASSUME NEW tk \in Tickets, Submit(tk) PROVE BookAddsUp(exact, book', order')
    <2>1. book' = book /\ \A v \in Uid : v # next_id + 1 => order'[v] = order[v]
      BY <1>1, <1>4 DEF Submit
    <2>2. next_id + 1 \notin Resting(book)
      BY <1>1
    <2>3. SameVolumes(Resting(book), order', order)
      BY <1>1, <2>1, <2>2 DEF SameVolumes
    <2>4. QED
      BY <1>2, <2>1, <2>3
  <1>5. ASSUME NEW u \in Uid, Trigger(u) PROVE BookAddsUp(exact, book', order')
    <2>1. book' = book /\ order' = [order EXCEPT ![u] = Triggered(@, order[cur].timestamp)]
      BY <1>5 DEF Trigger
    <2>2. order'[u].display = order[u].display /\ order'[u].hidden = order[u].hidden
      BY <1>1, <2>1 DEF Triggered, Order
    <2>3. SameVolumes(Resting(book), order', order)
      BY <1>1, <2>1, <2>2 DEF SameVolumes
    <2>4. QED
      BY <1>2, <2>1, <2>3
  <1>6. ASSUME NEW oid \in OrderId, NEW am \in Amendments,
               ModifyToNothing(oid, am) \/ ModifyAcross(oid, am) \/ ModifyRequote(oid, am) \/ ModifyReduce(oid, am)
        PROVE  BookAddsUp(exact, book', order')
    <2>1. book.map[oid] # None /\ book.map[oid] \in 1 .. next_id
      <3>1. Modifiable(oid)
        BY <1>6 DEF ModifyToNothing, ModifyAcross, ModifyRequote, ModifyReduce
      <3>2. QED
        BY <3>1, ModifiableKnown DEF PlacesInv, Modifiable
    <2>2. CASE ModifyToNothing(oid, am) \/ ModifyAcross(oid, am)
      <3> DEFINE u == book.map[oid]
      <3>1. u \in Uid /\ book' = RemoveOrder(book, order, u)
        BY <1>1, <2>1, <2>2 DEF ModifyToNothing, ModifyAcross
      <3>2. \A v \in Uid : v # u => order'[v] = order[v]
        BY <1>1, <2>2 DEF ModifyToNothing, ModifyAcross, Marked
      <3> HIDE DEF u
      <3>3. QED
        BY <3>1, <3>2, TakenOffAddsUp
    <2>3. CASE ModifyRequote(oid, am)
      BY <2>3, RequoteAddsUp
    <2>4. CASE ModifyReduce(oid, am)
      <3>1. MappedRest /\ order[book.map[oid]].type \notin {"ICEBERG", "HIDDEN"}
        BY <1>6, <2>1 DEF AmendsShown, NoneOf
      <3>2. QED
        BY <2>4, <3>1, ReduceAddsUp
    <2>5. QED
      BY <1>6, <2>2, <2>3, <2>4
  <1>7. CASE ~Alters /\ ~(StpDecrement \/ Execute)
    <2>1. \A u \in Uid : AsShown(order'[u], order[u])
      BY <1>7, StepShown
    <2>2. SameVolumes(Resting(book), order', order)
      BY <1>1, <2>1 DEF SameVolumes, AsShown
    <2>3. CASE book' = book
      BY <1>2, <2>2, <2>3
    <2>4. CASE TakesOff
      <3>1. PICK oid \in OrderId : CancelEffect(oid) \/ \E am \in Amendments : ModifyToNothing(oid, am) \/ ModifyAcross(oid, am)
        BY <2>4 DEF TakesOff
      <3>2. QED
        BY <1>6, <2>1, <3>1, CancelAddsUp
    <2>5. CASE DropDrained
      BY <2>5, DropAddsUp
    <2>6. CASE StpCancelOldest
      BY <2>1, <2>6, CancelOldestAddsUp
    <2>7. CASE Rest
      BY <2>1, <2>7, RestAddsUp
    <2>8. QED
      BY <1>6, <1>7, <2>3, <2>4, <2>5, <2>6, <2>7, BookSteps
  <1>8. QED
    BY <1>3, <1>4, <1>5, <1>6, <1>7 DEF Alters

-----------------------------------------------------------------------------
(* The volumes are those of the orders while participants ask for visible  *)
(* tranches of icebergs and hidden orders only, and amend nothing.         *)

ShownWhole ==
  \A tk \in Tickets : tk.type \notin {"ICEBERG", "HIDDEN"} /\ tk.display > 0 => tk.quantity <= tk.display

LEMMA NewCover ==
  ASSUME ShownWhole, NEW tk \in Tickets, NEW oid \in OrderId, NEW now \in Nat
  PROVE  Cover(NewOrder(tk, oid, now))
  <1> DEFINE o == NewOrder(tk, oid, now)
  <1>1. tk \in Ticket /\ tk.quantity \in Nat /\ tk.display \in Nat /\ tk.type \in OrderType
    BY InputAssumption DEF Ticket
  <1>2. /\ o.type = tk.type /\ o.quantity = tk.quantity /\ o.filled = 0
        /\ o.display = FirstTranche(tk) /\ o.hidden = FirstHidden(tk)
    BY DEF NewOrder
  <1>3. Remaining(o) = tk.quantity
    BY <1>1, <1>2 DEF Remaining, Clip
  <1> SUFFICES Cover(o)
    OBVIOUS
  <1> HIDE DEF o
  <1>4. CASE tk.type = "ICEBERG"
    <2>1. FirstHidden(tk) = tk.quantity - FirstTranche(tk) /\ FirstTranche(tk) \in Nat
      BY <1>1, <1>4 DEF FirstHidden, FirstTranche, Least
    <2>2. QED
      BY <1>1, <1>2, <1>3, <1>4, <2>1 DEF Cover
  <1>5. CASE tk.type = "HIDDEN"
    <2>1. FirstTranche(tk) = 0
      BY <1>5 DEF FirstTranche
    <2>2. FirstHidden(tk) = tk.quantity
      BY <1>1, <1>5, <2>1 DEF FirstHidden
    <2>3. QED
      BY <1>1, <1>2, <1>3, <1>5, <2>1, <2>2 DEF Cover
  <1>6. CASE tk.type \notin {"ICEBERG", "HIDDEN"}
    <2>1. FirstHidden(tk) = 0
      BY <1>6 DEF FirstHidden
    <2>2. CASE tk.display > 0
      <3>1. FirstTranche(tk) = tk.display
        BY <1>6, <2>2 DEF FirstTranche
      <3>2. tk.quantity <= tk.display
        BY <1>6, <2>2 DEF ShownWhole
      <3>3. QED
        BY <1>1, <1>2, <1>3, <1>6, <2>1, <3>1, <3>2 DEF Cover
    <2>3. CASE ~(tk.display > 0)
      <3>1. FirstTranche(tk) = tk.quantity
        BY <1>6, <2>3 DEF FirstTranche
      <3>2. QED
        BY <1>1, <1>2, <1>3, <1>6, <2>1, <3>1 DEF Cover
    <2>4. QED
      BY <2>2, <2>3
  <1>7. QED
    BY <1>4, <1>5, <1>6

LEMMA StepCovered ==
  ASSUME PlacesInv, EngineInv', [Next]_vars, Amendments = {}, ShownWhole, Covered,
         BookAddsUp(TRUE, book, order)
  PROVE  Covered'
  <1>1. order \in [Uid -> Order] /\ next_id \in Nat
    BY PlaceFacts
  <1>2. CASE StpDecrement \/ Execute
    BY <1>2, ChargeAddsUp
  <1>3. ASSUME NEW tk \in Tickets, Submit(tk) PROVE Covered'
    <2>1. /\ order' = [order EXCEPT ![next_id + 1] = NewOrder(tk, IdOf[next_id + 1], clock + 1)]
          /\ next_id + 1 \in Uid /\ clock + 1 \in Nat
      BY <1>1, <1>3, BoundAssumption DEF Submit, ClockTicks, Uid, PlacesInv, EngineInv
    <2>2. IdOf[next_id + 1] \in OrderId
      BY <2>1, InputAssumption
    <2>3. Cover(NewOrder(tk, IdOf[next_id + 1], clock + 1))
      BY <2>1, <2>2, NewCover
    <2>4. QED
      BY <1>1, <2>1, <2>3 DEF Covered
  <1>4. ASSUME NEW u \in Uid, Trigger(u) PROVE Covered'
    <2>1. order' = [order EXCEPT ![u] = Triggered(order[u], order[cur].timestamp)]
      BY <1>4 DEF Trigger
    <2>2. /\ order'[u].quantity = order[u].quantity /\ order'[u].filled = order[u].filled
          /\ order'[u].display = order[u].display /\ order'[u].hidden = order[u].hidden
          /\ order'[u].type = order[u].type
             \/ (order'[u].type \in {"MARKET", "LIMIT"} /\ order[u].type \in {"STOP", "STOP_LIMIT"})
      BY <1>1, <2>1 DEF Triggered, Order
    <2>3. Cover(order'[u])
      BY <2>2 DEF Covered, Cover, Remaining
    <2>4. QED
      BY <1>1, <2>1, <2>3 DEF Covered
  <1>5. CASE ~Alters /\ ~(StpDecrement \/ Execute)
    BY <1>5, StepShown, ShownCover DEF Covered
  <1>6. QED
    BY <1>2, <1>3, <1>4, <1>5 DEF Alters

LEMMA InitAddsUp ==
  ASSUME Init, NEW exact \in BOOLEAN
  PROVE  Covered /\ BookAddsUp(exact, book, order) /\ MappedRest /\ \A ty : ty # "LIMIT" => NoneOf(ty)
  <1>1. /\ next_id = 0 /\ book = EmptyBook /\ \A u \in Uid : order[u] = Blank
    BY DEF Init
  <1>2. Cover(Blank)
    BY DEF Cover, Blank, Remaining, Clip
  <1>3. \A s \in Side, t \in Tick : book.level[s][t] = NewLevel
    BY <1>1 DEF EmptyBook
  <1>4. Mapped(book.map) = {}
    BY <1>1 DEF EmptyBook, Mapped
  <1>5. BookAddsUp(exact, book, order)
    BY <1>3, NewLevelAddsUp DEF BookAddsUp
  <1>6. \A ty : ty # "LIMIT" => NoneOf(ty)
    BY <1>1 DEF NoneOf, Blank
  <1>7. QED
    BY <1>1, <1>2, <1>4, <1>5, <1>6 DEF Covered, MappedRest

-----------------------------------------------------------------------------
(* The sums of the properties.                                             *)

LEMMA LevelSums ==
  ASSUME PlacesInv, NEW exact \in BOOLEAN, BookAddsUp(exact, book, order), NEW s \in Side, NEW t \in Tick
  PROVE  /\ Agrees(exact, book.level[s][t].total, RestingAt(book, s, t), Displays(order))
         /\ Agrees(exact, book.level[s][t].hidden, RestingAt(book, s, t), Hiddens(order))
         /\ RestingAt(book, s, t) \subseteq Uid
         /\ ShownLots(s, t) = SumFunctionOnSet(Displays(order), RestingAt(book, s, t))
         /\ HiddenLots(s, t) = SumFunctionOnSet(Hiddens(order), RestingAt(book, s, t))
  <1>1. BookOK(book, order, next_id) /\ next_id \in 0 .. MaxOrders
    BY PlaceFacts
  <1>2. /\ RestingAt(book, s, t) = ToSet(book.level[s][t].queue)
        /\ book.level[s][t].queue \in Seq(Uid)
    BY <1>1, QueueType
  <1>3. ToSet(book.level[s][t].queue) \subseteq Uid
    BY <1>2, ToSetFacts
  <1>4. AddsUp(exact, book.level[s][t], order)
    BY DEF BookAddsUp
  <1>5. QED
    BY <1>2, <1>3, <1>4 DEF AddsUp, ShownLots, HiddenLots, Displays, Hiddens

(* Term by term no more, no more in all.                                   *)
LEMMA SumLeast ==
  ASSUME NEW S, IsFiniteSet(S), NEW f, NEW e, Ints(f, S), Ints(e, S), \A x \in S : f[x] <= e[x]
  PROVE  SumFunctionOnSet(f, S) <= SumFunctionOnSet(e, S)
  <1> DEFINE d == [x \in S |-> e[x] - f[x]]
  <1>1. \A x \in S : d[x] \in Nat /\ d[x] = e[x] - f[x]
    BY DEF Ints
  <1> HIDE DEF d
  <1>2. SumFunctionOnSet(d, S) = SumFunctionOnSet(e, S) - SumFunctionOnSet(f, S)
    BY <1>1, SumMinus
  <1>3. SumFunctionOnSet(d, S) \in Nat
    BY <1>1, SumNat
  <1>4. SumFunctionOnSet(e, S) \in Int /\ SumFunctionOnSet(f, S) \in Int
    BY SumInt
  <1>5. QED
    BY <1>2, <1>3, <1>4

LEMMA SumBoth ==
  ASSUME NEW S, IsFiniteSet(S), NEW f, NEW e, NEW d, Ints(f, S), Ints(e, S), \A x \in S : d[x] = f[x] + e[x]
  PROVE  SumFunctionOnSet(d, S) = SumFunctionOnSet(f, S) + SumFunctionOnSet(e, S)
  <1>1. Ints(d, S) /\ \A x \in S : f[x] = d[x] - e[x]
    BY DEF Ints
  <1>2. SumFunctionOnSet(f, S) = SumFunctionOnSet(d, S) - SumFunctionOnSet(e, S)
    BY <1>1, SumMinus
  <1>3. SumFunctionOnSet(d, S) \in Int /\ SumFunctionOnSet(e, S) \in Int
    BY <1>1, SumInt
  <1>4. QED
    BY <1>2, <1>3

LEMMA LevelCovers ==
  ASSUME PlacesInv, Covered, BookAddsUp(TRUE, book, order), NEW s \in Side, NEW t \in Tick
  PROVE  /\ RestingLots(s, t) \in Nat
         /\ RestingLots(s, t) <= VolumeOf(book.level[s][t])
         /\ VolumeOf(book.level[s][t]) \in Nat
  <1> DEFINE S == RestingAt(book, s, t)
             r == [u \in Uid |-> Remaining(order[u])]
             f == Displays(order)
             g == Hiddens(order)
             d == [u \in Uid |-> f[u] + g[u]]
  <1>1. /\ book.level[s][t].total = SumFunctionOnSet(f, S) /\ book.level[s][t].hidden = SumFunctionOnSet(g, S)
        /\ S \subseteq Uid
    BY LevelSums DEF Agrees
  <1>2. order \in [Uid -> Order]
    BY PlaceFacts
  <1>3. Lotted(f) /\ Lotted(g) /\ \A u \in Uid : f[u] = order[u].display /\ g[u] = order[u].hidden
    BY <1>2, OrdersLotted
  <1> HIDE DEF f, g
  <1>4. Lotted(r)
    BY <1>2 DEF Lotted, Remaining, Clip, Order
  <1>5. \A u \in Uid : r[u] <= d[u]
    BY <1>3 DEF Covered, Cover
  <1>6. Lotted(d) /\ \A u \in S : d[u] = f[u] + g[u]
    BY <1>1, <1>3 DEF Lotted
  <1>7. RestingLots(s, t) = SumFunctionOnSet(r, S)
    BY DEF RestingLots
  <1>8. book.level[s][t] \in Level
    BY PlaceFacts DEF BookOK, Book
  <1>9. book.level[s][t].queue = << >> => S = {}
    BY DEF RestingAt
  <1> HIDE DEF S, r, d
  <1>10. /\ IsFiniteSet(S) /\ Ints(f, S) /\ Ints(g, S) /\ Ints(r, S) /\ Ints(d, S)
         /\ SumFunctionOnSet(r, S) \in Nat
    BY <1>1, <1>3, <1>4, <1>6, UidsFinite
  <1>11. SumFunctionOnSet(d, S) = SumFunctionOnSet(f, S) + SumFunctionOnSet(g, S)
    BY <1>6, <1>10, SumBoth
  <1>12. SumFunctionOnSet(r, S) <= SumFunctionOnSet(d, S)
    BY <1>1, <1>5, <1>10, SumLeast
  <1>13. RestingLots(s, t) <= book.level[s][t].total + book.level[s][t].hidden
    BY <1>1, <1>7, <1>11, <1>12
  <1>14. book.level[s][t].queue = << >> => RestingLots(s, t) = 0
    BY <1>7, <1>9, SumEmpty
  <1>15. VolumeOf(book.level[s][t]) \in Nat
    BY <1>8 DEF Level, VolumeOf
  <1>16. QED
    BY <1>7, <1>10, <1>13, <1>14, <1>15 DEF VolumeOf

Volumes(b, s) == [t \in Tick |-> VolumeOf(b.level[s][t])]

LEMMA VolumeAtOne ==
  ASSUME PlacesInv, NEW s \in Side, NEW t \in Tick
  PROVE  VolumeAt(book, s, {t}) = VolumeOf(book.level[s][t])
  <1> DEFINE f == Volumes(book, s)
  <1>1. book \in Book
    BY PlaceFacts DEF BookOK
  <1>2. f[t] = VolumeOf(book.level[s][t]) /\ f[t] \in Int
    BY <1>1 DEF Volumes, VolumeOf, Book, Level
  <1>3. VolumeAt(book, s, {t}) = SumFunctionOnSet(f, {t})
    BY DEF VolumeAt, Volumes
  <1> HIDE DEF f
  <1>4. SumFunctionOnSet(f, {} \cup {t}) = f[t] + SumFunctionOnSet(f, {})
    BY <1>2, SumAdd, FS_EmptySet DEF Ints
  <1>5. SumFunctionOnSet(f, {}) = 0 /\ {} \cup {t} = {t}
    BY SumEmpty
  <1>6. QED
    BY <1>2, <1>3, <1>4, <1>5

-----------------------------------------------------------------------------
VolumeInv == PlacesInv /\ Covered /\ BookAddsUp(TRUE, book, order)

LEMMA StepVolumes ==
  ASSUME Amendments = {}, ShownWhole
  PROVE  VolumeInv /\ [Next]_vars => VolumeInv'
  <1>1. SUFFICES ASSUME VolumeInv, [Next]_vars PROVE VolumeInv'
    OBVIOUS
  <1>2. PlacesInv' /\ EngineInv'
    BY <1>1, StepPlaces DEF VolumeInv, PlacesInv
  <1>3. AmendsShown
    BY DEF AmendsShown
  <1>4. BookAddsUp(TRUE, book', order')
    BY <1>1, <1>2, <1>3, StepAddsUp DEF VolumeInv
  <1>5. BookAddsUp(TRUE, book, order)'
    BY <1>4 DEF BookAddsUp
  <1>6. Covered'
    BY <1>1, <1>2, StepCovered DEF VolumeInv
  <1>7. QED
    BY <1>2, <1>5, <1>6 DEF VolumeInv

(* A level's volumes are the sums over its queue, through every mixture of *)
(* fills, cancels and replenishments, while nothing is amended and nobody  *)
(* asks a plain order to show less than it has: update_volume_after_fill   *)
(* takes a whole fill off the level, and clips only the order's display.   *)
THEOREM VolumesExact ==
  ASSUME Amendments = {}, ShownWhole
  PROVE  Spec => []VolumesAddUp
  <1>1. Init => VolumeInv
    BY InitPlaces, InitAddsUp DEF VolumeInv
  <1>2. VolumeInv => VolumesAddUp
    <2>1. SUFFICES ASSUME VolumeInv, NEW x \in Places
                   PROVE  /\ book.level[x[1]][x[2]].total = ShownLots(x[1], x[2])
                          /\ book.level[x[1]][x[2]].hidden = HiddenLots(x[1], x[2])
      BY DEF VolumesAddUp
    <2>2. x[1] \in Side /\ x[2] \in Tick
      BY DEF Places
    <2>3. QED
      BY <2>1, <2>2, LevelSums DEF VolumeInv, Agrees
  <1>3. VolumeInv /\ [Next]_vars => VolumeInv'
    BY StepVolumes
  <1>4. QED
    BY <1>1, <1>2, <1>3, PTL DEF Spec

(* A level never shows less than its orders can still trade, on the same   *)
(* conditions: what _can_fill_completely counts is no less than what       *)
(* _match finds.                                                           *)
THEOREM VolumesCover ==
  ASSUME Amendments = {}, ShownWhole
  PROVE  Spec => []VolumesCoverRemaining
  <1>1. Init => VolumeInv
    BY InitPlaces, InitAddsUp DEF VolumeInv
  <1>2. VolumeInv => VolumesCoverRemaining
    <2>1. SUFFICES ASSUME VolumeInv, NEW x \in Places
                   PROVE  VolumeAt(book, x[1], {x[2]}) >= RestingLots(x[1], x[2])
      BY DEF VolumesCoverRemaining
    <2>2. x[1] \in Side /\ x[2] \in Tick
      BY DEF Places
    <2>3. /\ RestingLots(x[1], x[2]) \in Nat /\ VolumeOf(book.level[x[1]][x[2]]) \in Nat
          /\ RestingLots(x[1], x[2]) <= VolumeOf(book.level[x[1]][x[2]])
      BY <2>1, <2>2, LevelCovers DEF VolumeInv
    <2>4. VolumeAt(book, x[1], {x[2]}) = VolumeOf(book.level[x[1]][x[2]])
      BY <2>1, <2>2, VolumeAtOne DEF VolumeInv
    <2>5. QED
      BY <2>3, <2>4
  <1>3. VolumeInv /\ [Next]_vars => VolumeInv'
    BY StepVolumes
  <1>4. QED
    BY <1>1, <1>2, <1>3, PTL DEF Spec

(* No more than the sums: what holds of the volumes through amendments too.*)
VolumeBound == PlacesInv /\ AmendsShown /\ BookAddsUp(FALSE, book, order)

NoneHidden == Amendments = {} \/ (NeverSent("ICEBERG") /\ NeverSent("HIDDEN"))

LEMMA StepBound ==
  ASSUME NoneHidden
  PROVE  VolumeBound /\ [Next]_vars => VolumeBound'
  <1>1. SUFFICES ASSUME VolumeBound, [Next]_vars PROVE VolumeBound'
    OBVIOUS
  <1>2. PlacesInv' /\ EngineInv' /\ PlacesInv
    BY <1>1, StepPlaces DEF VolumeBound, PlacesInv
  <1>3. BookAddsUp(FALSE, book', order')
    BY <1>1, <1>2, StepAddsUp DEF VolumeBound
  <1>4. BookAddsUp(FALSE, book, order)'
    BY <1>3 DEF BookAddsUp
  <1>5. AmendsShown'
    <2>1. CASE Amendments = {}
      BY <2>1 DEF AmendsShown
    <2>2. CASE Amendments # {}
      <3>1. NeverSent("ICEBERG") /\ NeverSent("HIDDEN") /\ NoneOf("ICEBERG") /\ NoneOf("HIDDEN") /\ MappedRest
        BY <1>1, <2>2 DEF NoneHidden, VolumeBound, AmendsShown
      <3>2. NoneOf("ICEBERG")' /\ NoneOf("HIDDEN")'
        BY <1>1, <1>2, <3>1, TypesStay
      <3>3. MappedRest'
        BY <1>1, <1>2, <3>1, StepMapped
      <3>4. QED
        BY <3>2, <3>3 DEF AmendsShown
    <2>3. QED
      BY <2>1, <2>2
  <1>6. QED
    BY <1>2, <1>4, <1>5 DEF VolumeBound

(* A level's volumes never exceed the sums over its queue, whatever is     *)
(* matched, cancelled and modified, if what is modified has no hidden      *)
(* part: a level whose last order leaves is empty to is_empty.             *)
THEOREM VolumesBounded ==
  ASSUME NoneHidden
  PROVE  Spec => []VolumesNeverExceed
  <1>1. Init => VolumeBound
    <2>1. SUFFICES ASSUME Init PROVE VolumeBound
      OBVIOUS
    <2>2. BookAddsUp(FALSE, book, order) /\ MappedRest /\ NoneOf("ICEBERG") /\ NoneOf("HIDDEN")
      BY <2>1, InitAddsUp
    <2>3. QED
      BY <2>1, <2>2, InitPlaces DEF VolumeBound, AmendsShown
  <1>2. VolumeBound => VolumesNeverExceed
    <2>1. SUFFICES ASSUME VolumeBound, NEW x \in Places
                   PROVE  /\ book.level[x[1]][x[2]].total <= ShownLots(x[1], x[2])
                          /\ book.level[x[1]][x[2]].hidden <= HiddenLots(x[1], x[2])
      BY DEF VolumesNeverExceed
    <2>2. x[1] \in Side /\ x[2] \in Tick
      BY DEF Places
    <2>3. QED
      BY <2>1, <2>2, LevelSums DEF VolumeBound, Agrees
  <1>3. VolumeBound /\ [Next]_vars => VolumeBound'
    BY StepBound
  <1>4. QED
    BY <1>1, <1>2, <1>3, PTL DEF Spec

-----------------------------------------------------------------------------
(* Fill-or-kill: who is refused, and how much there was to trade.          *)

Spared == \A v \in Uid : order'[v].status = "REJECTED" => order[v].status = "REJECTED"

Refused(u) ==
  /\ RejectInvalid(u) \/ RejectStop(u) \/ RejectUnfillable(u) \/ RejectTaker(u)
  /\ order' = Marked(order, u, "REJECTED")

LEMMA MarkSpares ==
  ASSUME order \in [Uid -> Order], NEW u \in Uid, NEW st, st # "REJECTED" \/ st = order[u].status,
         order' = Marked(order, u, st)
  PROVE  Spared
  BY MarkedAlike DEF Spared

LEMMA OtherSpares ==
  ASSUME order \in [Uid -> Order], NEW u \in Uid, order'[u].status # "REJECTED" \/ order'[u].status = order[u].status,
         \A v \in Uid : v # u => order'[v] = order[v]
  PROVE  Spared
  BY DEF Spared

LEMMA CancelSpares ==
  ASSUME PlacesInv, EngineInv', NEW oid \in OrderId, CancelEffect(oid),
         UNCHANGED <<next_id, pending, pc, cur, trades>>
  PROVE  Spared
  <1>1. order \in [Uid -> Order]
    BY PlaceFacts
  <1>2. CASE OrdersStay
    BY <1>2 DEF OrdersStay, Spared
  <1>3. ASSUME NEW u, Retires(u, "CANCELED") PROVE Spared
    BY <1>1, <1>3, MarkSpares DEF Retires
  <1>4. QED
    BY <1>2, <1>3, CancelRetires

LEMMA OnlyRejects ==
  ASSUME PlacesInv, EngineInv', [Next]_vars
  PROVE  Spared \/ \E u \in Uid : Refused(u)
  <1>1. order \in [Uid -> Order] /\ next_id \in Nat
    BY PlaceFacts
  <1>2. ASSUME order' = order PROVE Spared
    BY <1>2 DEF Spared
  <1>3. ASSUME NEW tk \in Tickets, Submit(tk) PROVE Spared
    <2>1. /\ next_id + 1 \in Uid /\ order'[next_id + 1].status = "NEW"
          /\ \A v \in Uid : v # next_id + 1 => order'[v] = order[v]
      BY <1>3, SubmitFacts
    <2>2. QED
      BY <1>1, <2>1, OtherSpares
  <1>4. ASSUME NEW oid \in OrderId, Cancel(oid) \/ SweepOne(oid) PROVE Spared
    BY <1>4, CancelSpares DEF Cancel, SweepOne
  <1>5. ASSUME NEW oid \in OrderId, NEW am \in Amendments, ModifyToNothing(oid, am) PROVE Spared
    <2>1. book.map[oid] \in Uid /\ order' = Marked(order, book.map[oid], "CANCELED")
      BY <1>5, ModifiableKnown DEF ModifyToNothing, PlacesInv
    <2>2. QED
      BY <1>1, <2>1, MarkSpares
  <1>6. ASSUME NEW oid \in OrderId, NEW am \in Amendments,
               ModifyAcross(oid, am) \/ ModifyRequote(oid, am) \/ ModifyReduce(oid, am)
        PROVE  Spared
    <2> DEFINE u == book.map[oid]
    <2>1. u \in Uid /\ order[u] \in Order /\ \A v \in Uid : v # u => order'[v] = order[v]
      BY <1>1, <1>6, AmendedTimes
    <2>2. order'[u].status = "REPLACED"
      <3> DEFINE across == [order[u] EXCEPT !.price = am.price, !.quantity = am.quantity,
                                            !.display = Least(order[u].display, am.quantity),
                                            !.timestamp = clock + 1, !.status = "REPLACED"]
                 o == order[u]
      <3>1. /\ Requoted(o, am, clock + 1).status = "REPLACED" /\ Reduced(o, am).status = "REPLACED"
            /\ across.status = "REPLACED"
        BY <2>1 DEF Requoted, Reduced, Order
      <3>2. \/ order' = [order EXCEPT ![u] = across] \/ order' = [order EXCEPT ![u] = Requoted(o, am, clock + 1)]
            \/ order' = [order EXCEPT ![u] = Reduced(o, am)]
        BY <1>6 DEF ModifyAcross, ModifyRequote, ModifyReduce
      <3> HIDE DEF across, o, u
      <3>3. QED
        BY <1>1, <2>1, <3>1, <3>2
    <2> HIDE DEF u
    <2>3. QED
      BY <1>1, <2>1, <2>2, OtherSpares
  <1>7. ASSUME NEW u \in Uid, Trigger(u) PROVE Spared
    <2>1. order' = [order EXCEPT ![u] = Triggered(order[u], order[cur].timestamp)]
      BY <1>7 DEF Trigger
    <2>2. order'[u].status = "TRIGGERED"
      BY <1>1, <2>1 DEF Triggered, Order
    <2>3. QED
      BY <1>1, <2>1, <2>2, OtherSpares
  <1>8. ASSUME NEW u \in Uid, RejectInvalid(u) \/ RejectStop(u) \/ RejectUnfillable(u) \/ RejectTaker(u)
        PROVE  Refused(u)
    BY <1>8 DEF Refused, RejectInvalid, RejectStop, RejectUnfillable, RejectTaker, Reject
  <1>9. CASE StpDecrement \/ Execute
    <2>1. Matching /\ TopLevel.queue # << >>
      BY <1>9 DEF StpDecrement, Execute, Prevents
    <2>2. /\ \A v \in Uid : v \notin {cur, Maker} => order'[v] = order[v]
          /\ order'[cur] = [order[cur] EXCEPT !.filled = @ + Overlap]
          /\ order'[Maker].status \in {"FILLED", "CANCELED", Executed.status, Decremented.status}
      BY <1>9, ExecutePlaces, DecrementPlaces
    <2>3. /\ cur \in Uid /\ Maker \in Uid /\ order[cur] \in Order /\ order[Maker] \in Order
      BY <2>1, MakerFacts
    <2>4. Executed.status \in {order[Maker].status, "PARTIALLY_FILLED"} /\ Decremented.status = order[Maker].status
      BY <2>3 DEF Executed, Decremented, Order
    <2>5. order'[cur].status = order[cur].status
      BY <2>2, <2>3 DEF Order
    <2> HIDE DEF Maker
    <2>6. QED
      BY <2>2, <2>3, <2>4, <2>5 DEF Spared
  <1>10. CASE StpCancelNewest \/ Complete \/ Expire \/ Rest
    <2>1. cur \in Uid
      BY <1>10, CurKnown DEF StpCancelNewest, Complete, Expire, Rest, Matching, PlacesInv
    <2>2. \E st : (st # "REJECTED" \/ st = order[cur].status) /\ order' = Marked(order, cur, st)
      BY <1>10 DEF StpCancelNewest, Complete, Expire, Rest
    <2>3. QED
      BY <1>1, <2>1, <2>2, MarkSpares
  <1>11. CASE StpCancelOldest
    <2>1. Matching /\ TopLevel.queue # << >> /\ order' = Marked(order, Maker, "CANCELED")
      BY <1>11 DEF StpCancelOldest, Prevents
    <2>2. Maker \in Uid
      BY <2>1, MakerFacts
    <2> HIDE DEF Maker
    <2>3. QED
      BY <1>1, <2>1, <2>2, MarkSpares
  <1>12. CASE Call
    BY <1>2, <1>3, <1>4, <1>5, <1>6, <1>12 DEF Call, CancelAll
  <1>13. CASE Step
    <2>1. CASE \E u \in Uid : ParkStop(u) \/ StartMatch(u) \/ SkipCanceled(u)
      BY <1>2, <2>1 DEF ParkStop, StartMatch, SkipCanceled
    <2>2. CASE Drained \/ DropDrained \/ MatchDone \/ NoProgress \/ TriggersDone \/ SweepStops \/ SweepDone
      BY <1>2, <2>2 DEF Drained, DropDrained, MatchDone, NoProgress, TriggersDone, SweepStops, SweepDone, vars
    <2>3. QED
      BY <1>4, <1>7, <1>8, <1>9, <1>10, <1>11, <1>13, <2>1, <2>2 DEF Step
  <1>14. CASE UNCHANGED vars
    BY <1>2, <1>14 DEF vars
  <1>15. QED
    BY <1>12, <1>13, <1>14 DEF Next

LEMMA TicksFinite == IsFiniteSet(Tick)
  <1>1. Tick \subseteq Nat
    BY GridAssumption
  <1>2. CASE Tick = {}
    BY <1>2, FS_EmptySet
  <1>3. CASE Tick # {}
    <2>1. Tick \in (SUBSET Tick) \ {{}}
      BY <1>3
    <2>2. PICK m \in Tick : \A t \in Tick : t <= m
      BY <2>1, GridAssumption
    <2>3. Tick \subseteq 0 .. m /\ m \in Nat
      BY <1>1, <2>2
    <2>4. IsFiniteSet(0 .. m)
      BY <2>3, FS_Interval
    <2>5. QED
      BY <2>3, <2>4, FS_Subset
  <1>4. QED
    BY <1>2, <1>3

LEMMA TradableFits ==
  ASSUME VolumeInv, NEW o, o.side \in Side
  PROVE  /\ TradableFor(o) \in Nat
         /\ TradableFor(o) <= VolumeAt(book, Opposite(o.side), EligibleTicks(o))
         /\ VolumeAt(book, Opposite(o.side), EligibleTicks(o)) \in Int
  <1> DEFINE s == Opposite(o.side)
             T == EligibleTicks(o)
             f == [t \in Tick |-> RestingLots(s, t)]
             e == Volumes(book, s)
  <1>1. s \in Side /\ book \in Book
    BY PlaceFacts DEF Opposite, Side, VolumeInv, BookOK
  <1>2. T \subseteq Tick
    BY <1>1 DEF EligibleTicks, Book
  <1>3. IsFiniteSet(T)
    BY <1>2, TicksFinite, FS_Subset
  <1>4. \A t \in T : f[t] \in Nat /\ e[t] \in Int /\ f[t] <= e[t]
    <2>1. SUFFICES ASSUME NEW t \in T PROVE f[t] \in Nat /\ e[t] \in Int /\ f[t] <= e[t]
      OBVIOUS
    <2>2. t \in Tick
      BY <1>2
    <2>3. /\ RestingLots(s, t) \in Nat /\ VolumeOf(book.level[s][t]) \in Nat
          /\ RestingLots(s, t) <= VolumeOf(book.level[s][t])
      BY <1>1, <2>2, LevelCovers DEF VolumeInv
    <2>4. e[t] = VolumeOf(book.level[s][t]) /\ f[t] = RestingLots(s, t)
      BY <2>2 DEF Volumes
    <2> HIDE DEF e, f, s, T
    <2>5. QED
      BY <2>3, <2>4
  <1>5. TradableFor(o) = SumFunctionOnSet(f, T) /\ VolumeAt(book, s, T) = SumFunctionOnSet(e, T)
    BY DEF TradableFor, VolumeAt, Volumes
  <1>6. Ints(f, T) /\ Ints(e, T)
    <2> HIDE DEF f, e, s, T
    <2>1. QED
      BY <1>4 DEF Ints
  <1>7. TradableFor(o) \in Nat /\ TradableFor(o) <= VolumeAt(book, s, T) /\ VolumeAt(book, s, T) \in Int
    <2> HIDE DEF f, e, s, T
    <2>1. SumFunctionOnSet(f, T) \in Nat
      BY <1>3, <1>4, SumNat
    <2>2. SumFunctionOnSet(f, T) <= SumFunctionOnSet(e, T)
      BY <1>3, <1>4, <1>6, SumLeast
    <2>3. SumFunctionOnSet(e, T) \in Int
      BY <1>3, <1>6, SumInt
    <2>4. QED
      BY <1>5, <2>1, <2>2, <2>3
  <1>8. QED
    BY <1>7

FokShort(u) ==
  IsFok(order[u]) /\ ~RefusedAnyway(order[u])
  /\ order[u].status # "REJECTED" /\ order'[u].status = "REJECTED"
  => TradableFor(order[u]) < order[u].quantity

LEMMA StepFok ==
  ASSUME VolumeInv, EngineInv', [Next]_vars, NEW u \in Uid
  PROVE  FokShort(u)
  <1>1. SUFFICES ASSUME ~RefusedAnyway(order[u]), order[u].status # "REJECTED", order'[u].status = "REJECTED"
                 PROVE  TradableFor(order[u]) < order[u].quantity
    BY DEF FokShort
  <1>2. PlacesInv /\ order \in [Uid -> Order]
    BY PlaceFacts DEF VolumeInv
  <1>3. ~Spared
    BY <1>1 DEF Spared
  <1>4. PICK v \in Uid : Refused(v)
    BY <1>2, <1>3, OnlyRejects
  <1>5. v = u
    BY <1>1, <1>2, <1>4, MarkedAlike DEF Refused
  <1>6. FokFails(order[u])
    BY <1>1, <1>4, <1>5 DEF Refused, RefusedAnyway, RejectInvalid, RejectStop, RejectTaker, RejectUnfillable
  <1> DEFINE w == VolumeAt(book, Opposite(order[u].side), EligibleTicks(order[u]))
  <1>7. ~(w >= order[u].quantity)
    BY <1>6 DEF FokFails, CanFillCompletely
  <1>8. order[u].side \in Side /\ order[u].quantity \in Nat
    BY <1>2 DEF Order
  <1>9. TradableFor(order[u]) \in Nat /\ TradableFor(order[u]) <= w /\ w \in Int
    BY <1>8, TradableFits
  <1> HIDE DEF w
  <1>10. QED
    BY <1>7, <1>8, <1>9

(* A fill-or-kill order that no other check turns away is refused only     *)
(* when the orders within its limit have fewer lots left than it wants:    *)
(* _can_fill_completely never refuses what _match would fill, on the       *)
(* conditions under which volumes are exact.                               *)
THEOREM FokRefusedRightly ==
  ASSUME Amendments = {}, ShownWhole
  PROVE  Spec => FokRefusedOnlyIfShort
  <1>1. Init => VolumeInv
    BY InitPlaces, InitAddsUp DEF VolumeInv
  <1>2. VolumeInv /\ [Next]_vars => VolumeInv'
    BY StepVolumes
  <1>3. VolumeInv /\ VolumeInv' /\ [Next]_vars
        => [\A u \in Uid : IsFok(order[u]) /\ ~RefusedAnyway(order[u])
                            /\ order[u].status # "REJECTED" /\ order'[u].status = "REJECTED"
               => TradableFor(order[u]) < order[u].quantity]_vars
    <2>1. SUFFICES ASSUME VolumeInv, VolumeInv', [Next]_vars, NEW u \in Uid PROVE FokShort(u)
      BY DEF FokShort
    <2>2. EngineInv'
      BY <2>1 DEF VolumeInv, PlacesInv
    <2>3. QED
      BY <2>1, <2>2, StepFok
  <1>4. QED
    BY <1>1, <1>2, <1>3, PTL DEF Spec, FokRefusedOnlyIfShort

-----------------------------------------------------------------------------
(* Whoever rests is in the map, when order ids are unique.                 *)

RestMapped == Resting(book) \subseteq Mapped(book.map)

(* The map is free at the id of an order that is not in it.                *)
LEMMA FreeId ==
  ASSUME IsInjective(IdOf), PlacesInv, NamedByIds(order, next_id), NEW u \in 1 .. next_id,
         u \notin Mapped(book.map)
  PROVE  order[u].oid \in OrderId /\ book.map[order[u].oid] = None
  <1> DEFINE i == order[u].oid
             v == book.map[i]
  <1>1. order \in [Uid -> Order] /\ 1 .. next_id \subseteq Uid /\ Named(book.map, order)
    BY PlaceFacts
  <1>2. i \in OrderId
    BY <1>1 DEF Order
  <1>3. v \in 0 .. next_id
    BY <1>2, PlaceFacts DEF BookOK
  <1>4. SUFFICES ASSUME v # None PROVE FALSE
    BY <1>2
  <1>5. v \in 1 .. next_id /\ v # u
    BY <1>2, <1>3, <1>4, PlaceFacts DEF None, Mapped
  <1>6. order[v].oid = i
    BY <1>1, <1>2, <1>4 DEF Named
  <1> HIDE DEF v, i
  <1>7. IdOf[v] = IdOf[u]
    BY <1>5, <1>6 DEF NamedByIds, i
  <1>8. v \in DOMAIN IdOf /\ u \in DOMAIN IdOf
    BY <1>1, <1>5, InputAssumption
  <1>9. QED
    BY <1>5, <1>7, <1>8 DEF IsInjective

LEMMA StepRestMapped ==
  ASSUME IsInjective(IdOf), PlacesInv, EngineInv', NamedByIds(order, next_id), MappedRest, NoneOf("ICEBERG"),
         RestMapped, [Next]_vars
  PROVE  RestMapped'
  <1>1. CASE Stays
    BY <1>1 DEF Stays, RestMapped, Mapped
  <1>2. book.map \in [OrderId -> Uid \cup {None}] /\ Named(book.map, order) /\ 1 .. next_id \subseteq Uid
    BY BookedNow, PlaceFacts DEF Book
  <1>3. \A v \in Resting(book) : \E i \in OrderId : book.map[i] = v /\ v # None
    BY DEF RestMapped, Mapped
  <1>4. ASSUME NEW u, Leaves(u) PROVE RestMapped'
    <2>1. SUFFICES ASSUME NEW v \in Resting(book) \ {u} PROVE v \in Mapped(book'.map)
      BY <1>4 DEF RestMapped, Leaves
    <2>2. PICK i \in OrderId : book.map[i] = v /\ v # None
      BY <1>3
    <2>3. PICK j \in OrderId : book.map[j] = u /\ u # None
      BY <1>3, <1>4 DEF Leaves
    <2>4. order[u].oid = j
      BY <1>2, <2>3 DEF Named
    <2>5. book'.map[i] = v
      BY <1>2, <1>4, <2>1, <2>2, <2>3, <2>4 DEF Leaves
    <2>6. QED
      BY <2>2, <2>5 DEF Mapped
  <1>5. ASSUME Arrives(cur) PROVE RestMapped'
    <2>1. cur \notin Mapped(book.map) /\ cur \in 1 .. next_id
      BY <1>5 DEF Arrives, OnBook
    <2>2. order[cur].oid \in OrderId /\ book.map[order[cur].oid] = None
      BY <2>1, FreeId
    <2>3. SUFFICES ASSUME NEW v \in Resting(book) \cup {cur} PROVE v \in Mapped(book'.map)
      BY <1>5 DEF RestMapped, Arrives
    <2>4. cur # None
      BY <2>1 DEF None
    <2>5. CASE v = cur
      <3>1. book'.map[order[cur].oid] = cur
        BY <1>2, <1>5, <2>2 DEF Arrives
      <3>2. QED
        BY <2>2, <2>4, <2>5, <3>1 DEF Mapped
    <2>6. CASE v \in Resting(book)
      <3>1. PICK i \in OrderId : book.map[i] = v /\ v # None
        BY <1>3, <2>6
      <3>2. book'.map[i] = v
        BY <1>2, <1>5, <2>2, <3>1 DEF Arrives
      <3>3. QED
        BY <3>1, <3>2 DEF Mapped
    <2>7. QED
      BY <2>5, <2>6
  <1>6. QED
    BY <1>1, <1>4, <1>5, IndexSteps

-----------------------------------------------------------------------------
(* Every tick that has a level has somebody on it, but for the level that  *)
(* _match has just emptied.                                                *)

Filled(b) == \A s \in Side, t \in Tick : t \in b.live[s] => b.level[s][t].queue # << >>

LiveFilled ==
  \A s \in Side, t \in Tick :
     t \in book.live[s] /\ book.level[s][t].queue = << >> => pc = "match" /\ s = Contra /\ t = Top

LEMMA NobodyLeft ==
  ASSUME NEW lv, lv.queue = << >>, NEW ord, AddsUp(FALSE, lv, ord)
  PROVE  IsEmpty(lv)
  <1>1. ToSet(lv.queue) = {}
    BY EmptyQueue
  <1>2. lv.total \in Nat /\ lv.hidden \in Nat /\ lv.total <= 0 /\ lv.hidden <= 0
    BY <1>1, SumEmpty DEF AddsUp, Agrees
  <1>3. QED
    BY <1>2 DEF IsEmpty

LEMMA RemoveFilled ==
  ASSUME NEW ord \in [Uid -> Order], NEW n, NEW b, Booked(b, ord, n), NEW u \in Uid,
         BookAddsUp(FALSE, b, ord), Filled(b)
  PROVE  Filled(RemoveOrder(b, ord, u))
  <1> DEFINE o == ord[u]
             s == o.side
             t == TicksOf(o.price)
             d == [b EXCEPT !.map[o.oid] = None]
             lv == LevelRemove(b.level[s][t], o, u)
             c == RemoveOrder(b, ord, u)
  <1>1. b \in Book /\ o \in Order /\ s \in Side /\ o.oid \in OrderId
    BY DEF Booked, BookOK, Order
  <1>2. d \in Book /\ d.level = b.level /\ d.live = b.live
    BY <1>1 DEF Book, None
  <1>3. CASE ~(o.price # NoPrice /\ t \in b.live[s])
    <2>1. c = d
      BY <1>2, <1>3 DEF RemoveOrder, Book
    <2>2. QED
      BY <1>2, <2>1 DEF Filled
  <1>4. CASE o.price # NoPrice /\ t \in b.live[s]
    <2>1. t \in Tick
      BY <1>1, <1>4 DEF Book
    <2>2. b.level[s][t] \in Level /\ IsInjective(b.level[s][t].queue)
      BY <1>1, <2>1 DEF Booked, Placed, WellQueued, Book
    <2>3. Holds(b.level[s][t], Uid)
      BY <2>2 DEF Holds, Level
    <2>4. lv \in Level
      BY <1>1, <2>3, LevelRemoveHolds DEF Holds
    <2>5. AddsUp(FALSE, lv, ord)
      <3>1. AddsUp(FALSE, b.level[s][t], ord)
        BY <1>1, <2>1 DEF BookAddsUp
      <3>2. QED
        BY <2>2, <3>1, RemoveAddsUp
    <2>6. c = StoreLevel(d, s, t, lv)
      BY <1>2, <1>4 DEF RemoveOrder
    <2> HIDE DEF d, lv, s, t, c
    <2>7. c = BookWith(LiveWith(d, s, t, lv), d, s, t, lv, d.map)
      BY <1>1, <1>2, <2>1, <2>4, <2>6, StoreLevelIs
    <2>8. /\ c.level[s][t] = lv /\ c.live = LiveWith(d, s, t, lv)
          /\ \A x \in Side, y \in Tick : ~(x = s /\ y = t) => c.level[x][y] = d.level[x][y]
      BY <1>1, <1>2, <2>1, <2>7, BookWithFacts
    <2>9. \A x \in Side, y \in Tick : y \in c.live[x] => y \in b.live[x]
      BY <1>1, <1>2, <2>8, LiveWithShrinks
    <2>10. t \in c.live[s] => lv.queue # << >>
      <3>1. SUFFICES ASSUME lv.queue = << >> PROVE t \notin c.live[s]
        OBVIOUS
      <3>2. IsEmpty(lv)
        BY <2>5, <3>1, NobodyLeft
      <3>3. QED
        BY <1>1, <1>2, <2>8, <3>2 DEF LiveWith, Book
    <2>11. ASSUME NEW x \in Side, NEW y \in Tick, y \in c.live[x] PROVE c.level[x][y].queue # << >>
      <3>1. CASE x = s /\ y = t
        BY <2>8, <2>10, <2>11, <3>1
      <3>2. CASE ~(x = s /\ y = t)
        BY <1>2, <2>8, <2>9, <2>11, <3>2 DEF Filled
      <3>3. QED
        BY <3>1, <3>2
    <2>12. Filled(c)
      BY <2>11 DEF Filled
    <2>13. QED
      BY <2>12 DEF c
  <1>5. QED
    BY <1>3, <1>4

LEMMA InsertFilled ==
  ASSUME NEW ord \in [Uid -> Order], NEW n, NEW b, Booked(b, ord, n), NEW u \in Uid, Filled(b)
  PROVE  Filled(InsertOrder(b, ord, u))
  <1> DEFINE o == ord[u]
             s == o.side
             t == TicksOf(o.price)
             lv == LevelAppend(Home(b, o), o, u)
             live == [b.live EXCEPT ![s] = @ \cup {t}]
             c == InsertOrder(b, ord, u)
  <1>1. CASE o.price = NoPrice
    BY <1>1 DEF InsertOrder
  <1>2. CASE o.price # NoPrice
    <2>1. b \in Book /\ o \in Order /\ s \in Side /\ o.price \in Price
      BY <1>2 DEF Booked, BookOK, Order
    <2>2. t \in Tick
      BY <2>1, TicksOfType
    <2>3. lv.queue = Append(Home(b, o).queue, u)
      BY DEF LevelAppend
    <2>11. Home(b, o) = b.level[s][t]
      BY DEF Home
    <2>12. c = BookWith(live, b, s, t, lv, [b.map EXCEPT ![o.oid] = u])
      BY <1>2 DEF InsertOrder, BookWith, Home
    <2>4. Home(b, o).queue \in Seq(Uid)
      <3>1. b.level[s][t] \in Level
        BY <2>1, <2>2 DEF Book
      <3> HIDE DEF s, t, o
      <3>2. QED
        BY <2>11, <3>1 DEF Level
    <2>5. lv.queue # << >>
      BY <2>3, <2>4
    <2>6. \A x \in Side : live[x] \subseteq b.live[x] \cup (IF x = s THEN {t} ELSE {})
      BY <2>1 DEF Book
    <2> HIDE DEF live, lv, s, t, c
    <2>7. /\ c.level[s][t] = lv /\ c.live = live
          /\ \A x \in Side, y \in Tick : ~(x = s /\ y = t) => c.level[x][y] = b.level[x][y]
      BY <2>1, <2>2, <2>12, BookWithFacts
    <2>8. ASSUME NEW x \in Side, NEW y \in Tick, y \in c.live[x] PROVE c.level[x][y].queue # << >>
      BY <2>5, <2>6, <2>7, <2>8 DEF Filled
    <2>9. Filled(c)
      BY <2>8 DEF Filled
    <2>10. QED
      BY <2>9 DEF c
  <1>3. QED
    BY <1>1, <1>2

(* Before _match has found the best level drained, every level is filled.  *)
LEMMA NoneDrained ==
  ASSUME PlacesInv, BookAddsUp(FALSE, book, order), LiveFilled, pc # "match" \/ ~LevelDrained
  PROVE  Filled(book)
  <1>1. SUFFICES ASSUME NEW s \in Side, NEW t \in Tick, t \in book.live[s], book.level[s][t].queue = << >>
                 PROVE  FALSE
    BY DEF Filled
  <1>2. pc = "match" /\ s = Contra /\ t = Top
    BY <1>1 DEF LiveFilled
  <1>3. AddsUp(FALSE, book.level[s][t], order)
    BY DEF BookAddsUp
  <1>4. IsEmpty(book.level[s][t])
    BY <1>1, <1>3, NobodyLeft
  <1>5. HasSide(book, Contra)
    BY <1>1, <1>2 DEF HasSide
  <1>6. LevelDrained
    BY <1>2, <1>4, <1>5 DEF LevelDrained, TopLevel
  <1>7. QED
    BY <1>2, <1>6

LEMMA FilledNow == ASSUME Filled(book) PROVE LiveFilled
  BY DEF Filled, LiveFilled

(* The level that _match takes from may be left empty.                     *)
LEMMA MatchFilled ==
  ASSUME PlacesInv, EngineInv', Filled(book), StpCancelOldest \/ StpDecrement \/ Execute
  PROVE  LiveFilled'
  <1>1. Matching /\ TopLevel.queue # << >> /\ pc' = pc /\ cur' = cur
    BY DEF StpCancelOldest, StpDecrement, Execute, Prevents
  <1>2. pc = "match" /\ HasSide(book, Contra) /\ cur \in Uid /\ Maker \in Uid /\ Contra \in Side /\ Top \in Tick
    BY <1>1, MakerFacts, TopFacts
  <1>3. order'[cur].side = order[cur].side
    <2>1. CASE StpCancelOldest
      BY <1>2, <2>1, PlaceFacts, MarkedAlike DEF StpCancelOldest, Unfilled, Steady, Alike
    <2>2. CASE StpDecrement \/ Execute
      BY <1>2, <2>2, ChargesSteady DEF Steady, Alike
    <2>3. QED
      BY <2>1, <2>2
  <1>4. \E lv, map : book' = BookWith(book.live, book, Contra, Top, lv, map)
    <2>1. CASE StpCancelOldest
      BY <2>1, CancelOldestIs
    <2>2. CASE StpDecrement \/ Execute
      BY <2>2 DEF StpDecrement, Execute, Consume, BookWith
    <2>3. QED
      BY <2>1, <2>2
  <1>5. Contra' = Contra
    BY <1>1, <1>3 DEF Contra
  <1>6. /\ book'.live = book.live
        /\ \A x \in Side, y \in Tick : ~(x = Contra /\ y = Top) => book'.level[x][y] = book.level[x][y]
    <2>1. book \in Book
      BY BookedNow
    <2>2. PICK lv, map : book' = BookWith(book.live, book, Contra, Top, lv, map)
      BY <1>4
    <2> HIDE DEF Contra, Top
    <2>3. QED
      BY <1>2, <2>1, <2>2, BookWithFacts
  <1>7. Best(book', Contra) = Best(book, Contra)
    BY <1>6 DEF Best
  <1>8. Top' = Top
    BY <1>5, <1>7 DEF Top
  <1> HIDE DEF Contra, Top
  <1>9. ASSUME NEW s \in Side, NEW t \in Tick, t \in book'.live[s], book'.level[s][t].queue = << >>
        PROVE  pc' = "match" /\ s = Contra' /\ t = Top'
    <2>1. s = Contra /\ t = Top
      BY <1>6, <1>9 DEF Filled
    <2>2. QED
      BY <1>1, <1>2, <1>5, <1>8, <2>1
  <1>10. QED
    BY <1>9 DEF LiveFilled

LEMMA DropFilled ==
  ASSUME PlacesInv, EngineInv', LiveFilled, DropDrained
  PROVE  Filled(book')
  <1>1. /\ book' = BookWith([book.live EXCEPT ![Contra] = @ \ {Top}], book, Contra, Top, NewLevel, book.map)
        /\ Contra \in Side /\ Top \in Tick
    BY DropIs
  <1>2. book \in Book
    BY BookedNow
  <1>3. \A s \in Side, t \in Tick : t \in book.live[s] /\ book.level[s][t].queue = << >> => s = Contra /\ t = Top
    BY DEF LiveFilled
  <1> HIDE DEF Contra, Top
  <1>4. /\ book'.live = [book.live EXCEPT ![Contra] = @ \ {Top}]
        /\ \A x \in Side, y \in Tick : ~(x = Contra /\ y = Top) => book'.level[x][y] = book.level[x][y]
    BY <1>1, <1>2, BookWithFacts
  <1>5. \A s \in Side, t \in Tick : t \in book'.live[s] => t \in book.live[s] /\ ~(s = Contra /\ t = Top)
    BY <1>1, <1>2, <1>4 DEF Book
  <1>6. QED
    BY <1>3, <1>4, <1>5 DEF Filled

LEMMA ReduceFilled ==
  ASSUME PlacesInv, Filled(book), NEW oid \in OrderId, NEW am \in Amendments, ModifyReduce(oid, am)
  PROVE  Filled(book')
  <1> DEFINE o == order[book.map[oid]]
  <1>1. book' = [book EXCEPT !.level[o.side][TicksOf(o.price)] = ReducedLevel(@, o, am)]
    BY DEF ModifyReduce
  <1>2. book \in Book
    BY BookedNow
  <1>3. book'.live = book.live
    BY <1>1, <1>2 DEF Book
  <1>4. \A s \in Side, t \in Tick : book'.level[s][t].queue = book.level[s][t].queue
    <2>1. SUFFICES ASSUME NEW s \in Side, NEW t \in Tick PROVE book'.level[s][t].queue = book.level[s][t].queue
      OBVIOUS
    <2>2. book.level[s][t] \in Level
      BY <1>2 DEF Book
    <2>3. ReducedLevel(book.level[s][t], o, am).queue = book.level[s][t].queue
      BY <2>2 DEF ReducedLevel, Level
    <2>4. book'.level[s][t] \in {book.level[s][t], ReducedLevel(book.level[s][t], o, am)}
      <3> HIDE DEF o
      <3>1. QED
        BY <1>1, <1>2 DEF Book
    <2>5. QED
      BY <2>3, <2>4
  <1>5. QED
    BY <1>3, <1>4 DEF Filled

LEMMA RequoteFilled ==
  ASSUME PlacesInv, EngineInv', BookAddsUp(FALSE, book, order), Filled(book),
         NEW oid \in OrderId, NEW am \in Amendments, ModifyRequote(oid, am)
  PROVE  Filled(book')
  <1> DEFINE u == book.map[oid]
             c == RemoveOrder(book, order, u)
  <1> HIDE DEF u, c
  <1>1. /\ book' = InsertOrder(c, order', u)
        /\ u \in Uid /\ Booked(book, order, next_id) /\ order \in [Uid -> Order] /\ order' \in [Uid -> Order]
        /\ Booked(c, order', next_id)
    BY RequotedBook DEF u, c
  <1>2. Filled(c)
    BY <1>1, RemoveFilled DEF c
  <1>3. Filled(InsertOrder(c, order', u))
    BY <1>1, <1>2, InsertFilled
  <1>4. QED
    BY <1>1, <1>3

LEMMA TakesOffFilled ==
  ASSUME PlacesInv, BookAddsUp(FALSE, book, order), Filled(book), TakesOff
  PROVE  Filled(book')
  <1>1. book' = book \/ \E u : u \in (Uid \cup {None}) /\ u # None /\ book' = RemoveOrder(book, order, u)
    <2>1. book.map \in [OrderId -> Uid \cup {None}]
      BY BookedNow DEF Book
    <2>2. ASSUME NEW oid \in OrderId, CancelEffect(oid)
          PROVE  book' = book \/ \E u : u \in (Uid \cup {None}) /\ u # None /\ book' = RemoveOrder(book, order, u)
      BY <2>1, <2>2 DEF CancelEffect, CancelResting, CancelStop, CancelUnknown
    <2>3. ASSUME NEW oid \in OrderId, NEW am \in Amendments, ModifyToNothing(oid, am) \/ ModifyAcross(oid, am)
          PROVE  \E u : u \in (Uid \cup {None}) /\ u # None /\ book' = RemoveOrder(book, order, u)
      BY <2>1, <2>3 DEF ModifyToNothing, ModifyAcross, Modifiable
    <2>4. QED
      BY <2>2, <2>3 DEF TakesOff
  <1>2. ASSUME NEW u \in Uid PROVE Filled(RemoveOrder(book, order, u))
    BY BookedNow, RemoveFilled
  <1>3. QED
    BY <1>1, <1>2

(* Only DropDrained runs with the best level drained.                      *)
LEMMA DrainedFirst ==
  ASSUME [Next]_vars
  PROVE  UNCHANGED vars \/ DropDrained \/ pc # "match" \/ ~LevelDrained
  <1>1. CASE Call
    BY <1>1 DEF Call, Submit, Cancel, CancelAll, ModifyToNothing, ModifyAcross, ModifyRequote, ModifyReduce,
       Modifiable
  <1>2. CASE Step
    BY <1>2 DEF Step, Drained, RejectInvalid, RejectStop, RejectUnfillable, RejectTaker, ParkStop, Taking,
       StartMatch, SkipCanceled, Trigger, NextDue, MatchDone, NoProgress, Matching, StpCancelNewest,
       StpCancelOldest, StpDecrement, Execute, Complete, Expire, Rest, TriggersDone, SweepOne, SweepStops,
       SweepDone
  <1>3. QED
    BY <1>1, <1>2 DEF Next

LEMMA StepLiveFilled ==
  ASSUME PlacesInv, EngineInv', BookAddsUp(FALSE, book, order), LiveFilled, [Next]_vars
  PROVE  LiveFilled'
  <1>1. CASE UNCHANGED vars
    BY <1>1 DEF vars, LiveFilled, Contra, Top
  <1>2. ASSUME Filled(book') PROVE LiveFilled'
    BY <1>2 DEF Filled, LiveFilled
  <1>3. CASE DropDrained
    BY <1>2, <1>3, DropFilled
  <1>4. CASE pc # "match" \/ ~LevelDrained
    <2>1. Filled(book)
      BY <1>4, NoneDrained
    <2>2. CASE book' = book
      BY <1>2, <2>1, <2>2
    <2>3. CASE TakesOff
      BY <1>2, <2>1, <2>3, TakesOffFilled
    <2>4. ASSUME NEW oid \in OrderId, NEW am \in Amendments, ModifyRequote(oid, am) \/ ModifyReduce(oid, am)
          PROVE  LiveFilled'
      BY <1>2, <2>1, <2>4, RequoteFilled, ReduceFilled
    <2>5. CASE StpCancelOldest \/ StpDecrement \/ Execute
      BY <2>1, <2>5, MatchFilled
    <2>6. CASE Rest
      <3>1. pc = "residual" /\ book' = InsertOrder(book, order, cur)
        BY <2>6 DEF Rest
      <3>2. cur \in Uid
        BY <3>1, CurKnown DEF PlacesInv
      <3>3. Filled(InsertOrder(book, order, cur))
        BY <2>1, <3>2, BookedNow, InsertFilled
      <3>4. QED
        BY <1>2, <3>1, <3>3
    <2>7. QED
      BY <1>3, <2>2, <2>3, <2>4, <2>5, <2>6, BookSteps
  <1>5. QED
    BY <1>1, <1>3, <1>4, DrainedFirst

(* Orders that rest, are found and queue where they belong, all together.  *)
IndexInv == StopInv /\ VolumeBound /\ NoneOf("ICEBERG") /\ MappedRest /\ RestMapped /\ LiveFilled

LEMMA InitIndex == Init => IndexInv
  <1> SUFFICES ASSUME Init PROVE IndexInv
    OBVIOUS
  <1>1. PlacesInv /\ next_id = 0 /\ stops = NoStops /\ pending = << >> /\ book = EmptyBook
    BY InitPlaces DEF Init
  <1>2. ToSet(pending) = {} /\ Mapped(stops.map) = {}
    BY <1>1, EmptyQueue DEF NoStops, Mapped
  <1>3. StopInv
    BY <1>1, <1>2 DEF StopInv, NamedByIds
  <1>4. BookAddsUp(FALSE, book, order) /\ MappedRest /\ NoneOf("ICEBERG") /\ NoneOf("HIDDEN")
    BY InitAddsUp
  <1>5. VolumeBound
    BY <1>1, <1>4 DEF VolumeBound, AmendsShown
  <1>6. Resting(book) = {}
    BY <1>1, PlaceFacts, WhoRests DEF OnBook
  <1>7. RestMapped
    BY <1>6 DEF RestMapped
  <1>8. \A s \in Side, t \in Tick : t \notin book.live[s]
    BY <1>1 DEF EmptyBook
  <1>9. LiveFilled
    BY <1>8 DEF LiveFilled
  <1>10. QED
    BY <1>3, <1>4, <1>5, <1>7, <1>9 DEF IndexInv

LEMMA StepIndex ==
  ASSUME IsInjective(IdOf), NeverSent("ICEBERG"), NoneHidden
  PROVE  IndexInv /\ [Next]_vars => IndexInv'
  <1>1. SUFFICES ASSUME IndexInv, [Next]_vars PROVE IndexInv'
    OBVIOUS
  <1>2. StopInv' /\ VolumeBound'
    BY <1>1, StepStops, StepBound DEF IndexInv
  <1>3. PlacesInv /\ NamedByIds(order, next_id) /\ EngineInv' /\ BookAddsUp(FALSE, book, order)
    BY <1>1, <1>2 DEF IndexInv, StopInv, VolumeBound, PlacesInv
  <1>4. NoneOf("ICEBERG")'
    BY <1>1, <1>3, TypesStay DEF IndexInv
  <1>5. MappedRest' /\ RestMapped'
    BY <1>1, <1>3, StepMapped, StepRestMapped DEF IndexInv
  <1>6. LiveFilled'
    BY <1>1, <1>3, StepLiveFilled DEF IndexInv
  <1>7. QED
    BY <1>2, <1>4, <1>5, <1>6 DEF IndexInv

(* The order map and the levels tell the same orders, each queued once and *)
(* where its side and price say, and a tick has a level exactly while      *)
(* somebody queues there, when ids are unique, no iceberg is sent (a fill  *)
(* beyond its tranche queues it again before pop_head takes off the head,  *)
(* who may be somebody else) and what is modified has no hidden part.      *)
THEOREM BookStaysIndexed ==
  ASSUME IsInjective(IdOf), NeverSent("ICEBERG"), NoneHidden
  PROVE  Spec => []BookIndexed
  <1>1. Init => IndexInv
    BY InitIndex
  <1>2. IndexInv /\ [Next]_vars => IndexInv'
    BY StepIndex
  <1>3. IndexInv => BookIndexed
    <2> SUFFICES ASSUME IndexInv PROVE BookIndexed
      OBVIOUS
    <2>1. /\ book \in Book /\ Placed(book, order) /\ Named(book.map, order)
          /\ Mapped(book.map) = Resting(book)
      BY PlaceFacts, BookedNow DEF IndexInv, StopInv, MappedRest, RestMapped
    <2>2. ASSUME NEW x \in Places
          PROVE  /\ x[1] \in Side /\ x[2] \in Tick
                 /\ RestingAt(book, x[1], x[2]) = ToSet(book.level[x[1]][x[2]].queue)
                 /\ WellQueued(book.level[x[1]][x[2]].queue, order, x[1], x[2])
      <3>1. x[1] \in Side /\ x[2] \in Tick
        BY DEF Places
      <3>2. QED
        BY <2>1, <3>1 DEF Placed, RestingAt, ToSet, Book, Level
    <2>3. \A x \in Places : ~(pc = "match" /\ x[1] = Contra) =>
             (x[2] \in book.live[x[1]] <=> book.level[x[1]][x[2]].queue # << >>)
      BY <2>1, <2>2 DEF Placed, LiveFilled, IndexInv
    <2>4. QED
      BY <2>1, <2>2, <2>3 DEF BookIndexed, WellQueued, Mapped, Named
  <1>4. QED
    BY <1>1, <1>2, <1>3, PTL DEF Spec

-----------------------------------------------------------------------------
(* cancel_all_for_participant: two lists of ids, taken one after the other.*)

(* The map has no id that it had not, and not this one.                    *)
Clears(new, old, oid) == \A i \in OrderId : new[i] # None => i # oid /\ new[i] = old[i]

OwnersStay == \A v \in Uid : order'[v].owner = order[v].owner

(* With unique ids, whoever is found on the book is no stop.               *)
LEMMA FoundOnce ==
  ASSUME IsInjective(IdOf), PlacesInv, NamedByIds(order, next_id), NEW oid \in OrderId, book.map[oid] # None
  PROVE  stops.map[oid] = None
  <1> DEFINE u == book.map[oid]
             v == stops.map[oid]
  <1>1. SUFFICES ASSUME v # None PROVE FALSE
    OBVIOUS
  <1>2. /\ u \in OnBook(book) /\ v \in Mapped(stops.map) /\ order[u].oid = oid /\ order[v].oid = oid
    BY <1>1, PlaceFacts DEF OnBook, Mapped, Named, StopsPlaced
  <1>3. u \in 1 .. next_id /\ v \in 1 .. next_id /\ v \in Heaped(stops) /\ 1 .. next_id \subseteq Uid
    BY <1>2, PlaceFacts DEF StopsPlaced
  <1> HIDE DEF u, v
  <1>4. u # v
    BY <1>2, <1>3, PlaceFacts DEF Apart
  <1>5. IdOf[u] = IdOf[v] /\ u \in DOMAIN IdOf /\ v \in DOMAIN IdOf
    BY <1>2, <1>3, InputAssumption DEF NamedByIds
  <1>6. QED
    BY <1>4, <1>5 DEF IsInjective

LEMMA CancelClears ==
  ASSUME IsInjective(IdOf), PlacesInv, EngineInv', NamedByIds(order, next_id), MappedRest,
         NEW oid \in OrderId, CancelEffect(oid)
  PROVE  Clears(book'.map, book.map, oid) /\ Clears(stops'.map, stops.map, oid) /\ OwnersStay
  <1>1. /\ order \in [Uid -> Order] /\ Named(book.map, order) /\ 1 .. next_id \subseteq Uid
        /\ book.map \in [OrderId -> Uid \cup {None}] /\ stops.map \in [OrderId -> Uid \cup {None}]
    BY BookedNow, PlaceFacts DEF Book, StopsOK, Stops
  <1>2. CASE CancelResting(oid)
    <2> DEFINE u == book.map[oid]
    <2>1. u # None /\ book' = RemoveOrder(book, order, u) /\ order' = Marked(order, u, "CANCELED") /\ stops' = stops
      BY <1>2 DEF CancelResting
    <2>2. Leaves(u)
      BY <2>1, RemoveIndex
    <2>3. order[u].oid = oid /\ u \in Uid
      BY <1>1, <2>1 DEF Named
    <2>4. stops.map[oid] = None
      BY <2>1, FoundOnce
    <2> HIDE DEF u
    <2>5. OwnersStay
      BY <1>1, <2>1, <2>3, MarkedAlike DEF OwnersStay, Unfilled, Steady, Alike
    <2>6. QED
      BY <1>1, <2>1, <2>2, <2>3, <2>4, <2>5 DEF Leaves, Clears
  <1>3. CASE CancelStop(oid)
    <2> DEFINE u == stops.map[oid]
    <2>1. u # None /\ book' = book /\ order' = Marked(order, u, "CANCELED") /\ stops' = ForgetStop(stops, oid)
          /\ book.map[oid] = None
      BY <1>3 DEF CancelStop
    <2>2. u \in Uid
      BY <1>1, <2>1
    <2>3. stops'.map = [stops.map EXCEPT ![oid] = None]
      BY <2>1, PlaceFacts DEF ForgetStop, StopsOK
    <2> HIDE DEF u
    <2>4. OwnersStay
      BY <1>1, <2>1, <2>2, MarkedAlike DEF OwnersStay, Unfilled, Steady, Alike
    <2>5. QED
      BY <1>1, <2>1, <2>3, <2>4 DEF Clears
  <1>4. CASE CancelUnknown(oid)
    BY <1>4 DEF CancelUnknown, Clears, OwnersStay
  <1>5. QED
    BY <1>2, <1>3, <1>4 DEF CancelEffect

(* What is still to be cancelled is on the list, and a list that has been  *)
(* worked off leaves nothing behind.                                       *)
ListsCover ==
  /\ pc = "sweep_book" => IdsOf(book.map, sweep.owner) \subseteq sweep.ids
  /\ pc = "sweep_stops" => /\ IdsOf(book.map, sweep.owner) = {}
                           /\ IdsOf(stops.map, sweep.owner) \subseteq sweep.ids

SweepsInv == StopInv /\ NoneOf("ICEBERG") /\ MappedRest /\ RestMapped /\ ListsCover

LEMMA SweepSteps ==
  ASSUME [Next]_vars, pc' \in {"sweep_book", "sweep_stops"}
  PROVE  \/ UNCHANGED vars
         \/ \E owner \in Owner : CancelAll(owner)
         \/ \E oid \in OrderId : SweepOne(oid)
         \/ SweepStops
  <1>1. CASE Call
    <2>1. ASSUME NEW oid \in OrderId, NEW am \in Amendments PROVE ~ModifyToNothing(oid, am) /\ ~ModifyAcross(oid, am)
      BY DEF ModifyToNothing, ModifyAcross, Modifiable
    <2>2. ASSUME NEW oid \in OrderId, NEW am \in Amendments PROVE ~ModifyRequote(oid, am) /\ ~ModifyReduce(oid, am)
      BY DEF ModifyRequote, ModifyReduce, Modifiable
    <2>3. ASSUME NEW tk \in Tickets, Submit(tk) PROVE FALSE
      BY <2>3 DEF Submit
    <2>4. ASSUME NEW oid \in OrderId, Cancel(oid) PROVE FALSE
      BY <2>4 DEF Cancel
    <2>5. QED
      BY <1>1, <2>1, <2>2, <2>3, <2>4 DEF Call
  <1>2. CASE Step
    BY <1>2 DEF Step, Drained, RejectInvalid, RejectStop, RejectUnfillable, RejectTaker, Reject, ParkStop, Taking,
       StartMatch, SkipCanceled, Trigger, NextDue, DropDrained, MatchDone, NoProgress, Matching, StpCancelNewest,
       StpCancelOldest, StpDecrement, Execute, Complete, Expire, Rest, AfterResidual, TriggersDone, SweepDone
  <1>3. QED
    BY <1>1, <1>2 DEF Next

LEMMA LastSweep ==
  ASSUME [Next]_vars, pc = "sweep_stops", pc' = "idle"
  PROVE  sweep.ids = {}
  <1>1. CASE Call
    BY <1>1 DEF Call, Submit, Cancel, CancelAll, ModifyToNothing, ModifyAcross, ModifyRequote, ModifyReduce,
       Modifiable
  <1>2. CASE Step
    BY <1>2 DEF Step, Drained, RejectInvalid, RejectStop, RejectUnfillable, RejectTaker, Reject, ParkStop, Taking,
       StartMatch, SkipCanceled, Trigger, NextDue, DropDrained, MatchDone, NoProgress, Matching, StpCancelNewest,
       StpCancelOldest, StpDecrement, Execute, Complete, Expire, Rest, TriggersDone, SweepOne, SweepStops,
       SweepDone
  <1>3. QED
    BY <1>1, <1>2 DEF Next, vars

LEMMA StepLists ==
  ASSUME IsInjective(IdOf), PlacesInv, EngineInv', NamedByIds(order, next_id), MappedRest, ListsCover, [Next]_vars
  PROVE  ListsCover'
  <1>1. SUFFICES ASSUME pc' \in {"sweep_book", "sweep_stops"} PROVE ListsCover'
    BY DEF ListsCover
  <1>2. CASE UNCHANGED vars
    BY <1>2 DEF vars, ListsCover, IdsOf
  <1>3. ASSUME NEW owner \in Owner, CancelAll(owner) PROVE ListsCover'
    BY <1>3 DEF CancelAll, ListsCover, IdsOf
  <1>4. CASE SweepStops
    BY <1>4 DEF SweepStops, ListsCover, IdsOf
  <1>5. ASSUME NEW oid \in OrderId, SweepOne(oid) PROVE ListsCover'
    <2>1. /\ CancelEffect(oid) /\ pc' = pc /\ sweep' = [sweep EXCEPT !.ids = @ \ {oid}]
      BY <1>5 DEF SweepOne
    <2>2. Clears(book'.map, book.map, oid) /\ Clears(stops'.map, stops.map, oid) /\ OwnersStay
      BY <2>1, CancelClears
    <2>3. book.map \in [OrderId -> Uid \cup {None}] /\ stops.map \in [OrderId -> Uid \cup {None}]
      BY BookedNow, PlaceFacts DEF Book, StopsOK, Stops
    <2>4. sweep \in Sweep
      BY DEF PlacesInv, EngineInv
    <2>5. sweep'.owner = sweep.owner /\ sweep'.ids = sweep.ids \ {oid}
      BY <2>1, <2>4 DEF Sweep
    <2>6. IdsOf(book.map, sweep.owner)' \subseteq IdsOf(book.map, sweep.owner) \ {oid}
      BY <2>2, <2>3, <2>5 DEF Clears, OwnersStay, IdsOf
    <2>7. IdsOf(stops.map, sweep.owner)' \subseteq IdsOf(stops.map, sweep.owner) \ {oid}
      BY <2>2, <2>3, <2>5 DEF Clears, OwnersStay, IdsOf
    <2>8. QED
      BY <2>1, <2>5, <2>6, <2>7 DEF ListsCover
  <1>6. QED
    BY <1>1, <1>2, <1>3, <1>4, <1>5, SweepSteps

(* When cancel_all_for_participant returns, no order of the participant    *)
(* rests and none waits as a stop, when ids are unique and no iceberg is   *)
(* sent: the two lists of ids miss nobody.                                 *)
THEOREM SweepsComplete ==
  ASSUME IsInjective(IdOf), NeverSent("ICEBERG")
  PROVE  Spec => SweepLeavesNothing
  <1>1. Init => SweepsInv
    BY InitIndex DEF IndexInv, SweepsInv, ListsCover, Init
  <1>2. SweepsInv /\ [Next]_vars => SweepsInv'
    <2> SUFFICES ASSUME SweepsInv, [Next]_vars PROVE SweepsInv'
      OBVIOUS
    <2>1. StopInv'
      BY StepStops DEF SweepsInv
    <2>2. PlacesInv /\ NamedByIds(order, next_id) /\ EngineInv'
      BY <2>1 DEF SweepsInv, StopInv, PlacesInv
    <2>3. NoneOf("ICEBERG")'
      BY <2>2, TypesStay DEF SweepsInv
    <2>4. MappedRest' /\ RestMapped' /\ ListsCover'
      BY <2>2, StepMapped, StepRestMapped, StepLists DEF SweepsInv
    <2>5. QED
      BY <2>1, <2>3, <2>4 DEF SweepsInv
  <1>3. SweepsInv /\ [Next]_vars
        => [pc = "sweep_stops" /\ pc' = "idle" =>
              \A u \in Resting(book) \cup Waiting : order[u].owner # sweep.owner]_vars
    <2>1. SUFFICES ASSUME SweepsInv, [Next]_vars, pc = "sweep_stops", pc' = "idle",
                          NEW u \in Resting(book) \cup Waiting
                   PROVE  order[u].owner # sweep.owner
      OBVIOUS
    <2>2. sweep.ids = {}
      BY <2>1, LastSweep
    <2>3. IdsOf(book.map, sweep.owner) = {} /\ IdsOf(stops.map, sweep.owner) = {}
      BY <2>1, <2>2 DEF SweepsInv, ListsCover
    <2>4. u \in Mapped(book.map) \cup Mapped(stops.map)
      BY <2>1 DEF SweepsInv, RestMapped, Waiting, Mapped
    <2>5. QED
      BY <2>3, <2>4 DEF Mapped, IdsOf
  <1>4. QED
    BY <1>1, <1>2, <1>3, PTL DEF Spec, SweepLeavesNothing

-----------------------------------------------------------------------------
(* Price and time.  A queue stands in the order of the timestamps, and the *)
(* call that is running works with its own time, which is the latest.      *)

Ordered(q, ord) == \A i, j \in 1 .. Len(q) : i < j => ord[q[i]].timestamp <= ord[q[j]].timestamp

InTime(b, ord) == \A s \in Side, t \in Tick : Ordered(b.level[s][t].queue, ord)

LEMMA OrderedRemoveAt ==
  ASSUME NEW S, NEW q \in Seq(S), NEW k \in 1 .. Len(q), NEW ord, Ordered(q, ord)
  PROVE  Ordered(RemoveAt(q, k), ord)
  <1> DEFINE w == RemoveAt(q, k)
             at(i) == IF i < k THEN i ELSE i + 1
  <1>1. /\ Len(w) = Len(q) - 1 /\ Len(q) \in Nat
        /\ \A i \in 1 .. Len(q) - 1 : w[i] = q[at(i)]
    BY RemoveAtFacts, LenProperties
  <1> HIDE DEF w
  <1>2. SUFFICES ASSUME NEW i \in 1 .. Len(w), NEW j \in 1 .. Len(w), i < j
                 PROVE  ord[w[i]].timestamp <= ord[w[j]].timestamp
    BY DEF Ordered, w
  <1>3. at(i) \in 1 .. Len(q) /\ at(j) \in 1 .. Len(q) /\ at(i) < at(j)
    BY <1>1, <1>2
  <1>4. w[i] = q[at(i)] /\ w[j] = q[at(j)]
    BY <1>1
  <1> HIDE DEF at
  <1>5. QED
    BY <1>3, <1>4 DEF Ordered

LEMMA OrderedTail ==
  ASSUME NEW S, NEW q \in Seq(S), q # << >>, NEW ord, Ordered(q, ord)
  PROVE  Ordered(Tail(q), ord)
  <1>1. Tail(q) = RemoveAt(q, 1) /\ 1 \in 1 .. Len(q)
    BY TailIsRemoveAt
  <1>2. QED
    BY <1>1, OrderedRemoveAt

LEMMA OrderedUnlink ==
  ASSUME NEW S, NEW q \in Seq(S), NEW u \in ToSet(q), NEW ord, Ordered(q, ord)
  PROVE  Ordered(Unlink(q, u), ord)
  <1> DEFINE k == PositionOf(q, u)
  <1>1. k \in 1 .. Len(q) /\ Unlink(q, u) = RemoveAt(q, k)
    BY ToSetFacts DEF PositionOf, Unlink, RemoveAt
  <1> HIDE DEF k
  <1>2. QED
    BY <1>1, OrderedRemoveAt

LEMMA OrderedAppend ==
  ASSUME NEW S, NEW q \in Seq(S), NEW u \in S, NEW ord, Ordered(q, ord),
         \A v \in ToSet(q) : ord[v].timestamp <= ord[u].timestamp
  PROVE  Ordered(Append(q, u), ord)
  <1> DEFINE w == Append(q, u)
  <1>1. /\ Len(w) = Len(q) + 1 /\ Len(q) \in Nat /\ w[Len(q) + 1] = u
        /\ \A i \in 1 .. Len(q) : w[i] = q[i] /\ q[i] \in ToSet(q)
    BY AppendFacts, ToSetFacts, LenProperties
  <1> HIDE DEF w
  <1>2. SUFFICES ASSUME NEW i \in 1 .. Len(w), NEW j \in 1 .. Len(w), i < j
                 PROVE  ord[w[i]].timestamp <= ord[w[j]].timestamp
    BY DEF Ordered, w
  <1>3. i \in 1 .. Len(q) /\ (j \in 1 .. Len(q) \/ j = Len(q) + 1)
    BY <1>1, <1>2
  <1>4. QED
    BY <1>1, <1>2, <1>3 DEF Ordered

LEMMA OrderedSame ==
  ASSUME NEW S, NEW q \in Seq(S), NEW ord, Ordered(q, ord), NEW new,
         \A v \in ToSet(q) : new[v].timestamp = ord[v].timestamp
  PROVE  Ordered(q, new)
  <1>1. \A i \in 1 .. Len(q) : q[i] \in ToSet(q)
    BY ToSetFacts
  <1>2. QED
    BY <1>1 DEF Ordered

(* Whoever is first in a queue has stood there longest.                    *)
LEMMA HeadIsOldest ==
  ASSUME NEW S, NEW q \in Seq(S), NEW v \in ToSet(q), NEW ord, Ordered(q, ord),
         \A x \in ToSet(q) : ord[x].timestamp \in Nat
  PROVE  ord[Head(q)].timestamp <= ord[v].timestamp
  <1>1. PICK i \in 1 .. Len(q) : q[i] = v
    BY ToSetFacts
  <1>2. Len(q) \in Nat /\ Head(q) = q[1]
    BY <1>1, LenProperties
  <1>3. CASE i = 1
    BY <1>1, <1>2, <1>3
  <1>4. CASE i # 1
    <2>1. 1 \in 1 .. Len(q) /\ 1 < i
      BY <1>2, <1>4
    <2>2. QED
      BY <1>1, <1>2, <2>1 DEF Ordered
  <1>5. QED
    BY <1>3, <1>4

LEMMA OneOrdered ==
  ASSUME NEW b \in Book, NEW s \in Side, NEW t \in Tick, NEW lv, NEW c, Written(c, b, s, t, lv),
         NEW ord, InTime(b, ord), Ordered(lv.queue, ord)
  PROVE  InTime(c, ord)
  <1>1. PICK live, map : c = BookWith(live, b, s, t, lv, map)
    BY DEF Written
  <1>2. /\ c.level[s][t] = lv
        /\ \A x \in Side, y \in Tick : ~(x = s /\ y = t) => c.level[x][y] = b.level[x][y]
    BY <1>1, BookWithFacts
  <1>3. ASSUME NEW x \in Side, NEW y \in Tick PROVE Ordered(c.level[x][y].queue, ord)
    <2>1. CASE x = s /\ y = t
      BY <1>2, <2>1
    <2>2. CASE ~(x = s /\ y = t)
      BY <1>2, <2>2 DEF InTime
    <2>3. QED
      BY <2>1, <2>2
  <1>4. QED
    BY <1>3 DEF InTime

LEMMA SameTimes ==
  ASSUME NEW ord, NEW n, NEW b, Booked(b, ord, n), NEW old, InTime(b, old),
         NEW new, \A v \in Resting(b) : new[v].timestamp = old[v].timestamp
  PROVE  InTime(b, new)
  <1>1. ASSUME NEW s \in Side, NEW t \in Tick PROVE Ordered(b.level[s][t].queue, new)
    <2>1. b.level[s][t] \in Level
      BY DEF Booked, BookOK, Book
    <2>2. b.level[s][t].queue \in Seq(Uid) /\ ToSet(b.level[s][t].queue) \subseteq Resting(b)
      BY <2>1, WhoRests DEF Level, Booked
    <2>3. Ordered(b.level[s][t].queue, old)
      BY DEF InTime
    <2>4. QED
      BY <2>2, <2>3, OrderedSame
  <1>2. QED
    BY <1>1 DEF InTime

LEMMA RemoveInTime ==
  ASSUME NEW ord \in [Uid -> Order], NEW n, NEW b, Booked(b, ord, n), NEW u \in Resting(b), InTime(b, ord)
  PROVE  InTime(RemoveOrder(b, ord, u), ord)
  <1> DEFINE o == ord[u]
             s == o.side
             t == TicksOf(o.price)
             lv == LevelRemove(Home(b, o), o, u)
             c == RemoveOrder(b, ord, u)
  <1>1. /\ s \in Side /\ t \in Tick /\ u \in ToSet(Home(b, o).queue) /\ Home(b, o).queue \in Seq(Uid)
    BY RestsAtHome
  <1>2. /\ c = BookWith(LiveWith(b, s, t, lv), b, s, t, lv, [b.map EXCEPT ![o.oid] = None])
        /\ lv.queue = Unlink(Home(b, o).queue, u)
    BY RemoveOrderIs
  <1>3. Home(b, o) = b.level[s][t] /\ b \in Book
    BY DEF Home, Booked, BookOK
  <1>4. Written(c, b, s, t, lv)
    BY <1>2 DEF Written
  <1> HIDE DEF o, s, t, lv, c
  <1>5. Ordered(Home(b, o).queue, ord)
    BY <1>1, <1>3 DEF InTime
  <1>6. Ordered(lv.queue, ord)
    BY <1>1, <1>2, <1>5, OrderedUnlink
  <1>7. InTime(c, ord)
    BY <1>1, <1>3, <1>4, <1>6, OneOrdered
  <1>8. QED
    BY <1>7 DEF c

LEMMA InsertInTime ==
  ASSUME NEW ord \in [Uid -> Order], NEW n, NEW b, Booked(b, ord, n), NEW u \in Uid, InTime(b, ord),
         \A v \in Uid : ord[v].timestamp <= ord[u].timestamp
  PROVE  InTime(InsertOrder(b, ord, u), ord)
  <1> DEFINE o == ord[u]
             s == o.side
             t == TicksOf(o.price)
             lv == LevelAppend(Home(b, o), o, u)
             live == [b.live EXCEPT ![s] = @ \cup {t}]
             map == [b.map EXCEPT ![o.oid] = u]
             c == InsertOrder(b, ord, u)
  <1>1. CASE o.price = NoPrice
    BY <1>1 DEF InsertOrder
  <1>2. CASE o.price # NoPrice
    <2>1. b \in Book /\ o \in Order /\ s \in Side /\ o.price \in Price
      BY <1>2 DEF Booked, BookOK, Order
    <2>2. t \in Tick
      BY <2>1, TicksOfType
    <2>3. lv.queue = Append(Home(b, o).queue, u)
      BY DEF LevelAppend
    <2>4. Home(b, o) = b.level[s][t]
      BY DEF Home
    <2>5. c = BookWith(live, b, s, t, lv, map)
      BY <1>2 DEF InsertOrder, BookWith, Home
    <2>6. Written(c, b, s, t, lv)
      BY <2>5 DEF Written
    <2> HIDE DEF live, lv, s, t, c, o, map
    <2>7. Home(b, o).queue \in Seq(Uid)
      <3>1. b.level[s][t] \in Level
        BY <2>1, <2>2 DEF Book
      <3>2. QED
        BY <2>4, <3>1 DEF Level
    <2>8. \A v \in ToSet(Home(b, o).queue) : ord[v].timestamp <= ord[u].timestamp
      BY <2>7, ToSetFacts
    <2>9. Ordered(Home(b, o).queue, ord)
      BY <2>1, <2>2, <2>4 DEF InTime
    <2>10. Ordered(lv.queue, ord)
      BY <2>3, <2>7, <2>8, <2>9, OrderedAppend
    <2>11. InTime(c, ord)
      BY <2>1, <2>2, <2>6, <2>10, OneOrdered
    <2>12. QED
      BY <2>11 DEF c
  <1>3. QED
    BY <1>1, <1>2

-----------------------------------------------------------------------------
(* A call works with its own time: whatever is pending or in hand is of    *)
(* now, for a triggered stop takes the time of the trade.                  *)

CallTimes ==
  /\ \A u \in ToSet(pending) : order[u].timestamp = clock
  /\ pc \in {"match", "residual", "trigger"} => order[cur].timestamp = clock

LEMMA ClockStays ==
  ASSUME [Next]_vars, pc \in Busy
  PROVE  clock' = clock
  <1>1. ~Call
    BY DEF Busy, Call, Submit, Cancel, CancelAll, ModifyToNothing, ModifyAcross, ModifyRequote, ModifyReduce,
           Modifiable
  <1>2. QED
    BY <1>1 DEF Next, vars, Step, Drained, RejectInvalid, RejectStop, RejectUnfillable, RejectTaker, Reject,
       ParkStop, StartMatch, SkipCanceled, Trigger, DropDrained, MatchDone, NoProgress, StpCancelNewest,
       StpCancelOldest, StpDecrement, Execute, Complete, Expire, Rest, TriggersDone, SweepOne, SweepStops,
       SweepDone

LEMMA CurStays ==
  ASSUME [Next]_vars, pc \in {"match", "residual", "trigger"}
  PROVE  cur' = cur
  <1>1. ~Call
    BY DEF Call, Submit, Cancel, CancelAll, ModifyToNothing, ModifyAcross, ModifyRequote, ModifyReduce,
           Modifiable
  <1>2. QED
    BY <1>1 DEF Next, vars, Step, Drained, RejectInvalid, RejectStop, RejectUnfillable, RejectTaker, Reject,
       ParkStop, StartMatch, SkipCanceled, Trigger, DropDrained, MatchDone, NoProgress, StpCancelNewest,
       StpCancelOldest, StpDecrement, Execute, Complete, Expire, Rest, TriggersDone, SweepOne, SweepStops,
       SweepDone, Taking

LEMMA CallTimesSteady ==
  ASSUME PlacesInv, EngineInv', StopsComeAlone, CallTimes, [Next]_vars, ~Alters
  PROVE  CallTimes'
  <1>1. /\ \A u \in Uid : order'[u].timestamp = order[u].timestamp
        /\ pending \in Seq(1 .. next_id) /\ ToSet(pending) \subseteq Uid
    <2>1. pending \in Seq(1 .. next_id) /\ ToSet(pending) \subseteq 1 .. next_id /\ 1 .. next_id \subseteq Uid
      BY PlaceFacts
    <2>2. QED
      BY <2>1, StepSteady DEF Steady
  <1>2. ToSet(<< >>) = {}
    BY EmptyQueue
  <1>3. CASE BetweenCalls
    <2>1. pending = << >> /\ pending' = pending /\ pc' \notin {"match", "residual", "trigger"}
      BY <1>3 DEF BetweenCalls, StopsComeAlone, Busy
    <2>2. QED
      BY <1>2, <2>1 DEF CallTimes
  <1>4. CASE Drained
    <2>1. pending' = << >> /\ pc' = "idle"
      BY <1>4 DEF Drained
    <2>2. QED
      BY <1>2, <2>1 DEF CallTimes
  <1>5. CASE TakesOne
    <2>1. PICK u \in Uid : Taking(u) /\ pending' = Tail(pending) /\ (pc' = "loop" \/ StartMatch(u))
      BY <1>5 DEF TakesOne
    <2>2. pc = "loop" /\ pending # << >> /\ u = Head(pending)
      BY <2>1 DEF Taking
    <2>3. u \in ToSet(pending) /\ ToSet(pending') \subseteq ToSet(pending)
      BY <1>1, <2>1, <2>2, PlaceFacts, InjectiveTail
    <2>4. clock' = clock
      BY <2>2, ClockStays DEF Busy
    <2>5. pc' = "loop" \/ cur' = u
      BY <2>1 DEF StartMatch
    <2>6. QED
      BY <1>1, <2>3, <2>4, <2>5 DEF CallTimes
  <1>6. CASE WithinCall
    <2>1. pc \in {"match", "residual", "trigger"} /\ pending' = pending
      BY <1>6 DEF WithinCall
    <2>2. clock' = clock /\ cur' = cur /\ cur \in Uid
      BY <2>1, ClockStays, CurStays, CurKnown DEF Busy, PlacesInv
    <2>3. QED
      BY <1>1, <2>1, <2>2 DEF CallTimes
  <1>7. CASE UNCHANGED vars
    BY <1>7 DEF vars, CallTimes
  <1>8. QED
    BY <1>3, <1>4, <1>5, <1>6, <1>7, Courses

LEMMA StepCallTimes ==
  ASSUME PlacesInv, EngineInv', StopsComeAlone, CallTimes, [Next]_vars
  PROVE  CallTimes'
  <1>1. pending \in Seq(1 .. next_id) /\ next_id \in Nat /\ ToSet(pending) \subseteq Uid /\ ToSet(<< >>) = {}
        /\ order \in [Uid -> Order]
    <2>1. ToSet(pending) \subseteq 1 .. next_id /\ 1 .. next_id \subseteq Uid
      BY PlaceFacts
    <2>2. QED
      BY <2>1, PlaceFacts, EmptyQueue
  <1>2. pc = "idle" => pending = << >>
    BY DEF StopsComeAlone, Busy
  <1>3. ASSUME NEW u, Append(<< >>, u) = pending', order'[u].timestamp = clock', pc' = "loop"
        PROVE  CallTimes'
    <2>1. ToSet(pending') = {u}
      BY <1>3 DEF ToSet
    <2>2. QED
      BY <1>3, <2>1 DEF CallTimes
  <1>4. ASSUME NEW tk \in Tickets, Submit(tk) PROVE CallTimes'
    BY <1>2, <1>3, <1>4, SubmitTimes
  <1>5. ASSUME NEW oid \in OrderId, NEW am \in Amendments, ModifyAcross(oid, am) PROVE CallTimes'
    <2> DEFINE u == book.map[oid]
               p == [order[u] EXCEPT !.price = am.price, !.quantity = am.quantity,
                                     !.display = Least(order[u].display, am.quantity),
                                     !.timestamp = clock + 1, !.status = "REPLACED"]
    <2>1. /\ order' = [order EXCEPT ![u] = p] /\ Modifiable(oid) /\ clock' = clock + 1
          /\ pending' = Append(pending, u) /\ pc' = "loop" /\ pc = "idle"
      BY <1>5 DEF ModifyAcross, Modifiable, ClockTicks
    <2>2. u \in Uid
      BY <2>1, ModifiableKnown DEF PlacesInv
    <2>3. p.timestamp = clock + 1
      BY <1>1, <2>2 DEF Order
    <2> HIDE DEF u, p
    <2>4. order'[u].timestamp = clock'
      BY <1>1, <2>1, <2>2, <2>3
    <2>5. QED
      BY <1>2, <1>3, <2>1, <2>4
  <1>6. ASSUME NEW oid \in OrderId, NEW am \in Amendments, ModifyRequote(oid, am) \/ ModifyReduce(oid, am)
        PROVE  CallTimes'
    <2>1. pending' = pending /\ pc' = pc /\ pc = "idle"
      BY <1>6 DEF ModifyRequote, ModifyReduce, Modifiable
    <2>2. QED
      BY <1>1, <1>2, <2>1 DEF CallTimes
  <1>7. ASSUME NEW u \in Uid, Trigger(u) PROVE CallTimes'
    <2>1. /\ cur \in Uid /\ order'[u].timestamp = order[cur].timestamp
          /\ \A v \in Uid : v # u => order'[v] = order[v]
          /\ pc = "trigger" /\ pending' = Append(pending, u) /\ cur' = cur /\ clock' = clock
      BY <1>7, TriggeredFacts
    <2>2. order[cur].timestamp = clock
      BY <2>1 DEF CallTimes
    <2>3. ToSet(pending') = ToSet(pending) \cup {u}
      <3>1. pending \in Seq(Uid)
        <4>1. 1 .. next_id \subseteq Uid
          BY PlaceFacts
        <4>2. QED
          BY <1>1, <4>1
      <3>2. QED
        BY <2>1, <3>1, AppendFacts
    <2>4. \A v \in ToSet(pending) \cup {u, cur} : order'[v].timestamp = clock
      BY <1>1, <2>1, <2>2 DEF CallTimes
    <2>5. QED
      BY <2>1, <2>3, <2>4 DEF CallTimes
  <1>8. QED
    BY <1>4, <1>5, <1>6, <1>7, CallTimesSteady DEF Alters

(* A book with an order taken off, or with one queue shortened.            *)
LEMMA TakenOffInTime ==
  ASSUME PlacesInv, NEW u \in Resting(book), book' = RemoveOrder(book, order, u),
         \A v \in Uid : v # u => order'[v].timestamp = order[v].timestamp, InTime(book, order)
  PROVE  InTime(book', order')
  <1>1. Booked(book, order, next_id) /\ order \in [Uid -> Order]
    BY BookedNow
  <1>2. u \in Uid /\ InTime(book', order)
    BY <1>1, RestsAtHome, RemoveInTime
  <1>3. Booked(book', order, next_id) /\ u \notin OnBook(book')
    BY <1>1, <1>2, RemoveBooked
  <1>4. Resting(book') \subseteq Uid \ {u}
    <2>1. Resting(book') \subseteq OnBook(book') /\ next_id \in 0 .. MaxOrders /\ OnBook(book') \subseteq 1 .. next_id
      BY <1>3, WhoRests DEF OnBook, Booked
    <2>2. QED
      BY <1>3, <2>1, BoundAssumption DEF Uid
  <1>5. \A v \in Resting(book') : order'[v].timestamp = order[v].timestamp
    BY <1>4
  <1>6. QED
    BY <1>2, <1>3, <1>5, SameTimes

TimesSame == \A v \in Uid : order'[v].timestamp = order[v].timestamp

LEMMA TimesSameInTime ==
  ASSUME PlacesInv', TimesSame, InTime(book', order)
  PROVE  InTime(book', order')
  <1>1. Booked(book', order', next_id') /\ next_id' \in 0 .. MaxOrders /\ BookOK(book', order', next_id')
    BY DEF PlacesInv, EngineInv, Booked
  <1>2. Resting(book') \subseteq Uid
    <2>1. OnBook(book') \subseteq 1 .. next_id'
      BY <1>1, WhoRests
    <2>2. QED
      BY <1>1, <2>1, BoundAssumption DEF OnBook, Uid
  <1>3. \A v \in Resting(book') : order'[v].timestamp = order[v].timestamp
    BY <1>2 DEF TimesSame
  <1>4. QED
    BY <1>1, <1>3, SameTimes

Shortened(q, p) == q = p \/ q = << >> \/ (p # << >> /\ q = Tail(p))

LEMMA LevelInTime ==
  ASSUME PlacesInv, PlacesInv', InTime(book, order), TimesSame, NEW s \in Side, NEW t \in Tick,
         NEW lv, Written(book', book, s, t, lv), Shortened(lv.queue, book.level[s][t].queue)
  PROVE  InTime(book', order')
  <1> DEFINE q == book.level[s][t].queue
  <1>1. book \in Book
    BY BookedNow
  <1>2. q \in Seq(Uid) /\ Ordered(q, order)
    BY <1>1 DEF Book, Level, InTime
  <1> HIDE DEF q
  <1>3. Ordered(<< >>, order)
    BY DEF Ordered
  <1>4. Ordered(lv.queue, order)
    BY <1>2, <1>3, OrderedTail DEF Shortened, q
  <1>5. InTime(book', order)
    BY <1>1, <1>4, OneOrdered
  <1>6. QED
    BY <1>5, TimesSameInTime

LEMMA MatchInTime ==
  ASSUME PlacesInv, PlacesInv', NoneOf("ICEBERG"), InTime(book, order), TimesSame,
         DropDrained \/ StpCancelOldest \/ StpDecrement \/ Execute
  PROVE  InTime(book', order')
  <1>1. \E lv : /\ Contra \in Side /\ Top \in Tick /\ Written(book', book, Contra, Top, lv)
                /\ Shortened(lv.queue, book.level[Contra][Top].queue)
    <2>1. CASE DropDrained
      <3>1. Written(book', book, Contra, Top, NewLevel) /\ Contra \in Side /\ Top \in Tick
        BY <2>1, DropIs DEF Written
      <3>2. NewLevel.queue = << >>
        BY DEF NewLevel
      <3>3. QED
        BY <3>1, <3>2 DEF Shortened
    <2>2. CASE StpCancelOldest
      <3> DEFINE lv == PopHead(TopLevel, order)
      <3>1. Written(book', book, Contra, Top, lv) /\ Matching /\ TopLevel.queue # << >>
        BY <2>2, CancelOldestIs DEF Written
      <3>2. Contra \in Side /\ Top \in Tick /\ TopLevel = book.level[Contra][Top]
        BY <3>1, MakerFacts, TopFacts
      <3>3. lv.queue = Tail(TopLevel.queue)
        BY DEF PopHead
      <3> HIDE DEF lv
      <3>4. QED
        BY <3>1, <3>2, <3>3 DEF Shortened
    <2>3. CASE StpDecrement \/ Execute
      <3>1. Matching /\ TopLevel.queue # << >>
        BY <2>3 DEF StpDecrement, Execute, Prevents
      <3>2. /\ Maker \in 1 .. next_id /\ Contra \in Side /\ Top \in Tick /\ TopLevel = book.level[Contra][Top]
        BY <3>1, MakerFacts, TopFacts
      <3>3. /\ Executed \in Order /\ Steady(Executed, order[Maker])
            /\ Decremented \in Order /\ Steady(Decremented, order[Maker])
        BY <3>1, ChargedFacts
      <3>4. order[Maker].type # "ICEBERG"
        BY <3>2 DEF NoneOf
      <3>5. Consume(Executed, Overlap, "FILLED") \/ Consume(Decremented, Overlap, "CANCELED")
        BY <2>3 DEF StpDecrement, Execute, Executed, Decremented
      <3>6. ASSUME NEW o \in Order, Steady(o, order[Maker]), NEW final, Consume(o, Overlap, final)
            PROVE  \E lv : Written(book', book, Contra, Top, lv) /\ Shortened(lv.queue, TopLevel.queue)
        <4> DEFINE f == UpdateVolumeAfterFill(TopLevel, o, Maker, Overlap)
                   lv == ChargedLevel(f, order', Remaining(o) = 0)
                   map == IF Remaining(o) = 0 THEN [book.map EXCEPT ![order[Maker].oid] = None] ELSE book.map
        <4>1. /\ book' = BookWith(book.live, book, Contra, Top, lv, map)
              /\ lv.queue = IF Remaining(o) = 0 THEN Tail(TopLevel.queue) ELSE TopLevel.queue
          BY <3>1, <3>4, <3>6, ConsumeIs
        <4> HIDE DEF f, lv, map
        <4>2. QED
          BY <3>1, <4>1 DEF Written, Shortened
      <3>7. QED
        BY <3>2, <3>3, <3>5, <3>6
    <2>4. QED
      BY <2>1, <2>2, <2>3
  <1>2. QED
    BY <1>1, LevelInTime

LEMMA ReduceInTime ==
  ASSUME PlacesInv, PlacesInv', MappedRest, InTime(book, order),
         NEW oid \in OrderId, NEW am \in Amendments, ModifyReduce(oid, am)
  PROVE  InTime(book', order')
  <1> DEFINE u == book.map[oid]
             o == order[u]
             s == o.side
             t == TicksOf(o.price)
             lv == ReducedLevel(Home(book, o), o, am)
  <1>1. u # None /\ order' = [order EXCEPT ![u] = Reduced(o, am)]
        /\ book' = [book EXCEPT !.level[o.side][TicksOf(o.price)] = ReducedLevel(@, o, am)]
    BY DEF ModifyReduce, Modifiable
  <1>2. u \in Resting(book)
    BY <1>1 DEF MappedRest, Mapped
  <1>3. Booked(book, order, next_id) /\ order \in [Uid -> Order] /\ book \in Book
    BY BookedNow
  <1>4. s \in Side /\ t \in Tick /\ Home(book, o) \in Level /\ u \in Uid /\ o \in Order
    BY <1>2, <1>3, RestsAtHome
  <1>5. book' = BookWith(book.live, book, s, t, lv, book.map)
    BY <1>1, <1>3 DEF Book, BookWith, Home
  <1>6. lv.queue = Home(book, o).queue
    BY <1>4 DEF ReducedLevel, Level
  <1>7. Home(book, o) = book.level[s][t] /\ Written(book', book, s, t, lv)
    BY <1>5 DEF Home, Written
  <1>8. Reduced(o, am).timestamp = o.timestamp
    BY <1>4 DEF Order, Reduced
  <1>9. TimesSame
    BY <1>1, <1>3, <1>4, <1>8 DEF TimesSame
  <1> HIDE DEF lv, s, t, o
  <1>10. QED
    BY <1>4, <1>6, <1>7, <1>9, LevelInTime DEF Shortened

LEMMA RestInTime ==
  ASSUME PlacesInv, PlacesInv', TimesPassed, CallTimes, InTime(book, order), TimesSame, Rest
  PROVE  InTime(book', order')
  <1>1. pc = "residual" /\ book' = InsertOrder(book, order, cur)
    BY DEF Rest
  <1>2. cur \in Uid /\ \A v \in Uid : order[v].timestamp <= order[cur].timestamp
    BY <1>1, CurKnown DEF PlacesInv, TimesPassed, CallTimes
  <1>3. Booked(book, order, next_id) /\ order \in [Uid -> Order]
    BY BookedNow
  <1>4. InTime(book', order)
    BY <1>1, <1>2, <1>3, InsertInTime
  <1>5. QED
    BY <1>4, TimesSameInTime

LEMMA RequoteInTime ==
  ASSUME PlacesInv, PlacesInv', MappedRest, TimesPassed', InTime(book, order),
         NEW oid \in OrderId, NEW am \in Amendments, ModifyRequote(oid, am)
  PROVE  InTime(book', order')
  <1> DEFINE u == book.map[oid]
             c == RemoveOrder(book, order, u)
             p == Requoted(order[u], am, clock + 1)
  <1>1. u # None /\ order' = [order EXCEPT ![u] = p] /\ clock' = clock + 1
    BY DEF ModifyRequote, Modifiable, ClockTicks
  <1>2. u \in Resting(book)
    BY <1>1 DEF MappedRest, Mapped
  <1>3. EngineInv'
    BY DEF PlacesInv
  <1>4. p.timestamp = clock + 1
    <2>1. order[u] \in Order
      BY <1>2, BookedNow, RestsAtHome
    <2>2. QED
      BY <2>1 DEF Requoted, Order
  <1> HIDE DEF u, c, p
  <1>5. /\ book' = InsertOrder(c, order', u)
        /\ u \in Uid /\ Booked(book, order, next_id) /\ order \in [Uid -> Order] /\ order' \in [Uid -> Order]
        /\ Booked(c, order, next_id) /\ Booked(c, order', next_id) /\ u \notin Resting(c)
    BY <1>3, RequotedBook DEF u, c
  <1>6. InTime(c, order)
    BY <1>2, <1>5, RemoveInTime DEF c
  <1>7. \A v \in Resting(c) : order'[v].timestamp = order[v].timestamp
    <2>1. Resting(c) \subseteq Uid
      <3>1. OnBook(c) \subseteq 1 .. next_id /\ next_id \in 0 .. MaxOrders
        BY <1>5, WhoRests DEF Booked
      <3>2. QED
        BY <3>1, BoundAssumption DEF OnBook, Uid
    <2>2. QED
      BY <1>1, <1>5, <2>1
  <1>8. InTime(c, order')
    BY <1>5, <1>6, <1>7, SameTimes
  <1>9. \A v \in Uid : order'[v].timestamp <= order'[u].timestamp
    <2>1. order'[u].timestamp = clock'
      BY <1>1, <1>4, <1>5
    <2>2. QED
      BY <2>1 DEF TimesPassed
  <1>10. InTime(InsertOrder(c, order', u), order')
    BY <1>5, <1>8, <1>9, InsertInTime
  <1>11. QED
    BY <1>5, <1>10

LEMMA StepInTime ==
  ASSUME PlacesInv, PlacesInv', MappedRest, NoneOf("ICEBERG"), TimesPassed, TimesPassed', CallTimes,
         InTime(book, order), [Next]_vars
  PROVE  InTime(book', order')
  <1>1. Booked(book, order, next_id) /\ order \in [Uid -> Order] /\ EngineInv'
        /\ Resting(book) \subseteq Uid /\ Resting(book) \subseteq 1 .. next_id /\ next_id \in Nat
    BY BookedNow, PlaceFacts DEF PlacesInv
  <1>2. ASSUME book' = book, \A v \in Resting(book) : order'[v].timestamp = order[v].timestamp
        PROVE  InTime(book', order')
    BY <1>1, <1>2, SameTimes
  <1>3. ASSUME NEW tk \in Tickets, Submit(tk) PROVE InTime(book', order')
    BY <1>1, <1>2, <1>3, SubmitFacts
  <1>4. ASSUME NEW u \in Uid, Trigger(u) PROVE InTime(book', order')
    <2>1. u \in Heaped(stops) /\ book' = book /\ \A v \in Uid : v # u => order'[v] = order[v]
      BY <1>4, TriggeredFacts
    <2>2. u \notin Resting(book)
      BY <2>1, PlaceFacts DEF Apart
    <2>3. QED
      BY <1>1, <1>2, <2>1, <2>2
  <1>5. ASSUME NEW oid \in OrderId, NEW am \in Amendments, ModifyAcross(oid, am) PROVE InTime(book', order')
    <2> DEFINE u == book.map[oid]
    <2>1. u # None /\ book' = RemoveOrder(book, order, u)
      BY <1>5 DEF ModifyAcross, Modifiable
    <2>2. u \in Resting(book)
      BY <2>1 DEF MappedRest, Mapped
    <2>3. \A v \in Uid : v # u => order'[v] = order[v]
      BY <1>1, <1>5, AmendedTimes
    <2> HIDE DEF u
    <2>4. QED
      BY <2>1, <2>2, <2>3, TakenOffInTime
  <1>6. ASSUME NEW oid \in OrderId, NEW am \in Amendments, ModifyRequote(oid, am) \/ ModifyReduce(oid, am)
        PROVE  InTime(book', order')
    BY <1>6, RequoteInTime, ReduceInTime
  <1>7. CASE ~Alters
    <2>1. TimesSame
      BY <1>1, <1>7, StepSteady DEF TimesSame, Steady
    <2>2. ASSUME NEW oid \in OrderId, book.map[oid] # None, book' = RemoveOrder(book, order, book.map[oid])
          PROVE  InTime(book', order')
      <3>1. book.map[oid] \in Resting(book)
        BY <2>2 DEF MappedRest, Mapped
      <3>2. QED
        BY <2>1, <2>2, <3>1, TakenOffInTime DEF TimesSame
    <2>3. CASE book' = book
      BY <1>1, <1>2, <2>1, <2>3 DEF TimesSame
    <2>4. CASE TakesOff
      <3>1. ASSUME NEW oid \in OrderId, CancelEffect(oid) PROVE InTime(book', order')
        BY <2>2, <2>3, <3>1 DEF CancelEffect, CancelResting, CancelStop, CancelUnknown
      <3>2. ASSUME NEW oid \in OrderId, NEW am \in Amendments, ModifyToNothing(oid, am) PROVE InTime(book', order')
        BY <2>2, <3>2 DEF ModifyToNothing, Modifiable
      <3>3. QED
        BY <1>5, <2>4, <3>1, <3>2 DEF TakesOff
    <2>5. CASE DropDrained \/ StpCancelOldest \/ StpDecrement \/ Execute
      BY <2>1, <2>5, MatchInTime
    <2>6. CASE Rest
      BY <2>1, <2>6, RestInTime
    <2>7. QED
      BY <1>6, <2>3, <2>4, <2>5, <2>6, BookSteps
  <1>8. QED
    BY <1>3, <1>4, <1>5, <1>6, <1>7 DEF Alters

-----------------------------------------------------------------------------
(* The book as PriceTimeBook sees it: a row for each order that rests.     *)

Row(ord, u) ==
  [side |-> ord[u].side, price |-> ord[u].price, tick |-> TicksOf(ord[u].price),
   since |-> ord[u].timestamp, left |-> Remaining(ord[u])]

SameRow(u) == Row(order', u) = Row(order, u)

OthersSame(u) == \A v \in Resting(book) \ {u} : v \in Resting(book') /\ SameRow(v)

Unseen == RestingView' = RestingView /\ Len(trades') = Len(trades)

Seen == PriceTime!Next \/ Unseen

LEMMA BothViews ==
  /\ RestingView = [u \in Resting(book) |-> Row(order, u)]
  /\ RestingView' = [u \in Resting(book') |-> Row(order', u)]
  /\ DOMAIN RestingView = Resting(book) /\ DOMAIN RestingView' = Resting(book')
  /\ \A u \in Resting(book) : RestingView[u] = Row(order, u)
  /\ \A u \in Resting(book') : RestingView'[u] = Row(order', u)
  <1>1. RestingView = [u \in Resting(book) |-> Row(order, u)]
    BY DEF RestingView, Row
  <1>2. RestingView' = [u \in Resting(book') |-> Row(order', u)]
    BY DEF RestingView, Row
  <1> HIDE DEF RestingView
  <1>3. QED
    BY <1>1, <1>2

LEMMA RowsKept ==
  ASSUME NEW u, Unfilled(order'[u], order[u]) \/ order'[u] = order[u]
  PROVE  SameRow(u)
  <1>1. CASE order'[u] = order[u]
    BY <1>1 DEF SameRow, Row
  <1>2. CASE Unfilled(order'[u], order[u])
    BY <1>2 DEF SameRow, Row, Unfilled, Steady, Alike, Remaining
  <1>3. QED
    BY <1>1, <1>2

LEMMA OthersView == ASSUME NEW u, OthersSame(u) PROVE PriceTime!OthersKept(u)
  BY BothViews DEF OthersSame, SameRow, PriceTime!OthersKept

LEMMA UnseenStep ==
  ASSUME Resting(book') = Resting(book), \A u \in Resting(book) : SameRow(u), Len(trades') = Len(trades)
  PROVE  Seen
  <1>1. \A u \in Resting(book) : Row(order', u) = Row(order, u)
    BY DEF SameRow
  <1>2. RestingView' = RestingView
    BY <1>1, BothViews
  <1>3. QED
    BY <1>2 DEF Seen, Unseen

LEMMA LeaveSeen ==
  ASSUME NEW u \in Resting(book), Resting(book') = Resting(book) \ {u},
         \A v \in Resting(book) \ {u} : SameRow(v), Len(trades') = Len(trades)
  PROVE  Seen
  <1>1. OthersSame(u)
    BY DEF OthersSame
  <1>2. u \in DOMAIN RestingView /\ DOMAIN RestingView' = DOMAIN RestingView \ {u}
    BY BothViews
  <1>3. PriceTime!Leave(u)
    BY <1>1, <1>2, OthersView DEF PriceTime!Leave
  <1>4. QED
    BY <1>2, <1>3 DEF Seen, PriceTime!Next

LEMMA ReduceSeen ==
  ASSUME NEW u \in Resting(book), Resting(book') = Resting(book), \A v \in Resting(book) \ {u} : SameRow(v),
         Len(trades') = Len(trades), Remaining(order'[u]) \in 1 .. Remaining(order[u]),
         order'[u].side = order[u].side, order'[u].price = order[u].price,
         order'[u].timestamp = order[u].timestamp
  PROVE  Seen
  <1>1. OthersSame(u)
    BY DEF OthersSame
  <1>2. /\ u \in DOMAIN RestingView /\ DOMAIN RestingView' = DOMAIN RestingView
        /\ RestingView[u] = Row(order, u) /\ RestingView'[u] = Row(order', u)
    BY BothViews
  <1>3. /\ Row(order', u).left \in 1 .. Row(order, u).left
        /\ Row(order', u) = [Row(order, u) EXCEPT !.left = Row(order', u).left]
    BY DEF Row
  <1>4. PriceTime!Reduce(u)
    BY <1>1, <1>2, <1>3, OthersView DEF PriceTime!Reduce
  <1>5. QED
    BY <1>2, <1>4 DEF Seen, PriceTime!Next

LEMMA RequoteSeen ==
  ASSUME NEW u \in Resting(book), Resting(book') = Resting(book), \A v \in Resting(book) \ {u} : SameRow(v),
         Len(trades') = Len(trades), Remaining(order'[u]) > 0, order'[u].side = order[u].side,
         order'[u].timestamp > order[u].timestamp,
         order'[u].price # order[u].price \/ Remaining(order'[u]) > Remaining(order[u]),
         \A v \in Resting(book) : order[v].timestamp <= order'[u].timestamp
  PROVE  Seen
  <1>1. OthersSame(u)
    BY DEF OthersSame
  <1>2. /\ u \in DOMAIN RestingView /\ DOMAIN RestingView' = DOMAIN RestingView
        /\ \A v \in DOMAIN RestingView : RestingView[v].since <= RestingView'[u].since
        /\ RestingView'[u].left > 0 /\ RestingView'[u].side = RestingView[u].side
        /\ RestingView'[u].since > RestingView[u].since
        /\ RestingView'[u].price # RestingView[u].price \/ RestingView'[u].left > RestingView[u].left
    BY BothViews DEF Row
  <1>3. PriceTime!JoinsTail(RestingView'[u], DOMAIN RestingView \ {u})
    BY <1>2 DEF PriceTime!JoinsTail
  <1>4. PriceTime!Requote(u)
    BY <1>1, <1>2, <1>3, OthersView DEF PriceTime!Requote
  <1>5. QED
    BY <1>2, <1>4 DEF Seen, PriceTime!Next

LEMMA EnterSeen ==
  ASSUME NEW u \in Uid, u \notin Resting(book), Resting(book') = Resting(book) \cup {u},
         \A v \in Resting(book) : SameRow(v), Len(trades') = Len(trades), Remaining(order'[u]) > 0,
         \A v \in Resting(book) : order[v].timestamp <= order'[u].timestamp
  PROVE  Seen
  <1>1. OthersSame(u)
    BY DEF OthersSame
  <1>2. /\ u \notin DOMAIN RestingView /\ DOMAIN RestingView' = DOMAIN RestingView \cup {u}
        /\ \A v \in DOMAIN RestingView : RestingView[v].since <= RestingView'[u].since
        /\ RestingView'[u].left > 0
    BY BothViews DEF Row
  <1>3. PriceTime!JoinsTail(RestingView'[u], DOMAIN RestingView)
    BY <1>2 DEF PriceTime!JoinsTail
  <1>4. PriceTime!Enter(u)
    BY <1>1, <1>2, <1>3, OthersView DEF PriceTime!Enter
  <1>5. QED
    BY <1>4 DEF Seen, PriceTime!Next

(* Nobody on its side precedes the head of the best level.                 *)
LEMMA HeadIsFirst ==
  ASSUME PlacesInv, InTime(book, order), Matching, TopLevel.queue # << >>
  PROVE  PriceTime!IsFirst(Maker)
  <1>1. /\ Maker \in ToSet(TopLevel.queue) /\ Maker \in Resting(book) /\ Maker = Head(TopLevel.queue)
        /\ Contra \in Side /\ Top \in Tick /\ TopLevel.queue \in Seq(Uid) /\ book.level[Contra][Top] = TopLevel
        /\ Placed(book, order)
    BY MakerFacts, TopFacts DEF Maker
  <1>2. order[Maker].side = Contra /\ TicksOf(order[Maker].price) = Top
    BY <1>1 DEF Placed, WellQueued
  <1>3. Ordered(TopLevel.queue, order)
    BY <1>1 DEF InTime
  <1>4. Booked(book, order, next_id) /\ order \in [Uid -> Order]
    BY BookedNow
  <1>5. \A x \in ToSet(TopLevel.queue) : order[x].timestamp \in Nat
    <2>1. ToSet(TopLevel.queue) \subseteq Uid
      BY <1>1, ToSetFacts
    <2>2. QED
      BY <1>4, <2>1 DEF Order
  <1>6. ASSUME NEW v \in Resting(book) PROVE ~PriceTime!Precedes(Row(order, v), Row(order, Maker))
    <2> DEFINE s == order[v].side
               t == TicksOf(order[v].price)
    <2>1. s \in Side /\ t \in Tick /\ t \in book.live[s] /\ v \in ToSet(book.level[s][t].queue)
          /\ order[v] \in Order
      BY <1>4, RestsAtHome DEF Home
    <2>2. order[v].timestamp \in Nat /\ order[Maker].timestamp \in Nat
      BY <1>1, <1>5, <2>1 DEF Order
    <2>3. ASSUME s = Contra, t = Top PROVE order[Maker].timestamp <= order[v].timestamp
      BY <1>1, <1>3, <1>5, <2>1, <2>3, HeadIsOldest
    <2>4. ASSUME s = Contra
          PROVE  Top \in Nat /\ t \in Nat /\ IF s = "BUY" THEN t <= Top ELSE Top <= t
      BY <1>4, <2>1, <2>4, BestExtreme DEF Top, Booked, BookOK
    <2>5. /\ Row(order, v).side = s /\ Row(order, v).tick = t /\ Row(order, v).since = order[v].timestamp
          /\ Row(order, Maker).side = Contra /\ Row(order, Maker).tick = Top
          /\ Row(order, Maker).since = order[Maker].timestamp
      BY <1>2 DEF Row
    <2> HIDE DEF s, t
    <2>6. QED
      BY <2>2, <2>3, <2>4, <2>5 DEF PriceTime!Precedes
  <1>7. QED
    BY <1>1, <1>6, BothViews DEF PriceTime!IsFirst

LEMMA RemainingLess ==
  ASSUME NEW o, NEW p, NEW n \in Nat, o.quantity \in Nat, o.filled \in Nat, o.filled + n <= o.quantity,
         p.quantity = o.quantity, p.filled = o.filled + n
  PROVE  Remaining(o) \in Int /\ Remaining(p) = Remaining(o) - n /\ Remaining(p) >= 0
  BY DEF Remaining, Clip

(* What a charge of the match shows of the book.                           *)
ChargedMaker ==
  /\ order'[Maker].side = order[Maker].side /\ order'[Maker].price = order[Maker].price
  /\ order'[Maker].timestamp = order[Maker].timestamp
  /\ Remaining(order[Maker]) \in Int /\ Remaining(order'[Maker]) = Remaining(order[Maker]) - Overlap

LEMMA ChargeView ==
  ASSUME PlacesInv, EngineInv', NoneOf("ICEBERG"), StpDecrement \/ Execute
  PROVE  /\ Maker \in Resting(book) /\ ChargedMaker /\ \A v \in Resting(book) \ {Maker} : SameRow(v)
         /\ \/ Remaining(order'[Maker]) = 0 /\ Resting(book') = Resting(book) \ {Maker}
            \/ Remaining(order'[Maker]) > 0 /\ Resting(book') = Resting(book)
  <1>1. /\ Matching /\ TopLevel.queue # << >> /\ \A u \in Uid : u \notin {cur, Maker} => order'[u] = order[u]
        /\ order'[Maker].filled = order[Maker].filled + Overlap
        /\ order'[Maker].quantity = order[Maker].quantity
    BY ChargeFacts
  <1>2. /\ Maker \in Resting(book) /\ Maker \in Uid /\ Overlap \in Nat /\ order[Maker] \in Order
        /\ order[cur] \in Order /\ pc = "match" /\ Maker \in ToSet(TopLevel.queue)
    BY <1>1, MakerFacts
  <1>3. ASSUME NEW v \in Resting(book) \ {Maker} PROVE SameRow(v)
    <2>1. v # cur /\ v \in Uid
      BY <1>2, HandFacts, PlaceFacts
    <2>2. QED
      BY <1>1, <2>1, RowsKept
  <1>3a. order[Maker].quantity \in Nat /\ order[Maker].filled \in Nat /\ Overlap \in Nat
    BY <1>2 DEF Order
  <1>3b. order[Maker].filled + Overlap <= order[Maker].quantity
    BY <1>1, OverlapFits DEF PlacesInv
  <1>4. /\ Remaining(order[Maker]) \in Int /\ Remaining(order'[Maker]) = Remaining(order[Maker]) - Overlap
        /\ Remaining(order'[Maker]) >= 0
    <2>1. order'[Maker].quantity = order[Maker].quantity /\ order'[Maker].filled = order[Maker].filled + Overlap
      BY <1>1
    <2>2. QED
      BY <1>3a, <1>3b, <2>1, RemainingLess
  <1>5. Steady(order'[Maker], order[Maker])
    BY <1>2, ChargesSteady
  <1>6. ChargedMaker
    BY <1>4, <1>5 DEF ChargedMaker, Steady, Alike
  <1>8. \/ Remaining(order'[Maker]) = 0 /\ Resting(book') = Resting(book) \ {Maker}
        \/ Remaining(order'[Maker]) # 0 /\ Resting(book') = Resting(book)
    <2>1. /\ Executed \in Order /\ Steady(Executed, order[Maker])
          /\ Decremented \in Order /\ Steady(Decremented, order[Maker])
          /\ Executed.filled = order[Maker].filled + Overlap
          /\ Decremented.filled = order[Maker].filled + Overlap
          /\ Executed.quantity = order[Maker].quantity /\ Decremented.quantity = order[Maker].quantity
      BY <1>1, ChargedFacts
    <2>2. Remaining(Executed) = Remaining(order'[Maker]) /\ Remaining(Decremented) = Remaining(order'[Maker])
      BY <1>1, <2>1 DEF Remaining
    <2>3. Consume(Executed, Overlap, "FILLED") \/ Consume(Decremented, Overlap, "CANCELED")
      BY DEF StpDecrement, Execute, Executed, Decremented
    <2>4. order[Maker].type # "ICEBERG"
      BY <1>1, MakerFacts DEF NoneOf
    <2>5. /\ Contra \in Side /\ Top \in Tick /\ TopLevel = book.level[Contra][Top]
          /\ ToSet(Tail(TopLevel.queue)) = ToSet(TopLevel.queue) \ {Maker}
      BY <1>1, MakerFacts, TopFacts
    <2>6. ASSUME NEW o \in Order, Steady(o, order[Maker]), NEW final, Consume(o, Overlap, final)
          PROVE  \/ Remaining(o) = 0 /\ Resting(book') = Resting(book) \ {Maker}
                 \/ Remaining(o) # 0 /\ Resting(book') = Resting(book)
      <3> DEFINE f == UpdateVolumeAfterFill(TopLevel, o, Maker, Overlap)
                 lv == ChargedLevel(f, order', Remaining(o) = 0)
                 map == IF Remaining(o) = 0 THEN [book.map EXCEPT ![order[Maker].oid] = None] ELSE book.map
      <3>1. /\ book' = BookWith(book.live, book, Contra, Top, lv, map)
            /\ lv.queue = IF Remaining(o) = 0 THEN Tail(TopLevel.queue) ELSE TopLevel.queue
        BY <1>1, <2>4, <2>6, ConsumeIs
      <3> HIDE DEF f, lv, map
      <3>2. /\ ToSet(lv.queue) = ToSet(TopLevel.queue) => Resting(book') = Resting(book)
            /\ \A u \in ToSet(TopLevel.queue) :
                  ToSet(lv.queue) = ToSet(TopLevel.queue) \ {u} => Resting(book') = Resting(book) \ {u}
        BY <2>5, <3>1, QueueNow
      <3>3. QED
        BY <1>2, <2>5, <3>1, <3>2
    <2>7. QED
      BY <2>1, <2>2, <2>3, <2>6
  <1>9. QED
    BY <1>2, <1>3, <1>4, <1>6, <1>8

LEMMA DecrementSeen ==
  ASSUME PlacesInv, EngineInv', NoneOf("ICEBERG"), StpDecrement
  PROVE  Seen
  <1>1. trades' = trades
    BY DEF StpDecrement
  <1>2. /\ Maker \in Resting(book) /\ ChargedMaker /\ \A v \in Resting(book) \ {Maker} : SameRow(v)
        /\ \/ Remaining(order'[Maker]) = 0 /\ Resting(book') = Resting(book) \ {Maker}
           \/ Remaining(order'[Maker]) > 0 /\ Resting(book') = Resting(book)
    BY ChargeView
  <1>3. Overlap \in Nat
    BY MakerFacts DEF StpDecrement, Prevents
  <1>4. CASE Remaining(order'[Maker]) > 0 /\ Resting(book') = Resting(book)
    <2>1. /\ Remaining(order'[Maker]) \in 1 .. Remaining(order[Maker])
          /\ order'[Maker].side = order[Maker].side /\ order'[Maker].price = order[Maker].price
          /\ order'[Maker].timestamp = order[Maker].timestamp
      BY <1>2, <1>3, <1>4 DEF ChargedMaker
    <2>2. QED
      BY <1>1, <1>2, <1>4, <2>1, ReduceSeen
  <1>5. QED
    BY <1>1, <1>2, <1>4, LeaveSeen

LEMMA ExecuteSeen ==
  ASSUME PlacesInv, EngineInv', NoneOf("ICEBERG"), InTime(book, order), Execute
  PROVE  Seen
  <1> DEFINE m == Maker
  <1>1. Len(trades') = Len(trades) + 1
    <2> DEFINE t == [maker |-> Maker, taker |-> cur, price |-> Top, quantity |-> Overlap,
                     timestamp |-> order[cur].timestamp]
    <2>1. trades' = Append(trades, t) /\ t \in Trade
      BY ExecuteFills
    <2>2. trades \in Seq(Trade)
      BY DEF PlacesInv, EngineInv
    <2> HIDE DEF t
    <2>3. QED
      BY <2>1, <2>2, AppendFacts
  <1>2. /\ m \in Resting(book) /\ ChargedMaker /\ \A v \in Resting(book) \ {m} : SameRow(v)
        /\ \/ Remaining(order'[m]) = 0 /\ Resting(book') = Resting(book) \ {m}
           \/ Remaining(order'[m]) > 0 /\ Resting(book') = Resting(book)
    BY ChargeView
  <1>3. Overlap \in Nat /\ Overlap > 0 /\ PriceTime!IsFirst(m)
    BY MakerFacts, HeadIsFirst DEF Execute, Prevents
  <1>4. /\ order'[m].side = order[m].side /\ order'[m].price = order[m].price
        /\ order'[m].timestamp = order[m].timestamp
        /\ Remaining(order[m]) \in Int /\ Remaining(order'[m]) = Remaining(order[m]) - Overlap
    BY <1>2 DEF ChargedMaker
  <1> HIDE DEF m
  <1>5. OthersSame(m) /\ PriceTime!OthersKept(m)
    BY <1>2, OthersView DEF OthersSame
  <1>6. /\ m \in DOMAIN RestingView /\ RestingView[m] = Row(order, m)
        /\ DOMAIN RestingView = Resting(book) /\ DOMAIN RestingView' = Resting(book')
    BY <1>2, BothViews
  <1>7. CASE Remaining(order'[m]) > 0 /\ Resting(book') = Resting(book)
    <2>1. RestingView'[m] = Row(order', m)
      BY <1>2, <1>7, BothViews
    <2>2. /\ Row(order', m).left \in 1 .. Row(order, m).left - 1
          /\ Row(order', m) = [Row(order, m) EXCEPT !.left = Row(order', m).left]
      BY <1>3, <1>4, <1>7 DEF Row
    <2>3. PriceTime!Execute(m)
      BY <1>1, <1>3, <1>5, <1>6, <1>7, <2>1, <2>2 DEF PriceTime!Execute
    <2>4. QED
      BY <1>6, <2>3 DEF Seen, PriceTime!Next
  <1>8. CASE Resting(book') = Resting(book) \ {m}
    <2>1. PriceTime!Execute(m)
      BY <1>1, <1>3, <1>5, <1>6, <1>8 DEF PriceTime!Execute
    <2>2. QED
      BY <1>6, <2>1 DEF Seen, PriceTime!Next
  <1>9. QED
    BY <1>2, <1>7, <1>8

LEMMA RestSeen ==
  ASSUME PlacesInv, EngineInv', TimesPassed, CallTimes, Rest, Arrives(cur),
         \A v \in Uid : Unfilled(order'[v], order[v])
  PROVE  Seen
  <1>1. cur \in Uid /\ cur \notin Resting(book) /\ pc = "residual" /\ trades' = trades
    BY HandFacts DEF Rest
  <1>2. Resting(book') = Resting(book) \cup {cur} /\ Resting(book) \subseteq Uid
    BY PlaceFacts DEF Arrives
  <1>3. Remaining(order'[cur]) > 0 /\ order'[cur].timestamp = order[cur].timestamp
    <2>1. Remaining(order[cur]) > 0
      BY DEF Rest
    <2>2. Unfilled(order'[cur], order[cur])
      BY <1>1
    <2>3. QED
      BY <2>1, <2>2 DEF Unfilled, Steady, Remaining
  <1>4. \A v \in Resting(book) : order[v].timestamp <= order'[cur].timestamp
    BY <1>1, <1>2, <1>3 DEF TimesPassed, CallTimes
  <1>5. \A v \in Resting(book) : SameRow(v)
    BY <1>2, RowsKept
  <1>6. QED
    BY <1>1, <1>2, <1>3, <1>4, <1>5, EnterSeen

LEMMA SteadySeen ==
  ASSUME PlacesInv, EngineInv', MappedRest, NoneOf("ICEBERG"), TimesPassed, CallTimes,
         [Next]_vars, ~Alters, ~(StpDecrement \/ Execute)
  PROVE  Seen
  <1>1. \A v \in Uid : Unfilled(order'[v], order[v])
    BY StepShown DEF AsShown
  <1>2. trades' = trades /\ Resting(book) \subseteq Uid
    BY TradesByExecute, PlaceFacts
  <1>3. \A v \in Resting(book) : SameRow(v)
    BY <1>1, <1>2, RowsKept
  <1>4. CASE Stays
    BY <1>2, <1>3, <1>4, UnseenStep DEF Stays
  <1>5. ASSUME NEW u, Leaves(u) PROVE Seen
    <2>1. u \in Resting(book) /\ Resting(book') = Resting(book) \ {u}
      BY <1>5 DEF Leaves
    <2>2. QED
      BY <1>2, <1>3, <2>1, LeaveSeen
  <1>6. CASE Rest /\ Arrives(cur)
    BY <1>1, <1>6, RestSeen
  <1>7. QED
    BY <1>4, <1>5, <1>6, IndexSteps

LEMMA ReduceIsSeen ==
  ASSUME PlacesInv, EngineInv', MappedRest, NEW oid \in OrderId, NEW am \in Amendments, ModifyReduce(oid, am)
  PROVE  Seen
  <1> DEFINE u == book.map[oid]
             o == order[u]
             p == Reduced(o, am)
  <1>1. /\ u # None /\ order' = [order EXCEPT ![u] = p] /\ trades' = trades /\ Modifiable(oid)
        /\ ~AmendsToNothing(o, am) /\ ~LosesPriority(o, am)
    BY DEF ModifyReduce, Modifiable
  <1>2. u \in Resting(book) /\ u \in Uid /\ order \in [Uid -> Order] /\ Resting(book) \subseteq Uid
    BY <1>1, PlaceFacts DEF MappedRest, Mapped
  <1>3. o \in Order /\ o.filled <= o.quantity /\ am.quantity \in Nat
    BY <1>1, ModifiableKnown DEF PlacesInv
  <1>4. /\ p.side = o.side /\ p.price = o.price /\ p.timestamp = o.timestamp
        /\ p.quantity = am.quantity /\ p.filled = o.filled
        /\ o.quantity \in Nat /\ o.filled \in Nat
    BY <1>3 DEF Reduced, Order
  <1>5. am.quantity > o.filled /\ am.quantity <= o.quantity
    BY <1>1, <1>3, <1>4 DEF AmendsToNothing, LosesPriority
  <1>6. Remaining(p) \in 1 .. Remaining(o)
    BY <1>3, <1>4, <1>5 DEF Remaining, Clip
  <1> HIDE DEF u, p, o
  <1>7. order'[u] = p /\ order[u] = o
    BY <1>1, <1>2 DEF o
  <1>8. \A v \in Resting(book) \ {u} : SameRow(v)
    BY <1>1, <1>2, RowsKept
  <1>9. Resting(book') = Resting(book)
    BY ReduceIndex DEF Stays
  <1>10. QED
    BY <1>1, <1>2, <1>4, <1>6, <1>7, <1>8, <1>9, ReduceSeen

LEMMA RequoteIsSeen ==
  ASSUME PlacesInv, EngineInv', MappedRest, TimesPassed, NEW oid \in OrderId, NEW am \in Amendments,
         ModifyRequote(oid, am)
  PROVE  Seen
  <1> DEFINE u == book.map[oid]
             o == order[u]
             p == Requoted(o, am, clock + 1)
  <1>1. /\ order' = [order EXCEPT ![u] = p] /\ trades' = trades /\ Modifiable(oid)
        /\ ~AmendsToNothing(o, am) /\ clock \in Nat
    BY DEF ModifyRequote, Modifiable, PlacesInv, EngineInv
  <1>2. u \in Resting(book) /\ u \in Uid /\ order \in [Uid -> Order] /\ Resting(book) \subseteq Uid
    BY <1>1, PlaceFacts DEF MappedRest, Mapped, Modifiable
  <1>3. o \in Order /\ am.quantity \in Nat
    BY <1>1, ModifiableKnown DEF PlacesInv
  <1>4. /\ p.side = o.side /\ p.timestamp = clock + 1 /\ p.quantity = am.quantity /\ p.filled = o.filled
        /\ o.filled \in Nat
    BY <1>3 DEF Requoted, Order
  <1>5. Remaining(p) > 0
    BY <1>1, <1>3, <1>4 DEF AmendsToNothing, Remaining, Clip
  <1>6. p.price # o.price \/ Remaining(p) > Remaining(o)
    <2>1. LosesPriority(o, am)
      BY DEF ModifyRequote
    <2>2. p.price = AmendedPrice(o, am) /\ o.quantity \in Nat
      BY <1>3 DEF Requoted, Order
    <2>3. QED
      BY <1>1, <1>3, <1>4, <2>1, <2>2 DEF LosesPriority, AmendsToNothing, Remaining, Clip
  <1> HIDE DEF p, o
  <1>7. order'[u] = p /\ order[u] = o
    BY <1>1, <1>2 DEF o
  <1>8. \A v \in Resting(book) \ {u} : SameRow(v)
    BY <1>1, <1>2, RowsKept
  <1>9. Resting(book') = Resting(book)
    BY RequoteIndex DEF Stays
  <1>10. \A v \in Resting(book) : order[v].timestamp < order'[u].timestamp
                                 /\ order[v].timestamp <= order'[u].timestamp
    <2>1. \A v \in Uid : order[v].timestamp \in Nat /\ order[v].timestamp <= clock
      BY <1>2 DEF TimesPassed, Order
    <2>2. QED
      BY <1>1, <1>2, <1>4, <1>7, <2>1
  <1> HIDE DEF u
  <1>11. QED
    BY <1>1, <1>2, <1>4, <1>5, <1>6, <1>7, <1>8, <1>9, <1>10, RequoteSeen

LEMMA AltersSeen ==
  ASSUME PlacesInv, EngineInv', MappedRest, TimesPassed, Alters
  PROVE  Seen
  <1>1. Resting(book) \subseteq Uid /\ Resting(book) \subseteq 1 .. next_id /\ next_id \in Nat
    BY PlaceFacts
  <1>2. ASSUME NEW tk \in Tickets, Submit(tk) PROVE Seen
    <2>1. book' = book /\ trades' = trades /\ \A v \in Uid : v # next_id + 1 => order'[v] = order[v]
      BY <1>2, SubmitFacts, SubmitTimes
    <2>2. \A v \in Resting(book) : SameRow(v)
      BY <1>1, <2>1, RowsKept
    <2>3. QED
      BY <2>1, <2>2, UnseenStep
  <1>3. ASSUME NEW u \in Uid, Trigger(u) PROVE Seen
    <2>1. /\ u \in Heaped(stops) /\ book' = book /\ trades' = trades
          /\ \A v \in Uid : v # u => order'[v] = order[v]
      BY <1>3, TriggeredFacts
    <2>2. u \notin Resting(book)
      BY <2>1, PlaceFacts DEF Apart
    <2>3. \A v \in Resting(book) : SameRow(v)
      BY <1>1, <2>1, <2>2, RowsKept
    <2>4. QED
      BY <2>1, <2>3, UnseenStep
  <1>4. ASSUME NEW oid \in OrderId, NEW am \in Amendments, ModifyAcross(oid, am) PROVE Seen
    <2> DEFINE u == book.map[oid]
    <2>1. u # None /\ book' = RemoveOrder(book, order, u) /\ trades' = trades
      BY <1>4 DEF ModifyAcross, Modifiable
    <2>2. \A v \in Uid : v # u => order'[v] = order[v]
      BY <1>4, AmendedTimes
    <2> HIDE DEF u
    <2>3. Leaves(u)
      BY <2>1, RemoveIndex DEF u
    <2>4. u \in Resting(book) /\ Resting(book') = Resting(book) \ {u}
      BY <2>3 DEF Leaves
    <2>5. \A v \in Resting(book) \ {u} : SameRow(v)
      BY <1>1, <2>2, RowsKept
    <2>6. QED
      BY <2>1, <2>4, <2>5, LeaveSeen
  <1>5. QED
    BY <1>2, <1>3, <1>4, RequoteIsSeen, ReduceIsSeen DEF Alters

-----------------------------------------------------------------------------
PriceTimeInv == DueInv /\ NoneOf("ICEBERG") /\ MappedRest /\ CallTimes /\ InTime(book, order)

LEMMA InitPriceTime == Init => PriceTimeInv /\ PriceTime!Init
  <1>1. SUFFICES ASSUME Init PROVE PriceTimeInv /\ PriceTime!Init
    OBVIOUS
  <1>2. DueInv /\ MappedRest /\ NoneOf("ICEBERG")
    BY <1>1, InitDue, InitAddsUp
  <1>3. /\ pending = << >> /\ pc = "idle" /\ trades = << >> /\ book = EmptyBook
        /\ \A s \in Side, t \in Tick : book.level[s][t].queue = << >>
    BY <1>1 DEF Init, EmptyBook, NewLevel
  <1>4. CallTimes
    <2>1. ToSet(pending) = {}
      BY <1>3, EmptyQueue
    <2>2. pc \notin {"match", "residual", "trigger"}
      BY <1>3
    <2>3. QED
      BY <2>1, <2>2 DEF CallTimes
  <1>5. InTime(book, order)
    <2>1. Ordered(<< >>, order)
      BY DEF Ordered
    <2>2. QED
      BY <1>3, <2>1 DEF InTime
  <1>6. Resting(book) = {}
    <2>1. Booked(book, order, next_id)
      BY <1>2, BookedNow DEF DueInv
    <2>2. \A u : u \in Resting(book) <=> \E s \in Side, t \in Tick : u \in ToSet(book.level[s][t].queue)
      BY <2>1, WhoRests DEF Booked
    <2>3. QED
      BY <1>3, <2>2, EmptyQueue
  <1>7. PriceTime!Init
    BY <1>3, <1>6 DEF PriceTime!Init, RestingView
  <1>8. QED
    BY <1>2, <1>4, <1>5, <1>7 DEF PriceTimeInv

LEMMA StepPriceTime ==
  ASSUME NeverSent("ICEBERG")
  PROVE  PriceTimeInv /\ [Next]_vars => PriceTimeInv' /\ [PriceTime!Next]_(PriceTime!vars)
  <1>1. SUFFICES ASSUME PriceTimeInv, [Next]_vars PROVE PriceTimeInv' /\ [PriceTime!Next]_(PriceTime!vars)
    OBVIOUS
  <1>2. /\ DueInv /\ PlacesInv /\ TimesPassed /\ StopsComeAlone /\ NoneOf("ICEBERG") /\ MappedRest /\ CallTimes
        /\ InTime(book, order)
    BY <1>1 DEF PriceTimeInv, DueInv
  <1>3. DueInv' /\ PlacesInv' /\ EngineInv' /\ TimesPassed'
    BY <1>1, <1>2, StepDue DEF DueInv, PlacesInv
  <1>4. NoneOf("ICEBERG")' /\ MappedRest'
    BY <1>1, <1>2, <1>3, TypesStay, StepMapped
  <1>5. CallTimes'
    BY <1>1, <1>2, <1>3, StepCallTimes
  <1>6. InTime(book', order')
    BY <1>1, <1>2, <1>3, StepInTime
  <1>7. Seen
    <2>1. CASE Alters
      BY <1>2, <1>3, <2>1, AltersSeen
    <2>2. CASE StpDecrement \/ Execute
      BY <1>2, <1>3, <2>2, DecrementSeen, ExecuteSeen
    <2>3. CASE ~Alters /\ ~(StpDecrement \/ Execute)
      BY <1>1, <1>2, <1>3, <2>3, SteadySeen
    <2>4. QED
      BY <2>1, <2>2, <2>3
  <1>8. [PriceTime!Next]_(PriceTime!vars)
    BY <1>7 DEF Seen, Unseen, PriceTime!vars
  <1>9. QED
    BY <1>3, <1>4, <1>5, <1>6, <1>8 DEF PriceTimeInv

(* Price-time priority: seen as the orders that rest, each with its tick   *)
(* and its time, the engine only does what PriceTimeBook allows.  Each     *)
(* execution takes from an order none on its side precedes, whoever enters *)
(* or is requoted stands behind all of its tick, and a reduction keeps the *)
(* place.  Icebergs are excluded: one whose tranche is used up goes to the *)
(* tail of its queue with the time it had.                                 *)
THEOREM PriorityHolds ==
  ASSUME NeverSent("ICEBERG")
  PROVE  Spec => PriceTimePriority
  <1>1. Init => PriceTimeInv /\ PriceTime!Init
    BY InitPriceTime
  <1>2. PriceTimeInv /\ [Next]_vars => PriceTimeInv' /\ [PriceTime!Next]_(PriceTime!vars)
    BY StepPriceTime
  <1>3. QED
    BY <1>1, <1>2, PTL DEF Spec, PriceTimePriority, PriceTime!Spec

=============================================================================
