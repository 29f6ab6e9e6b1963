-------------------------- MODULE EngineOrdersProofs --------------------------
(***************************************************************************)
(* Proofs about what may still happen to an order of the matching engine,  *)
(* given that it is in one place at a time (MatchingEngineProofs): that it *)
(* does not trade with its own participant against a prevention mode, that *)
(* it is not triggered when it was cancelled, and that it is not filled    *)
(* when it has ended.                                                      *)
(***************************************************************************)
EXTENDS MatchingEngineProofs

-----------------------------------------------------------------------------
(* What most steps do to the orders: nothing, or they mark one that is in  *)
(* play nowhere afterwards.                                                *)

InPlay == ToSet(pending) \cup InHand \cup Resting(book) \cup Mapped(stops.map)

(* No order comes to a place where it was not before.                      *)
Fading ==
  /\ next_id' = next_id /\ trades' = trades /\ (pc' = "match" => pc = "match")
  /\ ToSet(pending') \subseteq ToSet(pending) /\ InHand' \subseteq InHand
  /\ Resting(book') \subseteq Resting(book) /\ OnBook(book') \subseteq OnBook(book)
  /\ Mapped(stops'.map) \subseteq Mapped(stops.map)

Retires(u, st) ==
  /\ u \in 1 .. next_id /\ u \in Uid /\ st \in {"REJECTED", "CANCELED", "FILLED", "PARTIALLY_FILLED"}
  /\ order' = Marked(order, u, st)
  /\ u \notin InPlay'

OrdersStay == order' = order

LEMMA ThinnerRests ==
  ASSUME PlacesInv, EngineInv', next_id' = next_id, Thinner(book', book)
  PROVE  Resting(book') \subseteq Resting(book) /\ OnBook(book') \subseteq OnBook(book)
  <1>1. /\ next_id \in 0 .. MaxOrders /\ BookOK(book, order, next_id) /\ Placed(book, order)
        /\ Named(book.map, order)
    BY PlaceFacts
  <1>2. BookOK(book', order', next_id)
    BY DEF EngineInv
  <1>3. QED
    BY <1>1, <1>2, ThinnerPlaced

LEMMA StillRests ==
  ASSUME PlacesInv, EngineInv', next_id' = next_id, book' = book
  PROVE  Resting(book') \subseteq Resting(book) /\ OnBook(book') \subseteq OnBook(book)
  <1>1. Thinner(book', book)
    BY ThinnerItself, PlaceFacts
  <1>2. QED
    BY <1>1, ThinnerRests

LEMMA WaitingHeaped == ASSUME PlacesInv PROVE Mapped(stops.map) \subseteq Heaped(stops)
  BY DEF PlacesInv, StopsPlaced

LEMMA AsideFades ==
  ASSUME PlacesInv, EngineInv',
         \/ \E w \in Owner : CancelAll(w)
         \/ SweepStops \/ SweepDone \/ Drained \/ MatchDone \/ NoProgress \/ TriggersDone
         \/ UNCHANGED vars
  PROVE  Fading /\ OrdersStay
  <1>1. UNCHANGED <<order, book, stops, pending, next_id>> /\ InHand' \subseteq InHand
    BY AsideKeeps
  <1>2. (pc' = "match" => pc = "match") /\ trades' = trades
    BY DEF CancelAll, SweepStops, SweepDone, Drained, MatchDone, NoProgress, TriggersDone, vars
  <1>3. Resting(book') \subseteq Resting(book) /\ OnBook(book') \subseteq OnBook(book)
    BY <1>1, StillRests
  <1>4. QED
    BY <1>1, <1>2, <1>3 DEF Fading, OrdersStay

LEMMA DropFades == ASSUME PlacesInv, EngineInv', DropDrained PROVE Fading /\ OrdersStay
  <1>1. UNCHANGED <<order, next_id, stops, pending, pc, cur, trades>>
    BY DEF DropDrained
  <1>2. Resting(book') \subseteq Resting(book) /\ OnBook(book') \subseteq OnBook(book)
    BY <1>1, DropKeeps, ThinnerRests
  <1>3. InHand' = InHand
    BY <1>1 DEF InHand
  <1>4. QED
    BY <1>1, <1>2, <1>3 DEF Fading, OrdersStay

LEMMA SkipFades == ASSUME PlacesInv, EngineInv', NEW u \in Uid, SkipCanceled(u) PROVE Fading /\ OrdersStay
  <1>1. UNCHANGED <<order, next_id, book, pending, pc, cur, trades>> /\ stops' = PopStop(stops, order[u], u)
        /\ u \in stops.heap[order[u].side]
    BY DEF SkipCanceled, NextDue, IsHeapTop
  <1>2. Resting(book') \subseteq Resting(book) /\ OnBook(book') \subseteq OnBook(book)
    BY <1>1, StillRests
  <1>3. InHand' = InHand
    BY <1>1 DEF InHand
  <1>4. Mapped(stops'.map) \subseteq Mapped(stops.map)
    BY <1>1, StopPopped
  <1>5. QED
    BY <1>1, <1>2, <1>3, <1>4 DEF Fading, OrdersStay

LEMMA RejectRetires ==
  ASSUME PlacesInv, EngineInv', NEW u, Taking(u), Reject(u)
  PROVE  Fading /\ Retires(u, "REJECTED")
  <1>1. /\ order' = Marked(order, u, "REJECTED") /\ pending' = Tail(pending)
        /\ UNCHANGED <<next_id, book, stops, pc, cur, trades>>
    BY DEF Reject
  <1>2. /\ u \in Uid /\ u \in ToSet(pending) /\ u \in 1 .. next_id
        /\ ToSet(Tail(pending)) = ToSet(pending) \ {u}
    BY TakenFacts
  <1>3. Resting(book') \subseteq Resting(book) /\ OnBook(book') \subseteq OnBook(book)
    BY <1>1, StillRests
  <1>4. InHand' = InHand
    BY <1>1 DEF InHand
  <1>5. u \notin InHand /\ u \notin Resting(book) /\ u \notin Mapped(stops.map)
    BY <1>2, PlaceFacts, WaitingHeaped DEF Apart
  <1>6. QED
    BY <1>1, <1>2, <1>3, <1>4, <1>5 DEF Fading, Retires, InPlay

LEMMA CancelRetires ==
  ASSUME PlacesInv, EngineInv', NEW oid \in OrderId, CancelEffect(oid),
         UNCHANGED <<next_id, pending, pc, cur, trades>>
  PROVE  Fading /\ (OrdersStay \/ \E u : Retires(u, "CANCELED"))
  <1>1. InHand' = InHand
    BY DEF InHand
  <1>2. CASE CancelResting(oid)
    <2> DEFINE u == book.map[oid]
    <2>1. /\ book' = RemoveOrder(book, order, u) /\ order' = Marked(order, u, "CANCELED")
          /\ stops' = stops /\ book.map[oid] # None
      BY <1>2 DEF CancelResting
    <2>2. /\ u \in Uid /\ u \in 1 .. next_id /\ Thinner(book', book) /\ u \notin Resting(book')
          /\ u \notin ToSet(pending) /\ u \notin Heaped(stops) /\ u \notin InHand
      BY <2>1, OnMap DEF OnBook
    <2>3. Resting(book') \subseteq Resting(book) /\ OnBook(book') \subseteq OnBook(book)
      BY <2>2, ThinnerRests
    <2> HIDE DEF u
    <2>4. QED
      BY <1>1, <2>1, <2>2, <2>3, WaitingHeaped DEF Fading, Retires, InPlay
  <1>3. CASE CancelStop(oid)
    <2> DEFINE u == stops.map[oid]
    <2>1. /\ stops' = ForgetStop(stops, oid) /\ order' = Marked(order, u, "CANCELED")
          /\ book' = book /\ u # None
      BY <1>3 DEF CancelStop
    <2>2. u \in Heaped(stops)
      BY <2>1, WaitingHeaped DEF Mapped
    <2>3. u \notin Mapped(stops'.map) /\ Mapped(stops'.map) \subseteq Mapped(stops.map)
      BY <2>1, StopForgotten
    <2> HIDE DEF u
    <2>4. u \in 1 .. next_id /\ u \in Uid /\ u \notin ToSet(pending) /\ u \notin InHand /\ u \notin Resting(book)
      BY <2>2, PlaceFacts DEF Apart
    <2>5. Resting(book') \subseteq Resting(book) /\ OnBook(book') \subseteq OnBook(book)
      BY <2>1, StillRests
    <2>6. QED
      BY <1>1, <2>1, <2>3, <2>4, <2>5 DEF Fading, Retires, InPlay
  <1>4. CASE CancelUnknown(oid)
    <2>1. UNCHANGED <<order, book, stops>>
      BY <1>4 DEF CancelUnknown
    <2>2. Resting(book') \subseteq Resting(book) /\ OnBook(book') \subseteq OnBook(book)
      BY <2>1, StillRests
    <2>3. QED
      BY <1>1, <2>1, <2>2 DEF Fading, OrdersStay
  <1>5. QED
    BY <1>2, <1>3, <1>4 DEF CancelEffect

LEMMA CancelOldestRetires ==
  ASSUME PlacesInv, EngineInv', StpCancelOldest
  PROVE  Fading /\ Retires(Maker, "CANCELED")
  <1>1. /\ order' = Marked(order, Maker, "CANCELED") /\ UNCHANGED <<next_id, stops, pending, pc, cur, trades>>
        /\ Matching /\ TopLevel.queue # << >>
    BY DEF StpCancelOldest, Prevents
  <1>2. Resting(book') \subseteq Resting(book) /\ OnBook(book') \subseteq OnBook(book)
        /\ Maker \notin Resting(book')
    BY <1>1, CancelOldestKeeps, ThinnerRests
  <1>3. Maker \in OnBook(book) /\ Maker \in 1 .. next_id /\ Maker \in Uid
    BY <1>1, MakerFacts
  <1>4. InHand' = InHand
    BY <1>1 DEF InHand
  <1>5. Maker \notin ToSet(pending) /\ Maker \notin InHand /\ Maker \notin Mapped(stops.map)
    BY <1>3, PlaceFacts, WaitingHeaped DEF Apart
  <1>6. Maker \notin InPlay'
    <2> DEFINE m == Maker
    <2>1. /\ m \notin ToSet(pending) /\ m \notin InHand /\ m \notin Mapped(stops.map)
          /\ m \notin Resting(book')
      BY <1>2, <1>5
    <2> HIDE DEF m
    <2>2. m \notin InPlay'
      BY <1>1, <1>4, <2>1 DEF InPlay
    <2>3. QED
      BY <2>2 DEF m
  <1>7. QED
    BY <1>1, <1>2, <1>3, <1>4, <1>6 DEF Fading, Retires

LEMMA ResidualRetires ==
  ASSUME PlacesInv, EngineInv', Complete \/ Expire
  PROVE  Fading /\ \E st : Retires(cur, st)
  <1>1. PICK st \in {"CANCELED", "FILLED", "PARTIALLY_FILLED"} : order' = Marked(order, cur, st)
    BY DEF Complete, Expire
  <1>2. /\ UNCHANGED <<next_id, book, stops, pending, cur, trades>> /\ InHand = {cur} /\ InHand' = {}
        /\ cur \in 1 .. next_id /\ cur \in Uid /\ pc' # "match"
    BY CurKnown DEF Complete, Expire, AfterResidual, InHand, PlacesInv
  <1>3. Resting(book') \subseteq Resting(book) /\ OnBook(book') \subseteq OnBook(book)
    BY <1>2, StillRests
  <1>4. cur \notin ToSet(pending) /\ cur \notin Resting(book) /\ cur \notin Mapped(stops.map)
    BY <1>2, PlaceFacts, WaitingHeaped DEF Apart
  <1>5. QED
    BY <1>1, <1>2, <1>3, <1>4 DEF Fading, Retires, InPlay

(* The steps that move an order on, or fill one.                           *)
Moves ==
  \/ \E tk \in Tickets : Submit(tk)
  \/ \E oid \in OrderId, am \in Amendments :
        ModifyAcross(oid, am) \/ ModifyRequote(oid, am) \/ ModifyReduce(oid, am)
  \/ \E u \in Uid : ParkStop(u) \/ StartMatch(u) \/ Trigger(u)
  \/ StpCancelNewest \/ StpDecrement \/ Execute \/ Rest

SomeRetires == \E u, st : Retires(u, st)

LEMMA StepsSorted ==
  ASSUME PlacesInv, EngineInv', [Next]_vars, ~Moves
  PROVE  Fading /\ (OrdersStay \/ SomeRetires)
  <1>1. ASSUME NEW oid \in OrderId,
               Cancel(oid) \/ SweepOne(oid) \/ \E am \in Amendments : ModifyToNothing(oid, am)
        PROVE  Fading /\ (OrdersStay \/ SomeRetires)
    <2>1. CancelEffect(oid) /\ UNCHANGED <<next_id, pending, pc, cur, trades>>
      BY <1>1 DEF Cancel, SweepOne, ModifyToNothing, CancelEffect, CancelResting, Modifiable
    <2>2. QED
      BY <2>1, CancelRetires DEF SomeRetires
  <1>2. CASE Call
    <2>1. CASE \E w \in Owner : CancelAll(w)
      BY <2>1, AsideFades
    <2>2. CASE \E oid \in OrderId : Cancel(oid) \/ \E am \in Amendments : ModifyToNothing(oid, am)
      BY <1>1, <2>2
    <2>3. QED
      BY <1>2, <2>1, <2>2 DEF Call, Moves
  <1>3. CASE Step
    <2>1. CASE Drained \/ MatchDone \/ NoProgress \/ TriggersDone \/ SweepStops \/ SweepDone
      BY <2>1, AsideFades
    <2>2. CASE DropDrained
      BY <2>2, DropFades
    <2>3. ASSUME NEW u \in Uid, SkipCanceled(u) PROVE Fading /\ OrdersStay
      BY <2>3, SkipFades
    <2>4. ASSUME NEW u \in Uid,
                 \/ RejectInvalid(u) \/ RejectStop(u) \/ RejectUnfillable(u) \/ RejectTaker(u)
          PROVE  Fading /\ SomeRetires
      <3>1. Taking(u) /\ Reject(u)
        BY <2>4 DEF RejectInvalid, RejectStop, RejectUnfillable, RejectTaker
      <3>2. QED
        BY <3>1, RejectRetires DEF SomeRetires
    <2>5. CASE StpCancelOldest
      BY <2>5, CancelOldestRetires DEF SomeRetires
    <2>6. CASE Complete \/ Expire
      BY <2>6, ResidualRetires DEF SomeRetires
    <2>7. CASE \E oid \in OrderId : SweepOne(oid)
      BY <1>1, <2>7
    <2>8. QED
      BY <1>3, <2>1, <2>2, <2>3, <2>4, <2>5, <2>6, <2>7 DEF Step, Moves
  <1>4. CASE UNCHANGED vars
    BY <1>4, AsideFades
  <1>5. QED
    BY <1>2, <1>3, <1>4 DEF Next

-----------------------------------------------------------------------------
(* Self-trade prevention.                                                  *)

(* What nobody ever changes of an order.                                   *)
Kept(o, p) == o.oid = p.oid /\ o.owner = p.owner /\ o.stp = p.stp

LEMMA MarksKeep ==
  ASSUME PlacesInv, NEW u \in Uid, NEW st, order' = Marked(order, u, st)
  PROVE  /\ \A v \in Uid : Unfilled(order'[v], order[v])
         /\ \A v \in Uid \ {u} : order'[v] = order[v]
         /\ order'[u].status = st
  BY MarkedAlike, PlaceFacts

LEMMA StepKeepsParties ==
  ASSUME PlacesInv, EngineInv', [Next]_vars
  PROVE  (\A v \in 1 .. next_id : Kept(order'[v], order[v])) /\ next_id <= next_id' /\ next_id' \in Nat
  <1>1. next_id \in Nat /\ next_id' \in Nat /\ 1 .. next_id \subseteq Uid /\ order \in [Uid -> Order]
    BY PlaceFacts, BoundAssumption DEF EngineInv
  <1>2. \A o : Kept(o, o)
    BY DEF Kept
  <1>3. ASSUME \A v \in 1 .. next_id : Alike(order'[v], order[v]), next_id' = next_id
        PROVE  (\A v \in 1 .. next_id : Kept(order'[v], order[v])) /\ next_id <= next_id'
    BY <1>1, <1>3 DEF Alike, Kept
  <1>4. ASSUME NEW u \in 1 .. next_id, SameParty(order'[u], order[u]), next_id' = next_id,
               \A v \in Uid : v # u => order'[v] = order[v]
        PROVE  (\A v \in 1 .. next_id : Kept(order'[v], order[v])) /\ next_id <= next_id'
    BY <1>1, <1>4 DEF SameParty, Kept
  <1>5. ASSUME NEW u \in Uid, NEW st, order' = Marked(order, u, st), next_id' = next_id
        PROVE  (\A v \in 1 .. next_id : Kept(order'[v], order[v])) /\ next_id <= next_id'
    BY <1>1, <1>3, <1>5, MarksKeep DEF Unfilled, Steady
  <1>6. CASE ~Moves
    <2>1. CASE Fading /\ OrdersStay
      BY <1>1, <1>2, <2>1 DEF Fading, OrdersStay
    <2>2. CASE Fading /\ SomeRetires
      <3>1. PICK u, st : Retires(u, st)
        BY <2>2 DEF SomeRetires
      <3>2. u \in Uid /\ order' = Marked(order, u, st) /\ next_id' = next_id
        BY <2>2, <3>1 DEF Retires, Fading
      <3>3. QED
        BY <1>1, <1>5, <3>2
    <2>3. QED
      BY <1>6, <2>1, <2>2, StepsSorted
  <1>7. ASSUME NEW tk \in Tickets, Submit(tk)
        PROVE  (\A v \in 1 .. next_id : Kept(order'[v], order[v])) /\ next_id <= next_id'
    <2>1. next_id' = next_id + 1 /\ \A v \in 1 .. next_id : order'[v] = order[v]
      <3> DEFINE o == NewOrder(tk, IdOf[next_id + 1], clock + 1)
      <3>1. next_id' = next_id + 1 /\ order' = [order EXCEPT ![next_id + 1] = o]
        BY <1>7 DEF Submit
      <3> HIDE DEF o
      <3>2. QED
        BY <1>1, <3>1
    <2>2. QED
      BY <1>1, <1>2, <2>1
  <1>8. ASSUME NEW oid \in OrderId, NEW am \in Amendments,
               ModifyAcross(oid, am) \/ ModifyRequote(oid, am) \/ ModifyReduce(oid, am)
        PROVE  (\A v \in 1 .. next_id : Kept(order'[v], order[v])) /\ next_id <= next_id'
    <2>1. book.map[oid] # None /\ next_id' = next_id
      BY <1>8 DEF ModifyAcross, ModifyRequote, ModifyReduce, Modifiable
    <2>2. book.map[oid] \in 1 .. next_id
      BY <2>1, OnMap
    <2>3. CASE ModifyReduce(oid, am)
      BY <1>3, <2>1, <2>3, ModifyReduceKeeps
    <2>4. CASE ModifyAcross(oid, am)
      BY <1>4, <2>1, <2>2, <2>4, AcrossPlaces
    <2>5. CASE ModifyRequote(oid, am)
      BY <1>4, <2>1, <2>2, <2>5, RequotePlaces
    <2>6. QED
      BY <1>8, <2>3, <2>4, <2>5
  <1>9. ASSUME NEW u \in Uid, ParkStop(u) \/ StartMatch(u) \/ Trigger(u)
        PROVE  (\A v \in 1 .. next_id : Kept(order'[v], order[v])) /\ next_id <= next_id'
    <2>1. CASE ParkStop(u) \/ StartMatch(u)
      BY <1>1, <1>2, <2>1 DEF ParkStop, StartMatch
    <2>2. CASE Trigger(u)
      BY <1>3, <2>2, TriggerPlaces DEF Trigger
    <2>3. QED
      BY <1>9, <2>1, <2>2
  <1>10. CASE StpCancelNewest \/ Rest
    <2>1. \E st : order' = Marked(order, cur, st)
      BY <1>10 DEF StpCancelNewest, Rest
    <2>2. next_id' = next_id /\ cur \in Uid
      BY <1>10, CurKnown DEF StpCancelNewest, Rest, Matching, PlacesInv
    <2>3. QED
      BY <1>5, <1>1, <2>1, <2>2
  <1>11. CASE StpDecrement \/ Execute
    BY <1>1, <1>3, <1>11, DecrementPlaces, ExecutePlaces DEF StpDecrement, Execute
  <1>12. QED
    BY <1>1, <1>6, <1>7, <1>8, <1>9, <1>10, <1>11 DEF Moves

(* Two orders that may trade with each other.                              *)
MayTrade(m, t) == m.owner = t.owner /\ m.owner \notin {"", "DEFAULT"} => m.stp = "NONE" /\ t.stp = "NONE"

TradesAllowed(tr, ord, n) ==
  \A i \in 1 .. Len(tr) :
     tr[i].maker \in 1 .. n /\ tr[i].taker \in 1 .. n /\ MayTrade(ord[tr[i].maker], ord[tr[i].taker])

TradesKnown == PlacesInv /\ TradesAllowed(trades, order, next_id)

LEMMA TradesByExecute == ASSUME [Next]_vars, ~Execute PROVE trades' = trades
  BY DEF Next, Call, Step, vars, Submit, Cancel, CancelAll, ModifyToNothing, ModifyAcross, ModifyRequote,
         ModifyReduce, Drained, RejectInvalid, RejectStop, RejectUnfillable, RejectTaker, Reject, ParkStop,
         StartMatch, SkipCanceled, Trigger, DropDrained, MatchDone, NoProgress, StpCancelNewest,
         StpCancelOldest, StpDecrement, Complete, Expire, Rest, TriggersDone, SweepOne, SweepStops, SweepDone

LEMMA StepTrades == TradesKnown /\ [Next]_vars => TradesKnown'
  <1> SUFFICES ASSUME TradesKnown, [Next]_vars PROVE TradesKnown'
    OBVIOUS
  <1>1. PlacesInv /\ PlacesInv' /\ EngineInv' /\ TradesAllowed(trades, order, next_id)
        /\ trades \in Seq(Trade)
    BY StepPlaces DEF TradesKnown, PlacesInv, EngineInv
  <1>2. (\A v \in 1 .. next_id : Kept(order'[v], order[v])) /\ next_id <= next_id' /\ next_id' \in Nat
        /\ next_id \in Nat
    BY <1>1, StepKeepsParties, PlaceFacts
  <1>3. TradesAllowed(trades, order', next_id')
    <2>1. 1 .. next_id \subseteq 1 .. next_id'
      BY <1>2
    <2>2. \A m, t \in 1 .. next_id : MayTrade(order[m], order[t]) => MayTrade(order'[m], order'[t])
      BY <1>2 DEF MayTrade, Kept
    <2>3. QED
      BY <1>1, <2>1, <2>2 DEF TradesAllowed
  <1>4. CASE Execute
    <2> DEFINE tr == [maker |-> Maker, taker |-> cur, price |-> Top, quantity |-> Overlap,
                      timestamp |-> order[cur].timestamp]
    <2>1. /\ trades' = Append(trades, tr) /\ Matching /\ TopLevel.queue # << >> /\ EffectiveStp = "NONE"
          /\ next_id' = next_id
      BY <1>4 DEF Execute, Prevents
    <2>2. Maker \in 1 .. next_id /\ cur \in 1 .. next_id
      BY <1>1, <2>1, MakerFacts
    <2>3. MayTrade(order[Maker], order[cur])
      BY <2>1, Zenon DEF EffectiveStp, MayTrade
    <2>4. MayTrade(order'[Maker], order'[cur])
      BY <1>2, <2>2, <2>3 DEF MayTrade, Kept
    <2>5. tr.maker = Maker /\ tr.taker = cur
      OBVIOUS
    <2> HIDE DEF tr
    <2>6. TradesAllowed(Append(trades, tr), order', next_id')
      <3> DEFINE w == Append(trades, tr)
      <3>1. w[Len(trades) + 1] = tr /\ Len(w) = Len(trades) + 1
            /\ Len(trades) \in Nat /\ \A i \in 1 .. Len(trades) : w[i] = trades[i]
        BY <1>1
      <3> HIDE DEF w
      <3>2. \A i \in 1 .. Len(w) : i \in 1 .. Len(trades) \/ i = Len(trades) + 1
        BY <3>1
      <3>3. TradesAllowed(w, order', next_id')
        BY <1>3, <2>1, <2>2, <2>4, <2>5, <3>1, <3>2 DEF TradesAllowed
      <3>4. QED
        BY <3>3 DEF w
    <2>7. QED
      BY <1>1, <2>1, <2>6 DEF TradesKnown
  <1>5. CASE ~Execute
    BY <1>1, <1>3, <1>5, TradesByExecute DEF TradesKnown
  <1>6. QED
    BY <1>4, <1>5

(* Two orders of one participant trade with each other only when neither   *)
(* asked for self-trade prevention, whatever mixture of modes and          *)
(* amendments the participants send (_match, the STP check before a fill). *)
THEOREM SelfTradePrevented == Spec => []NoPreventableSelfTrade
  <1>1. Init => TradesKnown
    <2> SUFFICES ASSUME Init PROVE TradesKnown
      OBVIOUS
    <2>1. trades = << >>
      BY DEF Init
    <2>2. 1 .. Len(trades) = {}
      BY <2>1
    <2>3. QED
      BY <2>2, InitPlaces DEF TradesKnown, TradesAllowed
  <1>2. TradesKnown => NoPreventableSelfTrade
    BY DEF TradesKnown, TradesAllowed, MayTrade, NoPreventableSelfTrade
  <1>3. QED
    BY <1>1, <1>2, StepTrades, PTL DEF Spec

-----------------------------------------------------------------------------
(* The facts of each move that the two results below need.                 *)

LEMMA SubmitFacts ==
  ASSUME PlacesInv, NEW tk \in Tickets, Submit(tk)
  PROVE  /\ next_id + 1 \in Uid /\ next_id' = next_id + 1 /\ UNCHANGED <<book, stops>>
         /\ order'[next_id + 1].status = "NEW" /\ order'[next_id + 1].oid = IdOf[next_id + 1]
         /\ order'[next_id + 1].stp = tk.stp /\ order'[next_id + 1].type = tk.type
         /\ order'[next_id + 1].tif = tk.tif /\ order'[next_id + 1].filled = 0
         /\ \A v \in Uid : v # next_id + 1 => order'[v] = order[v]
         /\ ToSet(pending') = ToSet(pending) \cup {next_id + 1} /\ InHand' = {}
  <1> DEFINE u == next_id + 1
             o == NewOrder(tk, IdOf[u], clock + 1)
  <1>1. /\ order' = [order EXCEPT ![u] = o] /\ pending' = Append(pending, u) /\ next_id' = u
        /\ UNCHANGED <<book, stops>> /\ InHand' = {} /\ next_id < MaxOrders
    BY DEF Submit, InHand
  <1>2. u \in Uid /\ pending \in Seq(1 .. next_id) /\ next_id \in Nat /\ order \in [Uid -> Order]
    BY <1>1, PlaceFacts, BoundAssumption DEF Uid
  <1>3. /\ o.status = "NEW" /\ o.oid = IdOf[u] /\ o.stp = tk.stp /\ o.type = tk.type /\ o.tif = tk.tif
        /\ o.filled = 0
    BY DEF NewOrder
  <1> HIDE DEF u, o
  <1>4. order'[u] = o /\ \A v \in Uid : v # u => order'[v] = order[v]
    BY <1>1, <1>2
  <1>5. ToSet(pending') = ToSet(pending) \cup {u}
    <2>1. pending \in Seq(Uid)
      BY <1>2, PlaceFacts, SeqMonotonic
    <2>2. QED
      BY <1>1, <1>2, <2>1, AppendFacts
  <1>6. QED
    BY <1>1, <1>2, <1>3, <1>4, <1>5 DEF u

LEMMA HandFacts ==
  ASSUME PlacesInv, pc \in {"match", "residual"}
  PROVE  /\ InHand = {cur} /\ cur \in 1 .. next_id /\ cur \in Uid
         /\ cur \notin ToSet(pending) /\ cur \notin Mapped(stops.map) /\ cur \notin Resting(book)
  <1>1. InHand = {cur} /\ cur \in 1 .. next_id /\ cur \in Uid
    BY CurKnown DEF InHand, PlacesInv
  <1>2. QED
    BY <1>1, PlaceFacts, WaitingHeaped DEF Apart

LEMMA BookFacts ==
  ASSUME PlacesInv, NEW u \in OnBook(book)
  PROVE  u \in 1 .. next_id /\ u \in Uid /\ u \notin ToSet(pending) /\ u \notin Mapped(stops.map) /\ u \notin InHand
  BY PlaceFacts, WaitingHeaped DEF Apart

LEMMA PendingAdds ==
  ASSUME PlacesInv, NEW u \in 1 .. next_id, pending' = Append(pending, u)
  PROVE  ToSet(pending') = ToSet(pending) \cup {u}
  BY PlaceFacts, AppendFacts

(* An order that modify_order changed: it was on the book, and is pending  *)
(* or on the book again.                                                   *)
Amended(u) ==
  /\ u \in OnBook(book) /\ order'[u].status = "REPLACED" /\ order'[u].filled = order[u].filled
  /\ order'[u].type = order[u].type /\ order'[u].tif = order[u].tif
  /\ \A v \in Uid : v # u => order'[v] = order[v]
  /\ ToSet(pending') \subseteq ToSet(pending) \cup {u} /\ UNCHANGED <<next_id, stops>>
  /\ InHand' = {} /\ InHand = {}
  /\ OnBook(book') \subseteq OnBook(book) /\ Resting(book') \subseteq Resting(book) \cup {u}

LEMMA ModifyFacts ==
  ASSUME PlacesInv, EngineInv', NEW oid \in OrderId, NEW am \in Amendments,
         ModifyAcross(oid, am) \/ ModifyRequote(oid, am) \/ ModifyReduce(oid, am)
  PROVE  \E u : Amended(u)
  <1> DEFINE u == book.map[oid]
  <1>1. /\ book.map[oid] # None /\ UNCHANGED <<next_id, stops>> /\ InHand = {} /\ InHand' = {}
    BY DEF ModifyAcross, ModifyRequote, ModifyReduce, Modifiable, InHand
  <1>2. u \in OnBook(book) /\ u \in 1 .. next_id /\ u \in Uid
    BY <1>1, OnMap
  <1>3. CASE ModifyAcross(oid, am)
    <2>1. pending' = Append(pending, u)
      BY <1>3 DEF ModifyAcross
    <2>2. ToSet(pending') = ToSet(pending) \cup {u}
      BY <1>2, <2>1, PendingAdds
    <2>3. Amended(u)
      BY <1>1, <1>2, <1>3, <2>2, AcrossPlaces DEF Amended, SameParty
    <2>4. QED
      BY <2>3
  <1>4. CASE ModifyRequote(oid, am)
    <2>1. pending' = pending
      BY <1>4 DEF ModifyRequote
    <2>2. Amended(u)
      BY <1>1, <1>2, <1>4, <2>1, RequotePlaces DEF Amended, SameParty
    <2>3. QED
      BY <2>2
  <1>5. CASE ModifyReduce(oid, am)
    <2>1. pending' = pending
      BY <1>5 DEF ModifyReduce
    <2>2. Resting(book') \subseteq Resting(book) /\ OnBook(book') \subseteq OnBook(book)
      BY <1>1, <1>5, ModifyReduceKeeps, ThinnerRests
    <2>3. order'[u].tif = order[u].tif
      BY <1>2, <1>5, ModifyReduceKeeps DEF Alike
    <2>4. Amended(u)
      BY <1>1, <1>2, <1>5, <2>1, <2>2, <2>3, ModifyReduceKeeps DEF Amended
    <2>5. QED
      BY <2>4
  <1>6. QED
    BY <1>3, <1>4, <1>5

(* The two steps that fill: charges to the taker and the maker.            *)
LEMMA ChargeFacts ==
  ASSUME PlacesInv, EngineInv', StpDecrement \/ Execute
  PROVE  /\ Matching /\ TopLevel.queue # << >> /\ UNCHANGED <<next_id, stops, pending, pc, cur>>
         /\ \A u \in Uid : u \notin {cur, Maker} => order'[u] = order[u]
         /\ order'[cur].status = order[cur].status /\ order'[cur].type = order[cur].type
         /\ order'[cur].tif = order[cur].tif
         /\ order'[Maker].type = order[Maker].type /\ order'[Maker].tif = order[Maker].tif
         /\ order'[Maker].filled = order[Maker].filled + Overlap
         /\ order'[Maker].quantity = order[Maker].quantity
         /\ \/ order'[Maker].status = order[Maker].status
            \/ order'[Maker].status = "PARTIALLY_FILLED"
            \/ order'[Maker].status \in {"FILLED", "CANCELED"} /\ Remaining(order'[Maker]) = 0
         /\ Resting(book') \subseteq Resting(book) /\ OnBook(book') \subseteq OnBook(book)
  <1>1. Matching /\ TopLevel.queue # << >> /\ UNCHANGED <<next_id, stops, pending, pc, cur>>
    BY DEF StpDecrement, Execute, Prevents
  <1>2. Maker \in Uid /\ Maker \in 1 .. next_id /\ cur \in Uid /\ order[cur] \in Order
    BY <1>1, MakerFacts
  <1>3. CASE StpDecrement
    <2>1. order'[cur] = [order[cur] EXCEPT !.filled = @ + Overlap]
      BY <1>3, DecrementPlaces
    <2>2. order'[cur].status = order[cur].status /\ order'[cur].type = order[cur].type
          /\ order'[cur].tif = order[cur].tif
      BY <1>2, <2>1 DEF Order
    <2>3. Resting(book') \subseteq Resting(book) /\ OnBook(book') \subseteq OnBook(book)
      BY <1>1, <1>3, DecrementPlaces, ThinnerRests
    <2>4. Unfilled(order'[Maker], Decremented) /\ Alike(order'[Maker], order[Maker])
          /\ order'[Maker].status = IF Remaining(Decremented) = 0 THEN "CANCELED" ELSE Decremented.status
      BY <1>2, <1>3, DecrementPlaces
    <2>5. Remaining(order'[Maker]) = Remaining(Decremented)
      BY <2>4 DEF Unfilled, Steady, Remaining
    <2>6. QED
      BY <1>1, <1>3, <2>2, <2>3, <2>4, <2>5, DecrementPlaces, ChargedFacts DEF Unfilled, Steady, Alike
  <1>4. CASE Execute
    <2>1. order'[cur] = [order[cur] EXCEPT !.filled = @ + Overlap]
      BY <1>4, ExecutePlaces
    <2>2. order'[cur].status = order[cur].status /\ order'[cur].type = order[cur].type
          /\ order'[cur].tif = order[cur].tif
      BY <1>2, <2>1 DEF Order
    <2>3. Resting(book') \subseteq Resting(book) /\ OnBook(book') \subseteq OnBook(book)
      BY <1>1, <1>4, ExecutePlaces, ThinnerRests
    <2>4. Unfilled(order'[Maker], Executed) /\ Alike(order'[Maker], order[Maker])
          /\ order'[Maker].status = IF Remaining(Executed) = 0 THEN "FILLED" ELSE Executed.status
      BY <1>2, <1>4, ExecutePlaces
    <2>5. Remaining(order'[Maker]) = Remaining(Executed)
      BY <2>4 DEF Unfilled, Steady, Remaining
    <2>6. QED
      BY <1>1, <1>4, <2>2, <2>3, <2>4, <2>5, ExecutePlaces, ChargedFacts DEF Unfilled, Steady, Alike
  <1>5. QED
    BY <1>3, <1>4

-----------------------------------------------------------------------------
(* Cancelled stops, when participants never reuse an order id.             *)

NamedByIds(ord, n) == \A u \in 1 .. n : ord[u].oid = IdOf[u]

(* Nothing that is still to be processed, or may still be triggered, has   *)
(* been cancelled: a cancelled heap entry is in no map.                    *)
Uncanceled(u) == order[u].status # "CANCELED"

StopInv ==
  /\ PlacesInv
  /\ NamedByIds(order, next_id)
  /\ \A u \in ToSet(pending) \cup Mapped(stops.map) : Uncanceled(u)

LEMMA NamesStay == ASSUME StopInv, [Next]_vars PROVE PlacesInv' /\ EngineInv' /\ NamedByIds(order', next_id')
  <1>1. PlacesInv /\ PlacesInv' /\ EngineInv' /\ next_id \in Nat /\ NamedByIds(order, next_id)
    BY StepPlaces, PlaceFacts DEF StopInv, PlacesInv
  <1>2. \A v \in 1 .. next_id : order'[v].oid = IdOf[v]
    BY <1>1, StepKeepsParties DEF Kept, NamedByIds
  <1>3. CASE \E tk \in Tickets : Submit(tk)
    <2>1. next_id' = next_id + 1 /\ order'[next_id + 1].oid = IdOf[next_id + 1]
      BY <1>1, <1>3, SubmitFacts
    <2>2. \A v \in 1 .. next_id + 1 : v \in 1 .. next_id \/ v = next_id + 1
      BY <1>1
    <2>3. QED
      BY <1>1, <1>2, <2>1, <2>2 DEF NamedByIds
  <1>4. CASE ~\E tk \in Tickets : Submit(tk)
    <2>1. next_id' = next_id
      BY <1>4 DEF Next, Call, Step, vars, Cancel, CancelAll, ModifyToNothing, ModifyAcross, ModifyRequote,
           ModifyReduce, Drained, RejectInvalid, RejectStop, RejectUnfillable, RejectTaker, Reject, ParkStop,
           StartMatch, SkipCanceled, Trigger, DropDrained, MatchDone, NoProgress, StpCancelNewest,
           StpCancelOldest, StpDecrement, Execute, Complete, Expire, Rest, TriggersDone, SweepOne,
           SweepStops, SweepDone
    <2>2. QED
      BY <1>1, <1>2, <2>1 DEF NamedByIds
  <1>5. QED
    BY <1>3, <1>4

(* Only an order that is in a map is triggered.                            *)
LEMMA TriggerIsWaiting ==
  ASSUME IsInjective(IdOf), StopInv, EngineInv', NEW u \in Uid, Trigger(u)
  PROVE  u \in Mapped(stops.map)
  <1> DEFINE i == order[u].oid
             w == stops.map[i]
  <1>1. u \in 1 .. next_id /\ i \in OrderId /\ w # None
    BY TriggerPlaces DEF StopInv
  <1>2. w \in Mapped(stops.map) /\ order[w].oid = i
    BY <1>1 DEF Mapped, StopInv, PlacesInv, StopsPlaced, Named
  <1>3. w \in 1 .. next_id
    BY <1>2, WaitingHeaped, PlaceFacts DEF StopInv
  <1>4. order[w].oid = IdOf[w] /\ order[u].oid = IdOf[u]
    BY <1>1, <1>3 DEF StopInv, NamedByIds
  <1>5. w \in DOMAIN IdOf /\ u \in DOMAIN IdOf
    BY <1>3, InputAssumption, PlaceFacts DEF StopInv
  <1> HIDE DEF w, i
  <1>6. w = u
    BY <1>2, <1>4, <1>5 DEF IsInjective, i
  <1>7. QED
    BY <1>2, <1>6

(* What a step does to the statuses that matter here.                      *)
LEMMA StepStatuses ==
  ASSUME IsInjective(IdOf), StopInv, [Next]_vars
  PROVE  /\ \A u \in ToSet(pending') \cup Mapped(stops'.map) : order'[u].status # "CANCELED"
         /\ \A u \in Uid : order[u].status = "CANCELED" => order'[u].status # "TRIGGERED"
  <1> DEFINE P == \A u \in ToSet(pending') \cup Mapped(stops'.map) : order'[u].status # "CANCELED"
             Q == \A u \in Uid : order[u].status = "CANCELED" => order'[u].status # "TRIGGERED"
  <1>1. PlacesInv /\ EngineInv' /\ \A u \in ToSet(pending) \cup Mapped(stops.map) : order[u].status # "CANCELED"
    BY NamesStay DEF StopInv, Uncanceled
  <1>2. next_id \in Nat /\ 1 .. next_id \subseteq Uid /\ order \in [Uid -> Order]
        /\ ToSet(pending) \subseteq Uid /\ Mapped(stops.map) \subseteq Uid
    BY <1>1, PlaceFacts, WaitingHeaped
  <1> SUFFICES P /\ Q
    OBVIOUS
  <1> HIDE DEF P, Q
  <1>3. ASSUME order' = order, ToSet(pending') \subseteq ToSet(pending) \cup Mapped(stops.map),
               Mapped(stops'.map) \subseteq Mapped(stops.map) \cup ToSet(pending)
        PROVE  P /\ Q
    BY <1>1, <1>3 DEF P, Q
  <1>4. ASSUME NEW u, \A v \in Uid : v # u => order'[v] = order[v],
               ToSet(pending') \cup Mapped(stops'.map) \subseteq ToSet(pending) \cup Mapped(stops.map) \cup {u},
               u \in ToSet(pending') \cup Mapped(stops'.map) => order'[u].status # "CANCELED",
               order'[u].status = "TRIGGERED" => order[u].status # "CANCELED"
        PROVE  P /\ Q
    BY <1>1, <1>2, <1>4 DEF P, Q
  <1>5. CASE ~Moves
    <2>1. CASE Fading /\ OrdersStay
      BY <1>3, <2>1 DEF Fading, OrdersStay
    <2>2. CASE Fading /\ SomeRetires
      <3>1. PICK u, st : Retires(u, st)
        BY <2>2 DEF SomeRetires
      <3>2. /\ u \in Uid /\ order' = Marked(order, u, st) /\ st # "TRIGGERED"
            /\ u \notin ToSet(pending') \cup Mapped(stops'.map)
        BY <3>1 DEF Retires, InPlay
      <3>3. order'[u].status = st /\ \A v \in Uid : v # u => order'[v] = order[v]
        BY <1>1, <3>2, MarksKeep
      <3>4. ToSet(pending') \cup Mapped(stops'.map) \subseteq ToSet(pending) \cup Mapped(stops.map) \cup {u}
        BY <2>2 DEF Fading
      <3>5. QED
        BY <1>4, <3>2, <3>3, <3>4
    <2>3. QED
      BY <1>1, <1>5, <2>1, <2>2, StepsSorted
  <1>6. ASSUME NEW tk \in Tickets, Submit(tk) PROVE P /\ Q
    <2> DEFINE n == next_id + 1
    <2>1. /\ stops' = stops /\ order'[n].status = "NEW" /\ ToSet(pending') = ToSet(pending) \cup {n}
          /\ \A v \in Uid : v # n => order'[v] = order[v]
      BY <1>1, <1>6, SubmitFacts
    <2> HIDE DEF n
    <2>2. ToSet(pending') \cup Mapped(stops'.map) \subseteq ToSet(pending) \cup Mapped(stops.map) \cup {n}
      BY <2>1
    <2>3. QED
      BY <1>4, <2>1, <2>2
  <1>7. ASSUME NEW oid \in OrderId, NEW am \in Amendments,
               ModifyAcross(oid, am) \/ ModifyRequote(oid, am) \/ ModifyReduce(oid, am)
        PROVE  P /\ Q
    <2>1. PICK u : Amended(u)
      BY <1>1, <1>7, ModifyFacts
    <2>2. /\ order'[u].status = "REPLACED" /\ \A v \in Uid : v # u => order'[v] = order[v]
          /\ ToSet(pending') \cup Mapped(stops'.map) \subseteq ToSet(pending) \cup Mapped(stops.map) \cup {u}
      BY <2>1 DEF Amended
    <2>3. QED
      BY <1>4, <2>2
  <1>8. ASSUME NEW u \in Uid, ParkStop(u) \/ StartMatch(u) PROVE P /\ Q
    <2>1. order' = order /\ pending' = Tail(pending) /\ Taking(u)
      BY <1>8 DEF ParkStop, StartMatch
    <2>2. ToSet(pending') \subseteq ToSet(pending) /\ u \in ToSet(pending) /\ u \in 1 .. next_id
      BY <1>1, <2>1, TakenFacts
    <2>3. CASE ParkStop(u)
      <3>1. stops' = AddStop(stops, order[u], u)
        BY <2>3 DEF ParkStop
      <3>2. Mapped(stops'.map) \subseteq Mapped(stops.map) \cup {u}
        BY <1>1, <2>2, <3>1, StopAdded
      <3>3. QED
        BY <1>3, <2>1, <2>2, <3>2
    <2>4. CASE StartMatch(u)
      BY <1>3, <2>1, <2>2, <2>4 DEF StartMatch
    <2>5. QED
      BY <1>8, <2>3, <2>4
  <1>9. ASSUME NEW u \in Uid, Trigger(u) PROVE P /\ Q
    <2>1. /\ order'[u].status = "TRIGGERED" /\ \A v \in Uid : v # u => order'[v] = order[v]
          /\ ToSet(pending') = ToSet(pending) \cup {u}
      BY <1>1, <1>9, TriggerPlaces
    <2>2. order[u].status # "CANCELED"
      BY <1>1, <1>9, TriggerIsWaiting
    <2>3. stops' = PopStop(stops, order[u], u) /\ u \in stops.heap[order[u].side]
      BY <1>9 DEF Trigger, NextDue, IsHeapTop
    <2>4. Mapped(stops'.map) \subseteq Mapped(stops.map)
      BY <1>1, <2>3, StopPopped
    <2>5. ToSet(pending') \cup Mapped(stops'.map) \subseteq ToSet(pending) \cup Mapped(stops.map) \cup {u}
      BY <2>1, <2>4
    <2>6. QED
      BY <1>4, <2>1, <2>2, <2>5
  <1>10. CASE StpCancelNewest \/ Rest
    <2>1. PICK st : order' = Marked(order, cur, st) /\ (st = "TRIGGERED" => st = order[cur].status)
      BY <1>10 DEF StpCancelNewest, Rest
    <2>2. pc \in {"match", "residual"} /\ UNCHANGED <<pending, stops>>
      BY <1>10 DEF StpCancelNewest, Rest, Matching
    <2>3. cur \in Uid /\ cur \notin ToSet(pending) /\ cur \notin Mapped(stops.map)
      BY <1>1, <2>2, HandFacts
    <2>4. order'[cur].status = st /\ \A v \in Uid : v # cur => order'[v] = order[v]
      BY <1>1, <2>1, <2>3, MarksKeep
    <2>5. ToSet(pending') \cup Mapped(stops'.map) \subseteq ToSet(pending) \cup Mapped(stops.map) \cup {cur}
          /\ cur \notin ToSet(pending') \cup Mapped(stops'.map)
      BY <2>2, <2>3
    <2>6. order'[cur].status = "TRIGGERED" => order[cur].status # "CANCELED"
      BY <2>1, <2>4
    <2>7. QED
      BY <1>4, <2>4, <2>5, <2>6
  <1>11. CASE StpDecrement \/ Execute
    <2>1. /\ Matching /\ TopLevel.queue # << >> /\ UNCHANGED <<stops, pending>>
          /\ \A u \in Uid : u \notin {cur, Maker} => order'[u] = order[u]
          /\ order'[cur].status = order[cur].status
          /\ \/ order'[Maker].status = order[Maker].status
             \/ order'[Maker].status \in {"PARTIALLY_FILLED", "FILLED", "CANCELED"}
      BY <1>1, <1>11, ChargeFacts
    <2>2. Maker \in OnBook(book) /\ pc = "match"
      BY <1>1, <2>1, MakerFacts
    <2>3. /\ cur \notin ToSet(pending) /\ cur \notin Mapped(stops.map)
          /\ Maker \notin ToSet(pending) /\ Maker \notin Mapped(stops.map)
      BY <1>1, <2>2, HandFacts, BookFacts
    <2> DEFINE m == Maker
    <2>4. /\ m \notin ToSet(pending) /\ m \notin Mapped(stops.map)
          /\ \A u \in Uid : u \notin {cur, m} => order'[u] = order[u]
          /\ order'[m].status = order[m].status
             \/ order'[m].status \in {"PARTIALLY_FILLED", "FILLED", "CANCELED"}
      BY <2>1, <2>3
    <2> HIDE DEF m
    <2>5. P
      BY <1>1, <1>2, <2>1, <2>3, <2>4 DEF P
    <2>6. Q
      BY <2>1, <2>4 DEF Q
    <2>7. QED
      BY <2>5, <2>6
  <1>12. QED
    BY <1>5, <1>6, <1>7, <1>8, <1>9, <1>10, <1>11 DEF Moves

LEMMA StepStops == ASSUME IsInjective(IdOf) PROVE StopInv /\ [Next]_vars => StopInv'
  <1> SUFFICES ASSUME StopInv, [Next]_vars PROVE StopInv'
    OBVIOUS
  <1>1. PlacesInv' /\ NamedByIds(order', next_id')
    BY NamesStay
  <1>2. \A u \in ToSet(pending') \cup Mapped(stops'.map) : order'[u].status # "CANCELED"
    BY StepStatuses
  <1>3. QED
    BY <1>1, <1>2 DEF StopInv, Uncanceled

(* When order ids are unique, a cancelled conditional order is never       *)
(* triggered, although its entry stays on the heap (cancel_order deletes   *)
(* it from order_map only; check_triggers skips what the map has lost).    *)
THEOREM CanceledStayAway == ASSUME IsInjective(IdOf) PROVE Spec => CanceledNeverTriggers
  <1>1. Init => StopInv
    <2> SUFFICES ASSUME Init PROVE StopInv
      OBVIOUS
    <2>1. PlacesInv /\ next_id = 0 /\ stops = NoStops /\ pending = << >>
      BY InitPlaces DEF Init
    <2>2. ToSet(pending) = {} /\ Mapped(stops.map) = {}
      BY <2>1, EmptyQueue DEF NoStops, Mapped
    <2>3. QED
      BY <2>1, <2>2 DEF StopInv, NamedByIds
  <1>2. StopInv /\ [Next]_vars
        => [\A u \in Uid : order[u].status = "CANCELED" => order'[u].status # "TRIGGERED"]_vars
    BY StepStatuses
  <1>3. StopInv /\ [Next]_vars => StopInv'
    BY StepStops
  <1>4. QED
    BY <1>1, <1>2, <1>3, PTL DEF Spec, CanceledNeverTriggers

-----------------------------------------------------------------------------
(* Orders that have ended, when CANCEL_NEWEST is asked for only with       *)
(* orders that never rest.                                                 *)

NewestNeverRests == \A tk \in Tickets : tk.stp = "CANCEL_NEWEST" => NeverRests(tk)

(* Who is still to be filled has not ended; in the running call only an    *)
(* order that self-trade prevention cancelled has, and it will not rest.   *)
(* A resting order may have ended when an iceberg's tranche put it back in *)
(* the queue, but then nothing is left of it.                              *)
OpenPending == \A u \in ToSet(pending) : ~Ended(order[u])
OpenInHand == \A u \in InHand : Ended(order[u]) => pc = "residual" /\ NeverRests(order[u])
SpentOnBook == \A u \in Resting(book) : Ended(order[u]) => Remaining(order[u]) = 0
RestersOnBook == \A u \in OnBook(book) : ~NeverRests(order[u])
NewestKnown == \A u \in 1 .. next_id : order[u].stp = "CANCEL_NEWEST" => NeverRests(order[u])
OpenUnused == \A u \in Uid : u > next_id => ~Ended(order[u])

EndedInv ==
  PlacesInv /\ OpenPending /\ OpenInHand /\ SpentOnBook /\ RestersOnBook /\ NewestKnown /\ OpenUnused

NoEndedFills == \A u \in Uid : Ended(order[u]) => order'[u].filled = order[u].filled

LEMMA FilledUp == ASSUME EndedInv, Matching, TopLevel.queue # << >>, Ended(order[Maker]) PROVE Overlap = 0
  <1>1. Maker \in Resting(book) /\ order[cur] \in Order /\ order[Maker] \in Order
    BY MakerFacts DEF EndedInv
  <1>2. Remaining(order[Maker]) = 0
    BY <1>1 DEF EndedInv, SpentOnBook
  <1>3. Remaining(order[cur]) \in Nat
    <2>1. order[cur].quantity - order[cur].filled \in Int
      BY <1>1 DEF Order
    <2>2. QED
      BY <2>1, ClipType DEF Remaining
  <1>4. QED
    BY <1>2, <1>3 DEF Overlap, Least

LEMMA NewestCancelsTakers ==
  ASSUME EndedInv, StpCancelNewest
  PROVE  NeverRests(order[cur])
  <1>1. Matching /\ TopLevel.queue # << >> /\ EffectiveStp = "CANCEL_NEWEST"
    BY DEF StpCancelNewest, Prevents
  <1>2. order[cur].stp = "CANCEL_NEWEST" \/ order[Maker].stp = "CANCEL_NEWEST"
    BY <1>1 DEF EffectiveStp
  <1>3. Maker \in OnBook(book) /\ Maker \in 1 .. next_id /\ cur \in 1 .. next_id
    BY <1>1, MakerFacts DEF EndedInv
  <1>4. ~NeverRests(order[Maker]) /\ (order[Maker].stp = "CANCEL_NEWEST" => NeverRests(order[Maker]))
        /\ (order[cur].stp = "CANCEL_NEWEST" => NeverRests(order[cur]))
    BY <1>3 DEF EndedInv, RestersOnBook, NewestKnown
  <1>5. QED
    BY <1>2, <1>4

LEMMA StepEnded ==
  ASSUME NewestNeverRests, EndedInv, [Next]_vars
  PROVE  EndedInv' /\ NoEndedFills
  <1> DEFINE G == /\ OpenPending' /\ OpenInHand' /\ SpentOnBook' /\ RestersOnBook' /\ NewestKnown'
                  /\ OpenUnused' /\ NoEndedFills
  <1>1. PlacesInv /\ PlacesInv' /\ EngineInv'
    BY StepPlaces DEF EndedInv, PlacesInv
  <1> SUFFICES G
    BY <1>1 DEF EndedInv
  <1> HIDE DEF G
  <1>2. /\ next_id \in Nat /\ 1 .. next_id \subseteq Uid /\ order \in [Uid -> Order] /\ Uid \subseteq Nat
        /\ ToSet(pending) \subseteq Uid /\ OnBook(book) \subseteq Uid /\ Resting(book) \subseteq Uid
        /\ InHand \subseteq Uid /\ Resting(book) \subseteq OnBook(book)
    BY <1>1, PlaceFacts, HandFacts DEF InHand, Uid
  <1>3. /\ OpenPending /\ OpenInHand /\ SpentOnBook /\ RestersOnBook /\ NewestKnown /\ OpenUnused
        /\ \A v \in 1 .. next_id : Kept(order'[v], order[v])
    BY <1>1, StepKeepsParties DEF EndedInv
  <1>4. ASSUME OrdersStay, next_id' = next_id, ToSet(pending') \subseteq ToSet(pending),
               Resting(book') \subseteq Resting(book), OnBook(book') \subseteq OnBook(book),
               \A v \in InHand' : v \in ToSet(pending) \/ (v \in InHand /\ (pc = "residual" => pc' = "residual"))
        PROVE  G
    BY <1>2, <1>3, <1>4 DEF G, OrdersStay, OpenPending, OpenInHand, SpentOnBook, RestersOnBook, NewestKnown,
                           OpenUnused, NoEndedFills
  <1>5. ASSUME NEW u \in 1 .. next_id, \A v \in Uid : v # u => order'[v] = order[v], next_id' = next_id,
               ToSet(pending') \subseteq ToSet(pending) \cup {u},
               Resting(book') \subseteq Resting(book) \cup {u}, OnBook(book') \subseteq OnBook(book) \cup {u},
               \A v \in InHand' : v = u \/ (v \in InHand /\ (pc = "residual" => pc' = "residual")),
               NeverRests(order[u]) => NeverRests(order'[u]),
               u \in ToSet(pending') => ~Ended(order'[u]),
               u \in InHand' /\ Ended(order'[u]) => pc' = "residual" /\ NeverRests(order'[u]),
               u \in Resting(book') /\ Ended(order'[u]) => Remaining(order'[u]) = 0,
               u \in OnBook(book') => ~NeverRests(order'[u]),
               Ended(order[u]) => order'[u].filled = order[u].filled
        PROVE  G
    <2>1. OpenPending' /\ SpentOnBook' /\ RestersOnBook' /\ NoEndedFills
      BY <1>2, <1>3, <1>5 DEF OpenPending, SpentOnBook, RestersOnBook, NoEndedFills
    <2>2. OpenInHand'
      BY <1>2, <1>3, <1>5 DEF OpenInHand
    <2>3. NewestKnown' /\ OpenUnused'
      BY <1>2, <1>3, <1>5 DEF NewestKnown, OpenUnused, Kept
    <2>4. QED
      BY <2>1, <2>2, <2>3 DEF G
  <1>6. pc' = "residual" \/ pc' = "match" \/ InHand' = {}
    BY DEF InHand
  <1>7. CASE ~Moves
    <2>0. CASE Fading /\ OrdersStay
      BY <1>4, <1>6, <2>0 DEF Fading
    <2>1. CASE Fading /\ SomeRetires
      <3>1. PICK u, st : Retires(u, st)
        BY <2>1 DEF SomeRetires
      <3>2. /\ u \in 1 .. next_id /\ u \in Uid /\ order' = Marked(order, u, st)
            /\ u \notin ToSet(pending') /\ u \notin InHand' /\ u \notin Resting(book')
        BY <3>1 DEF Retires, InPlay
      <3>3. Unfilled(order'[u], order[u]) /\ \A v \in Uid : v # u => order'[v] = order[v]
        BY <1>1, <3>2, MarksKeep
      <3>4. order'[u].filled = order[u].filled /\ (NeverRests(order'[u]) <=> NeverRests(order[u]))
        BY <3>3 DEF Unfilled, Steady, Alike, NeverRests
      <3>5. u \in OnBook(book') => ~NeverRests(order'[u])
        BY <1>3, <2>1, <3>4 DEF Fading, RestersOnBook
      <3>6. QED
        BY <1>5, <1>6, <2>1, <3>2, <3>3, <3>4, <3>5 DEF Fading
    <2>2. QED
      BY <1>1, <1>7, <2>0, <2>1, StepsSorted
  <1>8. ASSUME NEW tk \in Tickets, Submit(tk) PROVE G
    <2> DEFINE n == next_id + 1
    <2>1. /\ n \in Uid /\ next_id' = n /\ UNCHANGED <<book, stops>> /\ order'[n].status = "NEW"
          /\ order'[n].stp = tk.stp /\ order'[n].type = tk.type /\ order'[n].tif = tk.tif
          /\ \A v \in Uid : v # n => order'[v] = order[v]
          /\ ToSet(pending') = ToSet(pending) \cup {n} /\ InHand' = {}
      BY <1>1, <1>8, SubmitFacts
    <2>2. ~Ended(order[n]) /\ ~Ended(order'[n]) /\ n > next_id
      BY <1>2, <1>3, <2>1 DEF OpenUnused, Ended
    <2>3. order'[n].stp = "CANCEL_NEWEST" => NeverRests(order'[n])
      BY <2>1 DEF NewestNeverRests, NeverRests
    <2>4. n \notin OnBook(book) /\ OnBook(book) \subseteq 1 .. next_id /\ n \notin 1 .. next_id
          /\ \A v \in 1 .. n : v = n \/ v \in 1 .. next_id
      BY <1>1, <1>2, PlaceFacts
    <2>5. \A v \in Uid : v > n => v > next_id /\ v # n
      BY <1>2
    <2> HIDE DEF n
    <2>6. OpenPending' /\ OpenInHand' /\ NoEndedFills
      BY <1>2, <1>3, <2>1, <2>2 DEF OpenPending, OpenInHand, NoEndedFills
    <2>7. SpentOnBook' /\ RestersOnBook'
      BY <1>2, <1>3, <2>1, <2>4 DEF SpentOnBook, RestersOnBook
    <2>8. NewestKnown' /\ OpenUnused'
      BY <1>2, <1>3, <2>1, <2>3, <2>4, <2>5 DEF NewestKnown, OpenUnused
    <2>9. QED
      BY <2>6, <2>7, <2>8 DEF G
  <1>9. ASSUME NEW oid \in OrderId, NEW am \in Amendments,
               ModifyAcross(oid, am) \/ ModifyRequote(oid, am) \/ ModifyReduce(oid, am)
        PROVE  G
    <2>1. PICK u : Amended(u)
      BY <1>1, <1>9, ModifyFacts
    <2>2. u \in OnBook(book) /\ u \in 1 .. next_id
      BY <1>1, <2>1, BookFacts DEF Amended
    <2>3. ~Ended(order'[u]) /\ (NeverRests(order'[u]) <=> NeverRests(order[u]))
      BY <2>1 DEF Amended, Ended, NeverRests
    <2>4. ~NeverRests(order[u])
      BY <1>3, <2>2 DEF RestersOnBook
    <2>5. QED
      BY <1>5, <2>1, <2>2, <2>3, <2>4 DEF Amended
  <1>10. ASSUME NEW u \in Uid, ParkStop(u) \/ StartMatch(u) PROVE G
    <2>1. OrdersStay /\ pending' = Tail(pending) /\ Taking(u) /\ UNCHANGED <<next_id, book>>
      BY <1>10 DEF ParkStop, StartMatch, OrdersStay
    <2>2. ToSet(pending') \subseteq ToSet(pending) /\ u \in ToSet(pending) /\ InHand = {}
      BY <1>1, <2>1, TakenFacts
    <2>3. \A v \in InHand' : v \in ToSet(pending)
      BY <1>10, <2>2 DEF ParkStop, StartMatch, InHand
    <2>4. \A v \in InHand' : v \in ToSet(pending) \/ (v \in InHand /\ (pc = "residual" => pc' = "residual"))
      BY <2>3
    <2>5. Resting(book') \subseteq Resting(book) /\ OnBook(book') \subseteq OnBook(book) /\ next_id' = next_id
      BY <2>1
    <2>6. QED
      BY <1>4, <2>1, <2>2, <2>4, <2>5
  <1>11. ASSUME NEW u \in Uid, Trigger(u) PROVE G
    <2>1. /\ order'[u].status = "TRIGGERED" /\ order'[u].filled = order[u].filled
          /\ \A v \in Uid : v # u => order'[v] = order[v]
          /\ order[u].type \in {"MARKET", "IOC"} => order'[u].type = order[u].type
          /\ ToSet(pending') = ToSet(pending) \cup {u} /\ InHand' = InHand
          /\ u \in Heaped(stops) /\ u \in 1 .. next_id /\ Alike(order'[u], order[u])
      BY <1>1, <1>11, TriggerPlaces
    <2>2. UNCHANGED <<book, next_id, pc>>
      BY <1>11 DEF Trigger
    <2>3. u \notin OnBook(book) /\ u \notin Resting(book) /\ u \notin InHand
      BY <1>1, <2>1, PlaceFacts DEF Apart
    <2>4. NeverRests(order[u]) => NeverRests(order'[u])
      BY <2>1 DEF NeverRests, Alike
    <2>5. ~Ended(order'[u])
      BY <2>1 DEF Ended
    <2>6. QED
      BY <1>5, <2>1, <2>2, <2>3, <2>4, <2>5
  <1>12. CASE StpCancelNewest
    <2>1. order' = Marked(order, cur, "CANCELED") /\ pc = "match" /\ pc' = "residual"
          /\ UNCHANGED <<next_id, book, pending, cur>>
      BY <1>12 DEF StpCancelNewest, Matching
    <2>2. /\ InHand = {cur} /\ cur \in Uid /\ cur \in 1 .. next_id /\ cur \notin ToSet(pending)
          /\ cur \notin Resting(book)
      BY <1>1, <2>1, HandFacts
    <2>3. cur \notin OnBook(book)
      BY <1>1, <2>2, PlaceFacts DEF Apart
    <2>4. InHand' = {cur}
      BY <2>1 DEF InHand
    <2>5. Unfilled(order'[cur], order[cur]) /\ \A v \in Uid : v # cur => order'[v] = order[v]
      BY <1>1, <2>1, <2>2, MarksKeep
    <2>6. order'[cur].filled = order[cur].filled /\ NeverRests(order'[cur])
      BY <1>12, <2>5, NewestCancelsTakers DEF Unfilled, Steady, Alike, NeverRests
    <2>7. QED
      BY <1>5, <2>1, <2>2, <2>3, <2>4, <2>5, <2>6
  <1>13. CASE Rest
    <2>1. PICK st : order' = Marked(order, cur, st) /\ st \in {"PARTIALLY_FILLED", order[cur].status}
      BY <1>13 DEF Rest
    <2>2. pc = "residual" /\ pc' \notin {"match", "residual"} /\ UNCHANGED <<next_id, pending>> /\ ~NeverRests(order[cur])
      BY <1>13 DEF Rest, AfterResidual
    <2>3. /\ InHand = {cur} /\ cur \in Uid /\ cur \in 1 .. next_id /\ cur \notin ToSet(pending)
      BY <1>1, <2>2, HandFacts
    <2>4. InHand' = {}
      BY <2>2 DEF InHand
    <2>5. Unfilled(order'[cur], order[cur]) /\ order'[cur].status = st
          /\ \A v \in Uid : v # cur => order'[v] = order[v]
      BY <1>1, <2>1, <2>3, MarksKeep
    <2>6. order'[cur].filled = order[cur].filled /\ ~NeverRests(order'[cur])
      BY <2>2, <2>5 DEF Unfilled, Steady, Alike, NeverRests
    <2>7. ~Ended(order'[cur])
      <3>1. ~Ended(order[cur])
        BY <1>3, <2>2, <2>3 DEF OpenInHand
      <3>2. QED
        BY <2>1, <2>5, <3>1 DEF Ended
    <2>8. /\ OnBook(book') \subseteq OnBook(book) \cup {cur}
          /\ Resting(book') \subseteq Resting(book) \cup {cur}
      BY <1>1, <1>13, RestPlaces
    <2>9. QED
      BY <1>5, <2>2, <2>3, <2>4, <2>5, <2>6, <2>7, <2>8
  <1>14. CASE StpDecrement \/ Execute
    <2> DEFINE m == Maker
    <2>1. /\ Matching /\ TopLevel.queue # << >> /\ UNCHANGED <<next_id, pending, pc, cur>>
          /\ \A u \in Uid : u \notin {cur, m} => order'[u] = order[u]
          /\ order'[cur].status = order[cur].status /\ order'[cur].type = order[cur].type
          /\ order'[cur].tif = order[cur].tif
          /\ order'[m].type = order[m].type /\ order'[m].tif = order[m].tif
          /\ order'[m].filled = order[m].filled + Overlap /\ order'[m].quantity = order[m].quantity
          /\ \/ order'[m].status = order[m].status
             \/ order'[m].status = "PARTIALLY_FILLED"
             \/ order'[m].status \in {"FILLED", "CANCELED"} /\ Remaining(order'[m]) = 0
          /\ Resting(book') \subseteq Resting(book) /\ OnBook(book') \subseteq OnBook(book)
      BY <1>1, <1>14, ChargeFacts
    <2>2. /\ m \in Resting(book) /\ m \in OnBook(book) /\ m \in 1 .. next_id /\ m \in Uid /\ m # cur
          /\ order[m] \in Order /\ pc = "match"
      BY <1>1, <2>1, MakerFacts
    <2>3. /\ InHand = {cur} /\ cur \in Uid /\ cur \in 1 .. next_id /\ cur \notin ToSet(pending)
          /\ cur \notin Resting(book) /\ m \notin ToSet(pending)
      BY <1>1, <2>2, HandFacts, BookFacts
    <2>4. Ended(order[m]) => Overlap = 0
      BY <2>1, FilledUp
    <2> HIDE DEF m
    <2>5. order[m].filled \in Nat
      BY <2>2 DEF Order
    <2>6. Ended(order[m]) => order'[m].filled = order[m].filled /\ Remaining(order'[m]) = Remaining(order[m])
      BY <2>1, <2>4, <2>5 DEF Remaining
    <2>7. InHand' = {cur} /\ cur \notin OnBook(book) /\ ~Ended(order[cur])
      <3>1. InHand' = {cur}
        BY <2>1, <2>2 DEF InHand
      <3>2. cur \notin OnBook(book)
        BY <1>1, <2>3, PlaceFacts DEF Apart
      <3>3. QED
        BY <1>3, <2>2, <2>3, <3>1, <3>2 DEF OpenInHand
    <2>8. ~Ended(order'[cur]) /\ (NeverRests(order'[cur]) <=> NeverRests(order[cur]))
          /\ (NeverRests(order'[m]) <=> NeverRests(order[m]))
      BY <2>1, <2>7 DEF Ended, NeverRests
    <2>9. Ended(order'[m]) => Remaining(order'[m]) = 0
      BY <1>3, <2>1, <2>2, <2>6 DEF Ended, SpentOnBook
    <2>10. OpenPending' /\ OpenInHand'
      BY <1>2, <1>3, <2>1, <2>3, <2>7, <2>8 DEF OpenPending, OpenInHand
    <2>11. SpentOnBook'
      BY <1>2, <1>3, <2>1, <2>3, <2>9 DEF SpentOnBook
    <2>12. RestersOnBook'
      BY <1>2, <1>3, <2>1, <2>2, <2>7, <2>8 DEF RestersOnBook
    <2>13. NewestKnown' /\ OpenUnused'
      BY <1>2, <1>3, <2>1, <2>2, <2>3, <2>8 DEF NewestKnown, OpenUnused, Kept
    <2>14. NoEndedFills
      BY <2>1, <2>6, <2>7 DEF NoEndedFills
    <2>15. QED
      BY <2>10, <2>11, <2>12, <2>13, <2>14 DEF G
  <1>15. QED
    BY <1>7, <1>8, <1>9, <1>10, <1>11, <1>12, <1>13, <1>14 DEF Moves

(* An order that is filled, cancelled or rejected is filled no further     *)
(* (README 1, "zombie fills"), as long as CANCEL_NEWEST is asked for only  *)
(* with orders that never rest: _match leaves the lots of an order that    *)
(* CANCEL_NEWEST cancelled for _process_single_order to insert.            *)
THEOREM EndedStayEnded == ASSUME NewestNeverRests PROVE Spec => NoZombieFills
  <1>1. Init => EndedInv
    <2> SUFFICES ASSUME Init PROVE EndedInv
      OBVIOUS
    <2>1. PlacesInv /\ next_id = 0 /\ book = EmptyBook /\ pending = << >> /\ InHand = {} /\ order = [u \in Uid |-> Blank]
      BY InitPlaces DEF Init, InHand
    <2>2. OnBook(book) \subseteq 1 .. 0
      BY <2>1, PlaceFacts
    <2>3. ToSet(pending) = {} /\ OnBook(book) = {} /\ Resting(book) = {}
      BY <2>1, <2>2, EmptyQueue DEF OnBook
    <2>4. OpenUnused
      BY <2>1 DEF OpenUnused, Ended, Blank
    <2>5. QED
      BY <2>1, <2>3, <2>4 DEF EndedInv, OpenPending, OpenInHand, SpentOnBook, RestersOnBook, NewestKnown
  <1>2. EndedInv /\ [Next]_vars
        => [\A u \in Uid : Ended(order[u]) => order'[u].filled = order[u].filled]_vars
    BY StepEnded DEF NoEndedFills
  <1>3. EndedInv /\ [Next]_vars => EndedInv'
    BY StepEnded
  <1>4. QED
    BY <1>1, <1>2, <1>3, PTL DEF Spec, NoZombieFills

-----------------------------------------------------------------------------
(* Trades and the limits of their orders.                                  *)

LEMMA OnGrid == ASSUME NEW p \in Tick PROVE TicksOf(p) = p
  <1>1. Tick \subseteq Nat
    BY GridAssumption
  <1>2. Distance(p, p) = 0 /\ \A s \in Tick : Distance(s, p) >= 0 /\ (Distance(s, p) <= 0 => s = p)
    BY <1>1 DEF Distance
  <1>3. IsNearest(p, p) /\ \A s \in Tick : IsNearest(s, p) => s = p
    BY <1>2 DEF IsNearest
  <1>4. QED
    BY <1>3 DEF TicksOf

LEMMA ExecuteWithin ==
  ASSUME Price = Tick, PlacesInv, Execute
  PROVE  WithinLimit(Maker, Top) /\ WithinLimit(cur, Top)
  <1>1. Matching /\ TopLevel.queue # << >> /\ Crosses
    BY DEF Execute, Prevents, Matching
  <1>2. /\ Maker \in ToSet(TopLevel.queue) /\ pc = "match" /\ HasSide(book, Contra)
        /\ order[Maker] \in Order
    BY <1>1, MakerFacts
  <1>3. Contra \in Side /\ Top \in Tick /\ book.level[Contra][Top] = TopLevel /\ Placed(book, order)
    BY <1>2, TopFacts
  <1>4. order[Maker].price # NoPrice /\ TicksOf(order[Maker].price) = Top
    BY <1>2, <1>3 DEF Placed, WellQueued
  <1>5. order[Maker].price \in Tick
    BY <1>2, <1>4 DEF Order
  <1>6. order[Maker].price = Top /\ Top \in Nat
    BY <1>3, <1>4, <1>5, OnGrid, GridAssumption
  <1>7. WithinLimit(Maker, Top)
    BY <1>6 DEF WithinLimit, PriceReaches
  <1>8. WithinLimit(cur, Top)
    BY <1>1 DEF Crosses, WithinLimit
  <1>9. QED
    BY <1>7, <1>8

(* Where prices lie on the grid, no trade is outside the limit either of   *)
(* its orders has at that moment, whatever was modified before: the maker  *)
(* stands at the tick of its own price, and the taker crossed it (_match). *)
THEOREM LimitsHonoured == ASSUME Price = Tick PROVE Spec => TradesWithinLimits
  <1>1. ASSUME PlacesInv, [Next]_vars PROVE NewTradeWithin
    <2>1. trades \in Seq(Trade)
      BY <1>1 DEF PlacesInv, EngineInv
    <2>2. CASE Execute
      <3> DEFINE tr == [maker |-> Maker, taker |-> cur, price |-> Top, quantity |-> Overlap,
                        timestamp |-> order[cur].timestamp]
      <3>1. trades' = Append(trades, tr)
        BY <2>2 DEF Execute
      <3>2. tr.maker = Maker /\ tr.taker = cur /\ tr.price = Top
        OBVIOUS
      <3> HIDE DEF tr
      <3>3. trades'[Len(trades')] = tr
        BY <2>1, <3>1
      <3>4. QED
        BY <1>1, <2>2, <3>2, <3>3, ExecuteWithin DEF NewTradeWithin
    <2>3. CASE ~Execute
      BY <1>1, <2>1, <2>3, TradesByExecute DEF NewTradeWithin
    <2>4. QED
      BY <2>2, <2>3
  <1>2. PlacesInv /\ [Next]_vars => [NewTradeWithin]_vars
    BY <1>1
  <1>3. QED
    BY <1>2, PlacesHold, PTL DEF Spec, TradesWithinLimits

-----------------------------------------------------------------------------
(* What orders have filled and the trade history.                          *)

NoDecrement == \A tk \in Tickets : tk.stp # "DECREMENT_AND_CANCEL"

NoneDecrements == \A u \in 1 .. next_id : order[u].stp # "DECREMENT_AND_CANCEL"

FillsInv == TradesKnown /\ NoneDecrements /\ FillsAreTrades

(* Only _match fills an order; a new one starts with nothing filled.       *)
Fresh(u) == u = next_id + 1 /\ order'[u].filled = 0

LEMMA FilledByMatch ==
  ASSUME PlacesInv, EngineInv', [Next]_vars, ~Execute, ~StpDecrement
  PROVE  \A v \in Uid : order'[v].filled = order[v].filled \/ Fresh(v)
  <1> DEFINE G == \A v \in Uid : order'[v].filled = order[v].filled \/ Fresh(v)
  <1>1. ASSUME OrdersStay PROVE G
    BY <1>1 DEF OrdersStay
  <1>2. ASSUME NEW u \in Uid, NEW st, order' = Marked(order, u, st) PROVE G
    BY <1>2, MarksKeep DEF Unfilled, Steady
  <1>3. ASSUME NEW u, order'[u].filled = order[u].filled, \A v \in Uid : v # u => order'[v] = order[v]
        PROVE  G
    BY <1>3
  <1>4. CASE ~Moves
    <2>1. OrdersStay \/ SomeRetires
      BY <1>4, StepsSorted
    <2>2. ASSUME NEW u, NEW st, Retires(u, st) PROVE G
      BY <1>2, <2>2 DEF Retires
    <2>3. QED
      BY <1>1, <2>1, <2>2 DEF SomeRetires
  <1>5. ASSUME NEW tk \in Tickets, Submit(tk) PROVE G
    BY <1>5, SubmitFacts DEF Fresh
  <1>6. ASSUME NEW oid \in OrderId, NEW am \in Amendments,
               ModifyAcross(oid, am) \/ ModifyRequote(oid, am) \/ ModifyReduce(oid, am)
        PROVE  G
    <2>1. PICK u : Amended(u)
      BY <1>6, ModifyFacts
    <2>2. QED
      BY <1>3, <2>1 DEF Amended
  <1>7. ASSUME NEW u \in Uid, ParkStop(u) \/ StartMatch(u) PROVE G
    BY <1>1, <1>7 DEF ParkStop, StartMatch, OrdersStay
  <1>8. ASSUME NEW u \in Uid, Trigger(u) PROVE G
    <2>1. order'[u].filled = order[u].filled /\ \A v \in Uid \ {u} : order'[v] = order[v]
      BY <1>8, TriggerPlaces
    <2>2. QED
      BY <1>3, <2>1
  <1>9. CASE StpCancelNewest \/ Rest
    <2>1. pc \in {"match", "residual"} /\ \E st : order' = Marked(order, cur, st)
      BY <1>9 DEF StpCancelNewest, Rest, Matching
    <2>2. cur \in Uid
      BY <2>1, HandFacts
    <2>3. QED
      BY <1>2, <2>1, <2>2
  <1>10. QED
    BY <1>4, <1>5, <1>6, <1>7, <1>8, <1>9 DEF Moves

(* The trades that order u is part of, and what they add up to.            *)
Shares(tr, u) == {i \in 1 .. Len(tr) : u \in {tr[i].maker, tr[i].taker}}
Lots(tr) == [i \in 1 .. Len(tr) |-> tr[i].quantity]
Total(tr, u) == SumFunctionOnSet(Lots(tr), Shares(tr, u))

LEMMA TradedIsTotal == ASSUME NEW u PROVE LotsTraded(u) = Total(trades, u)
  BY DEF LotsTraded, Total, Lots, Shares

LEMMA SharesFinite ==
  ASSUME NEW tr \in Seq(Trade), NEW u
  PROVE  /\ IsFiniteSet(Shares(tr, u)) /\ Ints(Lots(tr), Shares(tr, u))
         /\ Shares(tr, u) \subseteq 1 .. Len(tr)
  <1>1. IsFiniteSet(1 .. Len(tr))
    BY FS_Interval
  <1>2. Shares(tr, u) \subseteq 1 .. Len(tr)
    BY DEF Shares
  <1>3. \A i \in 1 .. Len(tr) : tr[i].quantity \in Int
    <2>1. \A i \in 1 .. Len(tr) : tr[i] \in Trade
      OBVIOUS
    <2>2. QED
      BY <2>1 DEF Trade
  <1>4. QED
    BY <1>1, <1>2, <1>3, FS_Subset DEF Ints, Lots

(* A trade adds its lots to those of its two orders.                       *)
LEMMA TotalGrows ==
  ASSUME NEW tr \in Seq(Trade), NEW t \in Trade, NEW u
  PROVE  Total(Append(tr, t), u) = Total(tr, u) + (IF u \in {t.maker, t.taker} THEN t.quantity ELSE 0)
  <1> DEFINE w == Append(tr, t)
             n == Len(tr) + 1
             S == Shares(tr, u)
  <1>1. /\ w \in Seq(Trade) /\ Len(w) = n /\ w[n] = t /\ n \in Nat /\ Len(tr) \in Nat
        /\ \A i \in 1 .. Len(tr) : w[i] = tr[i]
    OBVIOUS
  <1>2. IsFiniteSet(S) /\ Ints(Lots(tr), S) /\ S \subseteq 1 .. Len(tr)
    BY SharesFinite
  <1> HIDE DEF w, n
  <1>3. \A i \in 1 .. n : i = n \/ i \in 1 .. Len(tr)
    BY <1>1 DEF n
  <1>4. \A i \in S : Lots(w)[i] = Lots(tr)[i]
    <2>1. \A i \in 1 .. Len(tr) : i \in 1 .. n
      BY <1>1 DEF n
    <2>2. QED
      BY <1>1, <1>2, <2>1 DEF Lots
  <1>5. n \notin S /\ Lots(w)[n] = t.quantity /\ t.quantity \in Int
    <2>1. n \notin 1 .. Len(tr) /\ n \in 1 .. n
      BY <1>1 DEF n
    <2>2. t.quantity \in Int
      BY DEF Trade
    <2>3. QED
      BY <1>1, <1>2, <2>1, <2>2 DEF Lots
  <1>6. SumFunctionOnSet(Lots(w), S) = Total(tr, u) /\ Total(tr, u) \in Int /\ Ints(Lots(w), S)
    <2>1. SumFunctionOnSet(Lots(w), S) = SumFunctionOnSet(Lots(tr), S)
      BY <1>2, <1>4, SumSame
    <2>2. SumFunctionOnSet(Lots(tr), S) \in Int
      BY <1>2, SumInt
    <2>3. QED
      BY <1>2, <1>4, <2>1, <2>2 DEF Total, Ints
  <1>7. CASE u \in {t.maker, t.taker}
    <2>1. Shares(w, u) = S \cup {n}
      <3>1. \A i : i \in Shares(w, u) <=> i \in 1 .. n /\ u \in {w[i].maker, w[i].taker}
        BY <1>1 DEF Shares
      <3>2. \A i : i \in S <=> i \in 1 .. Len(tr) /\ u \in {tr[i].maker, tr[i].taker}
        BY DEF Shares
      <3>3. \A i \in 1 .. Len(tr) : i \in 1 .. n
        BY <1>1 DEF n
      <3>4. n \in 1 .. n
        BY <1>1 DEF n
      <3> HIDE DEF S
      <3>5. QED
        BY <1>1, <1>3, <1>7, <3>1, <3>2, <3>3, <3>4
    <2>2. SumFunctionOnSet(Lots(w), S \cup {n}) = t.quantity + SumFunctionOnSet(Lots(w), S)
      <3> DEFINE F == Lots(w)
      <3>1. IsFiniteSet(S) /\ n \notin S /\ Ints(F, S) /\ F[n] \in Int /\ F[n] = t.quantity
        BY <1>2, <1>5, <1>6
      <3> HIDE DEF S, F
      <3>2. SumFunctionOnSet(F, S \cup {n}) = F[n] + SumFunctionOnSet(F, S)
        BY <3>1, SumAdd
      <3>3. QED
        BY <3>1, <3>2 DEF F
    <2> HIDE DEF S
    <2>3. QED
      BY <1>5, <1>6, <1>7, <2>1, <2>2 DEF Total, w
  <1>8. CASE u \notin {t.maker, t.taker}
    <2>1. Shares(w, u) = S
      <3>1. \A i : i \in Shares(w, u) <=> i \in 1 .. n /\ u \in {w[i].maker, w[i].taker}
        BY <1>1 DEF Shares
      <3>2. \A i : i \in S <=> i \in 1 .. Len(tr) /\ u \in {tr[i].maker, tr[i].taker}
        BY DEF Shares
      <3>3. \A i \in 1 .. Len(tr) : i \in 1 .. n
        BY <1>1 DEF n
      <3> HIDE DEF S
      <3>4. QED
        BY <1>1, <1>3, <1>8, <3>1, <3>2, <3>3
    <2> HIDE DEF S
    <2>2. QED
      BY <1>6, <1>8, <2>1 DEF Total, w
  <1>9. QED
    BY <1>7, <1>8

(* Both orders of a match are charged what the trade is of.                *)
LEMMA ExecuteFills ==
  ASSUME PlacesInv, EngineInv', Execute
  PROVE  /\ order'[cur].filled = order[cur].filled + Overlap
         /\ order'[Maker].filled = order[Maker].filled + Overlap
         /\ \A u \in Uid : u \notin {cur, Maker} => order'[u] = order[u]
         /\ trades' = Append(trades, [maker |-> Maker, taker |-> cur, price |-> Top, quantity |-> Overlap,
                                      timestamp |-> order[cur].timestamp])
         /\ [maker |-> Maker, taker |-> cur, price |-> Top, quantity |-> Overlap,
             timestamp |-> order[cur].timestamp] \in Trade
         /\ Overlap \in Nat
  <1>1. Matching /\ TopLevel.queue # << >>
    BY DEF Execute, Prevents
  <1>2. /\ Maker \in Uid /\ cur \in Uid /\ Overlap \in Nat /\ order[cur] \in Order
        /\ pc = "match" /\ HasSide(book, Contra)
    BY <1>1, MakerFacts
  <1>3. Top \in Tick
    BY <1>2, TopFacts
  <1>4. order'[cur].filled = order[cur].filled + Overlap
    <2>1. order'[cur] = [order[cur] EXCEPT !.filled = @ + Overlap]
      BY ExecutePlaces
    <2>2. QED
      BY <1>2, <2>1 DEF Order
  <1>5. order'[Maker].filled = order[Maker].filled + Overlap
    BY ChargeFacts
  <1>6. \A u \in Uid : u \notin {cur, Maker} => order'[u] = order[u]
    BY ChargeFacts
  <1>7. trades' = Append(trades, [maker |-> Maker, taker |-> cur, price |-> Top, quantity |-> Overlap,
                                  timestamp |-> order[cur].timestamp])
    BY DEF Execute
  <1>8. order[cur].timestamp \in Nat
    BY <1>2 DEF Order
  <1>9. QED
    BY <1>2, <1>3, <1>4, <1>5, <1>6, <1>7, <1>8 DEF Trade

LEMMA CountedBySubmit ==
  ASSUME PlacesInv, EngineInv', [Next]_vars, \A tk \in Tickets : ~Submit(tk)
  PROVE  next_id' = next_id
  <1>1. CASE ~Moves
    BY <1>1, StepsSorted DEF Fading
  <1>2. ASSUME NEW oid \in OrderId, NEW am \in Amendments,
               ModifyAcross(oid, am) \/ ModifyRequote(oid, am) \/ ModifyReduce(oid, am)
        PROVE  next_id' = next_id
    BY <1>2 DEF ModifyAcross, ModifyRequote, ModifyReduce
  <1>3. ASSUME NEW u \in Uid, ParkStop(u) \/ StartMatch(u) \/ Trigger(u) PROVE next_id' = next_id
    BY <1>3 DEF ParkStop, StartMatch, Trigger
  <1>4. CASE StpCancelNewest \/ StpDecrement \/ Execute \/ Rest
    BY <1>4 DEF StpCancelNewest, StpDecrement, Execute, Rest
  <1>5. QED
    BY <1>1, <1>2, <1>3, <1>4 DEF Moves

LEMMA DecrementAsked ==
  ASSUME PlacesInv, NoneDecrements, StpDecrement
  PROVE  FALSE
  <1>1. Matching /\ TopLevel.queue # << >> /\ EffectiveStp = "DECREMENT_AND_CANCEL"
    BY DEF StpDecrement, Prevents
  <1>2. Maker \in 1 .. next_id /\ cur \in 1 .. next_id
    BY <1>1, MakerFacts
  <1>3. EffectiveStp = "NONE" \/ EffectiveStp = order[cur].stp \/ EffectiveStp = order[Maker].stp
    BY Zenon DEF EffectiveStp
  <1>4. QED
    BY <1>1, <1>2, <1>3 DEF NoneDecrements

LEMMA StepFills == ASSUME NoDecrement PROVE FillsInv /\ [Next]_vars => FillsInv'
  <1> SUFFICES ASSUME FillsInv, [Next]_vars PROVE FillsInv'
    OBVIOUS
  <1>1. /\ PlacesInv /\ EngineInv' /\ TradesKnown /\ TradesKnown' /\ ~StpDecrement
        /\ trades \in Seq(Trade) /\ next_id \in Nat /\ order \in [Uid -> Order] /\ 1 .. next_id \subseteq Uid
    <2>1. PlacesInv /\ NoneDecrements /\ TradesKnown
      BY DEF FillsInv, TradesKnown
    <2>2. EngineInv' /\ TradesKnown'
      BY <2>1, StepTrades DEF TradesKnown, PlacesInv
    <2>3. trades \in Seq(Trade)
      BY <2>1 DEF PlacesInv, EngineInv
    <2>4. QED
      BY <2>1, <2>2, <2>3, DecrementAsked, PlaceFacts
  <1>2. NoneDecrements'
    <2>1. (\A v \in 1 .. next_id : Kept(order'[v], order[v])) /\ next_id <= next_id' /\ next_id' \in Nat
      BY <1>1, StepKeepsParties
    <2>2. ASSUME NEW tk \in Tickets, Submit(tk) PROVE NoneDecrements'
      <3>1. next_id' = next_id + 1 /\ order'[next_id + 1].stp = tk.stp
        BY <1>1, <2>2, SubmitFacts
      <3>2. \A v \in 1 .. next_id' : v \in 1 .. next_id \/ v = next_id + 1
        BY <1>1, <3>1
      <3>3. QED
        BY <2>1, <3>1, <3>2 DEF NoDecrement, NoneDecrements, FillsInv, Kept
    <2>3. ASSUME \A tk \in Tickets : ~Submit(tk) PROVE NoneDecrements'
      <3>1. next_id' = next_id
        BY <1>1, <2>3, CountedBySubmit
      <3>2. QED
        BY <2>1, <3>1 DEF NoneDecrements, FillsInv, Kept
    <2>4. QED
      BY <2>2, <2>3
  <1>3. \A u \in Uid : order[u].filled = Total(trades, u) /\ Total(trades, u) \in Int
    <2>1. \A u \in Uid : order[u].filled = Total(trades, u)
      BY TradedIsTotal DEF FillsInv, FillsAreTrades
    <2>2. \A u \in Uid : order[u].filled \in Int
      BY <1>1 DEF Order
    <2>3. QED
      BY <2>1, <2>2
  <1>4. \A u \in Uid : order'[u].filled = Total(trades', u)
    <2>1. CASE Execute
      <3> DEFINE t == [maker |-> Maker, taker |-> cur, price |-> Top, quantity |-> Overlap,
                       timestamp |-> order[cur].timestamp]
                 m == Maker
                 n == Overlap
      <3>1. /\ order'[cur].filled = order[cur].filled + n /\ order'[m].filled = order[m].filled + n
            /\ \A u \in Uid : u \notin {cur, m} => order'[u] = order[u]
            /\ trades' = Append(trades, t) /\ t \in Trade /\ n \in Nat
        BY <1>1, <2>1, ExecuteFills
      <3>2. t.maker = m /\ t.taker = cur /\ t.quantity = n
        OBVIOUS
      <3> HIDE DEF t, m, n
      <3>3. \A u \in Uid : Total(trades', u) = Total(trades, u) + (IF u \in {m, cur} THEN n ELSE 0)
        BY <1>1, <3>1, <3>2, TotalGrows
      <3>4. QED
        BY <1>3, <3>1, <3>3
    <2>2. CASE ~Execute
      <3>1. trades' = trades
        BY <2>2, TradesByExecute
      <3>2. ASSUME NEW u \in Uid, Fresh(u) PROVE order'[u].filled = Total(trades', u)
        <4>1. u \notin 1 .. next_id
          BY <1>1, <3>2 DEF Fresh
        <4>2. Shares(trades, u) = {}
          BY <1>1, <4>1 DEF Shares, TradesKnown, TradesAllowed
        <4>3. QED
          BY <3>1, <3>2, <4>2, SumEmpty DEF Total, Fresh
      <3>3. \A u \in Uid : order'[u].filled = order[u].filled \/ Fresh(u)
        BY <1>1, <2>2, FilledByMatch
      <3>4. QED
        BY <1>3, <3>1, <3>2, <3>3
    <2>3. QED
      BY <2>1, <2>2
  <1>5. FillsAreTrades'
    <2>1. ASSUME NEW u PROVE LotsTraded(u)' = Total(trades', u)
      BY DEF LotsTraded, Total, Lots, Shares
    <2>2. QED
      BY <1>4, <2>1 DEF FillsAreTrades
  <1>6. QED
    BY <1>1, <1>2, <1>5 DEF FillsInv

(* What an order has filled is what the trades it is part of add up to     *)
(* (_match, trade_history), as long as nobody asks for                     *)
(* DECREMENT_AND_CANCEL, which charges both orders and records no trade.   *)
THEOREM FillsAccounted == ASSUME NoDecrement PROVE Spec => []FillsAreTrades
  <1>1. Init => FillsInv
    <2> SUFFICES ASSUME Init PROVE FillsInv
      OBVIOUS
    <2>1. trades = << >> /\ next_id = 0 /\ order = [u \in Uid |-> Blank]
      BY DEF Init
    <2>2. 1 .. Len(trades) = {} /\ 1 .. next_id = {}
      BY <2>1
    <2>3. TradesKnown
      BY <2>2, InitPlaces DEF TradesKnown, TradesAllowed
    <2>4. \A u \in Uid : order[u].filled = 0
      BY <2>1 DEF Blank
    <2>5. \A u \in Uid : Shares(trades, u) = {}
      BY <2>2 DEF Shares
    <2>6. \A u \in Uid : LotsTraded(u) = 0
      BY <2>5, SumEmpty, TradedIsTotal DEF Total
    <2>7. QED
      BY <2>2, <2>3, <2>4, <2>6 DEF FillsInv, FillsAreTrades, NoneDecrements
  <1>2. FillsInv => FillsAreTrades
    BY DEF FillsInv
  <1>3. QED
    BY <1>1, <1>2, StepFills, PTL DEF Spec

==============================================================================
