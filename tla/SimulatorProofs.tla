-------------------------- MODULE SimulatorProofs ---------------------------
(***************************************************************************)
(* The circuit breaker of the simulator (module Simulator) and the quotes  *)
(* of its market maker, for every price range, threshold, delay and set of *)
(* scheduled sessions.                                                     *)
(***************************************************************************)
EXTENDS Simulator, CommonLemmas, TLAPS

(* The loop is past its last look at the price only in CheckBreaker and    *)
(* where Advance returns early; a step that leaves it anywhere else ends   *)
(* inside a step of the simulation, where nothing is promised.             *)
LEMMA InsideStep ==
  ASSUME pc' # "idle"
  PROVE  DeviantMarketHalts'
BY DEF DeviantMarketHalts

(* Advance returns early only while the session is halted.                 *)
LEMMA AdvanceHalts ==
  ASSUME Advance
  PROVE  DeviantMarketHalts'
BY DEF Advance, DeviantMarketHalts

(* CheckBreaker halts exactly the sessions whose last price trips it.      *)
LEMMA CheckHalts ==
  ASSUME CheckBreaker
  PROVE  DeviantMarketHalts'
BY DEF CheckBreaker, Trips, Deviates, DeviantMarketHalts

(* What is scheduled between two steps changes neither price nor session.  *)
LEMMA ScheduleKeeps ==
  ASSUME DeviantMarketHalts, NEW ev, ScheduleEvent(ev)
  PROVE  DeviantMarketHalts'
BY DEF ScheduleEvent, DeviantMarketHalts

LEMMA BreakerStep ==
  ASSUME DeviantMarketHalts, [Next]_vars
  PROVE  DeviantMarketHalts'
<1>1. CASE Next
  <2>1. CASE pc' # "idle"
    BY <1>1, <2>1, InsideStep
  <2>2. CASE Advance
    BY <2>2, AdvanceHalts
  <2>3. CASE CheckBreaker
    BY <2>3, CheckHalts
  <2>4. CASE InjectFlashCrash \/ InjectNewsShock \/ \E s \in Sessions : ScheduleSession(s)
    BY <2>4, ScheduleKeeps DEF InjectFlashCrash, InjectNewsShock, ScheduleSession
  <2>5. CASE pc' = "idle" /\ ~Advance /\ ~CheckBreaker
              /\ (Step \/ \E o \in NoiseLots, d \in Delays : GenerateNoise(o, d))
    BY <2>5 DEF Step, HandleEvent, SubmitScripted, EventsOver, NoiseOver, Deliver,
                DeliverOver, Quote, Signal, Revert, GenerateNoise
  <2>6. QED
    BY <1>1, <2>1, <2>2, <2>3, <2>4, <2>5 DEF Next
<1>2. CASE UNCHANGED vars
  BY <1>2 DEF vars, DeviantMarketHalts
<1>3. QED
  BY <1>1, <1>2

(* Between two steps of the simulation a market that is off its reference  *)
(* price by the threshold is halted (MarketSimulator.step: expiry, events  *)
(* and the breaker check at the end).                                      *)
THEOREM BreakerHolds == Spec => []DeviantMarketHalts
<1>1. Init => DeviantMarketHalts
  BY DEF Init, DeviantMarketHalts
<1>2. DeviantMarketHalts /\ [Next]_vars => DeviantMarketHalts'
  BY BreakerStep
<1>3. QED
  BY <1>1, <1>2, PTL DEF Spec

-----------------------------------------------------------------------------
(* Where the quotes of the market maker are.  While no message is under    *)
(* way for longer than a step, every quote is on the book or lost before   *)
(* the next ones are sent, so that none is ever forgotten in flight.       *)
Who == {"quote", "other"}

OrderRecord == [who : Who, side : Sides, price : Price \cup {NoPrice}]

Message == [order : OrderRecord, due : Nat]

TypedBook(bk) == bk \in [Sides -> [Price -> Seq(Who)]]

TypeOK ==
  /\ TypedBook(book) /\ inbound \in Seq(Message)
  /\ script \in Seq({o \in OrderRecord : o.who = "other"})
  /\ pc \in {"idle", "events", "noise", "deliver", "quote", "signal", "revert", "post", "check"}

Ordered(q) == \A i, j \in 1 .. Len(q) : i < j => q[i].due <= q[j].due

IsQuote(q, i, side) == q[i].order.who = "quote" /\ q[i].order.side = side

InFlight(q, side) == \E i \in 1 .. Len(q) : IsQuote(q, i, side)

OneInFlight(q, side) == \A i, j \in 1 .. Len(q) : IsQuote(q, i, side) /\ IsQuote(q, j, side) => i = j

Prompt(q, n) == \A i \in 1 .. Len(q) : q[i].order.who = "quote" => q[i].due <= n

QueueHolds ==
  /\ Ordered(inbound) /\ Prompt(inbound, TimeStep)
  /\ pc \in {"events", "noise", "deliver"} => Prompt(inbound, 0)
  /\ \A side \in Sides : OneInFlight(inbound, side) /\ (pc = "quote" => ~InFlight(inbound, side))

Holds(level) == \E i \in 1 .. Len(level) : level[i] # "other"

Single(level) == \A i, j \in 1 .. Len(level) : level[i] # "other" /\ level[j] # "other" => i = j

OneOnBook(bk, side) ==
  /\ \A p \in Price : Single(bk[side][p])
  /\ \A p, r \in Price : Holds(bk[side][p]) /\ Holds(bk[side][r]) => p = r

NoneOnBook(bk, side) == \A p \in Price : ~Holds(bk[side][p])

BookHolds == \A side \in Sides : OneOnBook(book, side) /\ (InFlight(inbound, side) => NoneOnBook(book, side))

QuotesInv == TypeOK /\ QueueHolds /\ BookHolds

-----------------------------------------------------------------------------
(* What the book's operations do to the quotes on a level.                 *)
Lesser(level, next) == (Holds(next) => Holds(level)) /\ (Single(level) => Single(next))

LEMMA LevelTail ==
  ASSUME NEW level \in Seq(Who), level # <<>>
  PROVE  Tail(level) \in Seq(Who) /\ Lesser(level, Tail(level))
<1>1. /\ Tail(level) \in Seq(Who) /\ Len(level) \in Nat /\ Len(Tail(level)) = Len(level) - 1
      /\ \A i \in 1 .. Len(Tail(level)) : Tail(level)[i] = level[i + 1]
  BY HeadTailProperties, LenProperties
<1> DEFINE next == Tail(level)
<1> HIDE DEF next
<1>2. /\ Len(next) = Len(level) - 1 /\ \A i \in 1 .. Len(next) : next[i] = level[i + 1]
  BY <1>1 DEF next
<1>3. \A i \in 1 .. Len(next) : i + 1 \in 1 .. Len(level)
  BY <1>1, <1>2
<1>4. Holds(next) => Holds(level)
  BY <1>2, <1>3 DEF Holds
<1>5. Single(level) => Single(next)
  BY <1>2, <1>3 DEF Single
<1>6. QED
  BY <1>1, <1>4, <1>5 DEF Lesser, next

LEMMA LevelAppend ==
  ASSUME NEW level \in Seq(Who), NEW w \in Who
  PROVE  /\ Append(level, w) \in Seq(Who)
         /\ w = "other" => Lesser(level, Append(level, w))
         /\ ~Holds(level) => Single(Append(level, w))
<1> DEFINE next == Append(level, w)
<1>1. /\ next \in Seq(Who) /\ Len(level) \in Nat /\ Len(next) = Len(level) + 1
      /\ \A i \in 1 .. Len(level) : next[i] = level[i]
      /\ next[Len(level) + 1] = w
  BY AppendFacts, LenProperties
<1> HIDE DEF next
<1>2. \A i \in 1 .. Len(next) : i \in 1 .. Len(level) \/ i = Len(level) + 1
  BY <1>1
<1>3. w = "other" => (Holds(next) => Holds(level)) /\ (Single(level) => Single(next))
  BY <1>1, <1>2 DEF Holds, Single
<1>4. ~Holds(level) => Single(next)
  BY <1>1, <1>2 DEF Holds, Single
<1>5. QED
  BY <1>1, <1>3, <1>4 DEF Lesser, next

(* A cancellation finds the one quote a level holds.                       *)
LEMMA LevelWithdrawn ==
  ASSUME NEW level \in Seq(Who), Single(level)
  PROVE  WithdrawnFrom(level) \in Seq(Who) /\ ~Holds(WithdrawnFrom(level))
<1>1. DOMAIN level = 1 .. Len(level) /\ Len(level) \in Nat /\ \A i \in 1 .. Len(level) : level[i] \in Who
  BY LenProperties, ElementOfSeq
<1>2. \A i \in 1 .. Len(level) : Fresh(level[i]) <=> level[i] # "other"
  BY <1>1 DEF Fresh, Who
<1>3. CASE \E i \in DOMAIN level : Fresh(level[i])
  <2> DEFINE k == CHOOSE i \in DOMAIN level : Fresh(level[i])
             next == RemoveAt(level, k)
  <2>1. k \in 1 .. Len(level) /\ level[k] # "other"
    BY <1>1, <1>2, <1>3
  <2>2. WithdrawnFrom(level) = next
    BY <1>3 DEF WithdrawnFrom
  <2> HIDE DEF k
  <2>3. /\ next \in Seq(Who) /\ Len(next) = Len(level) - 1
        /\ \A i \in 1 .. Len(level) - 1 : next[i] = IF i < k THEN level[i] ELSE level[i + 1]
    BY <2>1, RemoveAtFacts
  <2> HIDE DEF next
  <2>4. ASSUME NEW i \in 1 .. Len(next) PROVE next[i] = "other"
    <3>1. \A j \in 1 .. Len(level) : j # k => level[j] = "other"
      BY <2>1 DEF Single
    <3>2. CASE i < k
      BY <3>1, <3>2, <2>1, <2>3, <1>1
    <3>3. CASE i >= k
      BY <3>1, <3>3, <2>1, <2>3, <1>1
    <3>4. QED
      BY <3>2, <3>3, <2>1, <2>3, <1>1
  <2>5. QED
    BY <2>2, <2>3, <2>4 DEF Holds
<1>4. CASE ~\E i \in DOMAIN level : Fresh(level[i])
  <2>1. WithdrawnFrom(level) = level
    BY <1>4 DEF WithdrawnFrom
  <2>2. QED
    BY <2>1, <1>1, <1>2, <1>4 DEF Holds
<1>5. QED
  BY <1>3, <1>4

-----------------------------------------------------------------------------
(* And to those on a side of the book.                                     *)
LEMMA SideLesser ==
  ASSUME NEW bk, NEW next, NEW side, \A p \in Price : Lesser(bk[side][p], next[side][p])
  PROVE  /\ OneOnBook(bk, side) => OneOnBook(next, side)
         /\ NoneOnBook(bk, side) => NoneOnBook(next, side)
BY DEF Lesser, OneOnBook, NoneOnBook

LEMMA PriceType == Top \in Nat /\ Price \in SUBSET (0 .. Top) /\ Price \subseteq Nat /\ NoPrice \notin Price
BY SimulatorAssumption DEF Price, NoPrice

LEMMA BestFacts ==
  ASSUME NEW side \in Sides, Best(side) # NoPrice
  PROVE  Best(side) \in Price /\ book[side][Best(side)] # <<>>
<1> DEFINE ps == {p \in Price : book[side][p] # <<>>}
<1>1. ps # {} /\ (Best(side) = Max(ps) \/ Best(side) = Min(ps))
  BY DEF Best
<1>2. ps \in SUBSET (0 .. Top) /\ ps \in SUBSET Nat /\ Top \in Nat
  BY PriceType
<1> HIDE DEF ps
<1>3. Max(ps) \in ps /\ Min(ps) \in ps
  BY <1>1, <1>2, GreatestNat, MinOfNats
<1>4. Best(side) \in ps
  BY <1>1, <1>3
<1>5. QED
  BY <1>4 DEF ps

LEMMA AgainstSide == ASSUME NEW side \in Sides PROVE Against(side) \in Sides /\ Against(side) # side
BY DEF Sides, Against

(* One level is replaced by another.                                       *)
LEMMA LevelReplaced ==
  ASSUME TypedBook(book), NEW side \in Sides, NEW p \in Price, NEW w \in Seq(Who)
  PROVE  LET bk == [book EXCEPT ![side][p] = w] IN
         /\ TypedBook(bk) /\ bk[side][p] = w
         /\ \A s \in Sides : \A r \in Price : s # side \/ r # p => bk[s][r] = book[s][r]
BY DEF TypedBook

LEMMA SameLesser == ASSUME NEW level PROVE Lesser(level, level)
BY DEF Lesser

LEMMA ExecuteFacts ==
  ASSUME TypedBook(book), NEW o \in OrderRecord, Execute(o)
  PROVE  /\ TypedBook(book')
         /\ \A s \in Sides : s # o.side \/ o.who = "other" =>
              /\ OneOnBook(book, s) => OneOnBook(book', s)
              /\ NoneOnBook(book, s) => NoneOnBook(book', s)
         /\ NoneOnBook(book, o.side) => OneOnBook(book', o.side)
<1> DEFINE side == o.side
           other == Against(side)
           at == Best(other)
           meets == /\ at # NoPrice
                    /\ \/ o.price = NoPrice
                       \/ IF o.side = "BUY" THEN at <= o.price ELSE at >= o.price
<1>1. side \in Sides /\ o.who \in Who /\ o.price \in Price \cup {NoPrice} /\ other \in Sides /\ other # side
  BY AgainstSide DEF OrderRecord
<1>2. \A s \in Sides : \A p \in Price : book[s][p] \in Seq(Who)
  BY DEF TypedBook
<1>3. \A s \in Sides : NoneOnBook(book, s) => OneOnBook(book, s)
  BY DEF NoneOnBook, OneOnBook, Holds, Single
<1>4. CASE meets
  <2>1. at \in Price /\ book[other][at] # <<>>
    BY <1>1, <1>4, BestFacts
  <2>2. book' = [book EXCEPT ![other][at] = Tail(book[other][at])]
    BY <1>4, <1>1, <2>1 DEF Execute, TypedBook
  <2>3. Tail(book[other][at]) \in Seq(Who) /\ Lesser(book[other][at], Tail(book[other][at]))
    BY <1>1, <1>2, <2>1, LevelTail
  <2> DEFINE w == Tail(book[other][at])
  <2> HIDE DEF w, side, other, at, meets
  <2>4. /\ TypedBook(book') /\ book'[other][at] = w
        /\ \A s \in Sides : \A p \in Price : s # other \/ p # at => book'[s][p] = book[s][p]
    <3> DEFINE bk == [book EXCEPT ![other][at] = w]
    <3>1. /\ TypedBook(bk) /\ bk[other][at] = w
          /\ \A s \in Sides : \A p \in Price : s # other \/ p # at => bk[s][p] = book[s][p]
      <4>1. w \in Seq(Who)
        BY <2>3 DEF w
      <4>2. QED
        BY <4>1, <1>1, <2>1, LevelReplaced
    <3>2. book' = bk
      BY <2>2 DEF w
    <3> HIDE DEF bk
    <3>3. QED
      BY <3>1, <3>2
  <2>5. \A s \in Sides : \A p \in Price : Lesser(book[s][p], book'[s][p])
    BY <2>3, <2>4, SameLesser DEF w
  <2>6. QED
    BY <1>1, <1>3, <2>4, <2>5, SideLesser DEF side
<1>5. CASE ~meets
  <2>1. CASE o.price = NoPrice
    <3>1. book' = book
      BY <1>5, <2>1 DEF Execute
    <3>2. QED
      BY <3>1, <1>1, <1>3
  <2>2. CASE o.price # NoPrice
    <3>1. o.price \in Price
      BY <1>1, <2>2
    <3>2. book' = [book EXCEPT ![side][o.price] = Append(book[side][o.price], o.who)]
      BY <1>5, <1>1, <2>2, <3>1 DEF Execute, TypedBook
    <3> DEFINE w == Append(book[side][o.price], o.who)
    <3>3. /\ w \in Seq(Who)
          /\ o.who = "other" => Lesser(book[side][o.price], w)
          /\ ~Holds(book[side][o.price]) => Single(w)
      BY <1>1, <1>2, <3>1, LevelAppend
    <3> HIDE DEF w, side, other, at, meets
    <3>4. /\ TypedBook(book') /\ book'[side][o.price] = w
          /\ \A s \in Sides : \A p \in Price : s # side \/ p # o.price => book'[s][p] = book[s][p]
      <4> DEFINE bk == [book EXCEPT ![side][o.price] = w]
      <4>1. /\ TypedBook(bk) /\ bk[side][o.price] = w
            /\ \A s \in Sides : \A p \in Price : s # side \/ p # o.price => bk[s][p] = book[s][p]
        BY <1>1, <3>1, <3>3, LevelReplaced
      <4>2. book' = bk
        BY <3>2 DEF w
      <4> HIDE DEF bk
      <4>3. QED
        BY <4>1, <4>2
    <3>5. ASSUME NEW s \in Sides, s # side \/ o.who = "other"
          PROVE  \A p \in Price : Lesser(book[s][p], book'[s][p])
      BY <3>3, <3>4, <3>5, SameLesser
    <3>6. NoneOnBook(book, side) => OneOnBook(book', side)
      <4> SUFFICES ASSUME NoneOnBook(book, side) PROVE OneOnBook(book', side)
        OBVIOUS
      <4>1. \A p \in Price : ~Holds(book[side][p])
        BY DEF NoneOnBook
      <4>2. \A p \in Price : p # o.price => ~Holds(book'[side][p])
        BY <1>1, <3>4, <4>1
      <4>3. ASSUME NEW p \in Price PROVE Single(book'[side][p])
        <5>1. CASE p = o.price
          BY <3>1, <3>3, <3>4, <4>1, <5>1
        <5>2. CASE p # o.price
          BY <4>2, <5>2 DEF Holds, Single
        <5>3. QED
          BY <5>1, <5>2
      <4>4. QED
        BY <4>2, <4>3 DEF OneOnBook
    <3>7. QED
      BY <3>4, <3>5, <3>6, SideLesser DEF side
  <2>3. QED
    BY <2>1, <2>2
<1>6. QED
  BY <1>4, <1>5

-----------------------------------------------------------------------------
(* The inbound queue.                                                      *)
LEMMA MaxOfTwo ==
  ASSUME NEW a \in Nat, NEW b \in Int
  PROVE  Max({a, b}) \in Nat /\ Max({a, b}) = IF b > a THEN b ELSE a
<1>1. \E x \in {a, b} : \A y \in {a, b} : x >= y
  <2>1. CASE b > a
    BY <2>1
  <2>2. CASE ~(b > a)
    BY <2>2
  <2>3. QED
    BY <2>1, <2>2
<1>2. Max({a, b}) \in {a, b} /\ \A y \in {a, b} : Max({a, b}) >= y
  BY <1>1 DEF Max
<1>3. QED
  BY <1>2

LEMMA DelaysAreNat == Delays \subseteq Nat
<1>1. ASSUME NEW hop \in {NetIn, Gateway, Engine} PROVE Sampled(hop) \subseteq Nat
  <2>1. hop.draws \subseteq Int /\ hop.least \in Nat
    BY SimulatorAssumption
  <2>2. \A x \in hop.draws : Max({hop.least, x}) \in Nat
    BY <2>1, MaxOfTwo
  <2>3. QED
    BY <2>2 DEF Sampled
<1>2. QED
  BY <1>1 DEF Delays

LEMMA MessageFields ==
  ASSUME NEW q \in Seq(Message)
  PROVE  /\ Len(q) \in Nat
         /\ \A i \in 1 .. Len(q) : q[i] \in Message /\ q[i].due \in Nat /\ q[i].order \in OrderRecord
<1>1. Len(q) \in Nat /\ \A i \in 1 .. Len(q) : q[i] \in Message
  BY LenProperties, ElementOfSeq
<1>2. \A e \in Message : e.due \in Nat /\ e.order \in OrderRecord
  BY DEF Message
<1>3. QED
  BY <1>1, <1>2

(* There is a place for every message, the first one with something due    *)
(* later behind it.                                                        *)
LEMMA PlaceFound ==
  ASSUME NEW q \in Seq(Message), Ordered(q), NEW d \in Nat
  PROVE  Max(Places(q, d)) \in Places(q, d) /\ Places(q, d) \subseteq 1 .. Len(q) + 1
<1>1. Len(q) \in Nat /\ \A i \in 1 .. Len(q) : q[i].due \in Nat
  BY MessageFields
<1> DEFINE later == {i \in 1 .. Len(q) : q[i].due > d}
<1>2. Places(q, d) # {}
  <2>1. CASE later = {}
    <3>1. \A i \in 1 .. Len(q) : q[i].due <= d
      BY <1>1, <2>1
    <3>2. Len(q) + 1 \in Places(q, d)
      BY <1>1, <3>1 DEF Places
    <3>3. QED
      BY <3>2
  <2>2. CASE later # {}
    <3>1. later \in SUBSET Nat
      BY <1>1
    <3>2. PICK k \in later : \A i \in later : k <= i
      BY <2>2, <3>1, LeastNat
    <3>3. k \in 1 .. Len(q) /\ q[k].due > d
      OBVIOUS
    <3>4. ASSUME NEW j \in 1 .. k - 1 PROVE q[j].due <= d
      <4>1. j \in 1 .. Len(q) /\ j < k /\ j \notin later
        BY <1>1, <3>2, <3>3
      <4>2. QED
        BY <4>1, <1>1
    <3>5. ASSUME NEW j \in k .. Len(q) PROVE q[j].due >= d
      <4>1. j \in 1 .. Len(q) /\ (k < j \/ k = j)
        BY <1>1, <3>3
      <4>2. q[k].due <= q[j].due
        BY <4>1, <3>3, <1>1 DEF Ordered
      <4>3. QED
        BY <4>1, <4>2, <3>3, <1>1
    <3> HIDE DEF later
    <3>6. k \in Places(q, d)
      BY <1>1, <3>3, <3>4, <3>5 DEF Places
    <3>7. QED
      BY <3>6
  <2>3. QED
    BY <2>1, <2>2
<1>3. Places(q, d) \subseteq 1 .. Len(q) + 1
  BY DEF Places
<1>4. Len(q) + 1 \in Nat /\ Places(q, d) \in SUBSET (0 .. Len(q) + 1)
  BY <1>1, <1>3
<1>5. Max(Places(q, d)) \in Places(q, d)
  BY <1>2, <1>4, GreatestNat
<1>6. QED
  BY <1>3, <1>5

Inserts(q, r, k, e) ==
  /\ r[k] = e /\ Len(r) = Len(q) + 1 /\ Len(q) \in Nat
  /\ \A i \in 1 .. Len(r) \ {k} : r[i] = IF i < k THEN q[i] ELSE q[i - 1]

LEMMA SubmitFacts ==
  ASSUME NEW q \in Seq(Message), Ordered(q), NEW o \in OrderRecord, NEW d \in Nat,
         NEW r, r = SubmitInbound(q, o, d)
  PROVE  /\ r \in Seq(Message) /\ Ordered(r)
         /\ \E k \in 1 .. Len(r) : Inserts(q, r, k, [order |-> o, due |-> d])
<1> DEFINE k == Max(Places(q, d))
           e == [order |-> o, due |-> d]
<1>1. k \in Places(q, d) /\ k \in 1 .. Len(q) + 1 /\ e \in Message /\ e.due = d
  BY PlaceFound DEF Message
<1>2. Len(q) \in Nat /\ \A i \in 1 .. Len(q) : q[i].due \in Nat
  BY MessageFields
<1>3. r = InsertAt(q, k, e)
  BY DEF SubmitInbound, Envelope
<1> HIDE DEF k, e
<1>4. /\ r \in Seq(Message) /\ Len(r) = Len(q) + 1 /\ r[k] = e
      /\ \A i \in 1 .. Len(q) : i < k => r[i] = q[i]
      /\ \A i \in 2 .. Len(q) + 1 : i > k => r[i] = q[i - 1]
  <2>1. k \in 1 .. Len(q) + 1 /\ e \in Message
    BY <1>1
  <2>2. /\ InsertAt(q, k, e) \in Seq(Message)
        /\ Len(InsertAt(q, k, e)) = Len(q) + 1
        /\ InsertAt(q, k, e)[k] = e
        /\ \A i \in 1 .. Len(q) : i < k => InsertAt(q, k, e)[i] = q[i]
        /\ \A i \in 2 .. Len(q) + 1 : i > k => InsertAt(q, k, e)[i] = q[i - 1]
    BY <2>1, InsertAtFacts
  <2>3. QED
    BY <2>2, <1>3
<1>5. \A i \in 1 .. Len(r) \ {k} : r[i] = IF i < k THEN q[i] ELSE q[i - 1]
  <2>1. TAKE i \in 1 .. Len(r) \ {k}
  <2>2. CASE i < k
    <3>1. i \in 1 .. Len(q)
      BY <2>2, <1>1, <1>2, <1>4
    <3>2. QED
      BY <3>1, <2>2, <1>4
  <2>3. CASE i > k
    <3>1. i \in 2 .. Len(q) + 1 /\ ~(i < k)
      BY <2>3, <1>1, <1>2, <1>4
    <3>2. QED
      BY <3>1, <2>3, <1>4
  <2>4. QED
    BY <2>2, <2>3, <1>1, <1>2, <1>4
<1>6. (\A j \in 1 .. k - 1 : q[j].due <= d) /\ (\A j \in k .. Len(q) : q[j].due >= d)
  BY <1>1 DEF Places
<1>7. Ordered(r)
  <2>1. SUFFICES ASSUME NEW i \in 1 .. Len(r), NEW j \in 1 .. Len(r), i < j PROVE r[i].due <= r[j].due
    BY DEF Ordered
  <2>2. CASE i = k
    <3>1. r[j] = q[j - 1] /\ j - 1 \in k .. Len(q) /\ r[i].due = d
      BY <2>1, <2>2, <1>1, <1>2, <1>4, <1>5
    <3>2. QED
      BY <3>1, <1>6, <1>2
  <2>3. CASE j = k
    <3>1. r[i] = q[i] /\ i \in 1 .. k - 1 /\ r[j].due = d
      BY <2>1, <2>3, <1>1, <1>2, <1>4, <1>5
    <3>2. QED
      BY <3>1, <1>6
  <2>4. CASE i # k /\ j # k
    <3> DEFINE a == IF i < k THEN i ELSE i - 1
               b == IF j < k THEN j ELSE j - 1
    <3>1. a \in 1 .. Len(q) /\ b \in 1 .. Len(q) /\ (a < b \/ a = b)
      BY <2>1, <2>4, <1>1, <1>2, <1>4
    <3>2. r[i] = q[a] /\ r[j] = q[b]
      BY <2>4, <1>5
    <3> HIDE DEF a, b
    <3>3. q[a].due <= q[b].due
      BY <3>1, <1>2 DEF Ordered
    <3>4. QED
      BY <3>2, <3>3
  <2>5. QED
    BY <2>2, <2>3, <2>4
<1>8. k \in 1 .. Len(r)
  BY <1>1, <1>4
<1>9. Inserts(q, r, k, e)
  BY <1>2, <1>4, <1>5 DEF Inserts
<1>10. QED
  BY <1>4, <1>7, <1>8, <1>9 DEF e

(* Whose quotes are in flight once an order has been sent.                 *)
LEMMA SubmitFlights ==
  ASSUME NEW q \in Seq(Message), Ordered(q), NEW o \in OrderRecord, NEW d \in Nat,
         NEW r, r = SubmitInbound(q, o, d)
  PROVE  /\ r \in Seq(Message) /\ Ordered(r)
         /\ \A s \in Sides : IF o.who = "quote" /\ o.side = s
                             THEN ~InFlight(q, s) => OneInFlight(r, s)
                             ELSE /\ OneInFlight(q, s) => OneInFlight(r, s)
                                  /\ InFlight(r, s) => InFlight(q, s)
         /\ \A n \in Nat : Prompt(q, n) /\ (o.who = "quote" => d <= n) => Prompt(r, n)
<1>1. r \in Seq(Message) /\ Ordered(r)
  BY SubmitFacts
<1>0. PICK k \in 1 .. Len(r) : Inserts(q, r, k, [order |-> o, due |-> d])
  BY SubmitFacts
<1>2. /\ r[k] = [order |-> o, due |-> d] /\ Len(r) = Len(q) + 1 /\ Len(q) \in Nat
      /\ \A i \in 1 .. Len(r) \ {k} : r[i] = IF i < k THEN q[i] ELSE q[i - 1]
  BY <1>0 DEF Inserts
<1> DEFINE was(i) == IF i < k THEN i ELSE i - 1
<1>3. \A i \in 1 .. Len(r) \ {k} : was(i) \in 1 .. Len(q) /\ r[i] = q[was(i)]
  BY <1>2
<1>4. \A i, j \in 1 .. Len(r) \ {k} : was(i) = was(j) => i = j
  BY <1>2
<1>5. r[k].order = o /\ r[k].due = d
  BY <1>2
<1> HIDE DEF was
<1>6. ASSUME NEW s \in Sides, o.who = "quote" /\ o.side = s, ~InFlight(q, s) PROVE OneInFlight(r, s)
  <2>1. \A i \in 1 .. Len(r) \ {k} : ~IsQuote(r, i, s)
    BY <1>3, <1>6 DEF InFlight, IsQuote
  <2>2. QED
    BY <2>1 DEF OneInFlight
<1>7. ASSUME NEW s \in Sides, ~(o.who = "quote" /\ o.side = s)
      PROVE  /\ OneInFlight(q, s) => OneInFlight(r, s)
             /\ InFlight(r, s) => InFlight(q, s)
  <2>1. ~IsQuote(r, k, s)
    BY <1>5, <1>7 DEF IsQuote
  <2>2. \A i \in 1 .. Len(r) : IsQuote(r, i, s) => i \in 1 .. Len(r) \ {k} /\ IsQuote(q, was(i), s)
    BY <1>3, <2>1 DEF IsQuote
  <2>3. QED
    BY <1>3, <1>4, <2>2 DEF OneInFlight, InFlight
<1>8. ASSUME NEW n \in Nat, Prompt(q, n), o.who = "quote" => d <= n PROVE Prompt(r, n)
  BY <1>3, <1>5, <1>8 DEF Prompt
<1>9. QED
  BY <1>1, <1>6, <1>7, <1>8

LEMMA AgedFlights ==
  ASSUME NEW q \in Seq(Message), Ordered(q)
  PROVE  /\ Aged(q) \in Seq(Message) /\ Ordered(Aged(q))
         /\ \A s \in Sides : (OneInFlight(q, s) => OneInFlight(Aged(q), s)) /\ (InFlight(Aged(q), s) => InFlight(q, s))
         /\ Prompt(q, TimeStep) => Prompt(Aged(q), 0) /\ Prompt(Aged(q), TimeStep)
<1> DEFINE r == Aged(q)
           left(i) == Max({0, q[i].due - TimeStep})
<1>1. Len(q) \in Nat /\ \A i \in 1 .. Len(q) : q[i] \in Message /\ q[i].due \in Nat /\ q[i].order \in OrderRecord
  BY MessageFields
<1>2. TimeStep \in Nat
  BY SimulatorAssumption
<1>3. \A i \in 1 .. Len(q) : left(i) \in Nat /\ left(i) = IF q[i].due - TimeStep > 0 THEN q[i].due - TimeStep ELSE 0
  BY <1>1, <1>2, MaxOfTwo
<1>4. r = [i \in 1 .. Len(q) |-> [q[i] EXCEPT !.due = left(i)]]
  BY DEF Aged
<1> HIDE DEF r, left
<1>5. \A i \in 1 .. Len(q) : /\ [q[i] EXCEPT !.due = left(i)] \in Message
                             /\ [q[i] EXCEPT !.due = left(i)].order = q[i].order
                             /\ [q[i] EXCEPT !.due = left(i)].due = left(i)
  BY <1>1, <1>3 DEF Message
<1>6. /\ r \in Seq(Message) /\ Len(r) = Len(q)
      /\ \A i \in 1 .. Len(q) : r[i].order = q[i].order /\ r[i].due = left(i)
  <2>1. r \in [1 .. Len(q) -> Message]
    BY <1>4, <1>5
  <2>2. r \in Seq(Message) /\ Len(r) = Len(q)
    BY <2>1, <1>1, Tabulated
  <2>3. QED
    BY <2>2, <1>4, <1>5
<1>7. Ordered(r)
  <2>1. SUFFICES ASSUME NEW i \in 1 .. Len(q), NEW j \in 1 .. Len(q), i < j PROVE r[i].due <= r[j].due
    BY <1>6 DEF Ordered
  <2>2. q[i].due <= q[j].due
    BY <2>1 DEF Ordered
  <2>3. QED
    BY <2>2, <1>1, <1>2, <1>3, <1>6
<1>8. \A s \in Sides : (OneInFlight(q, s) => OneInFlight(r, s)) /\ (InFlight(r, s) => InFlight(q, s))
  BY <1>6 DEF OneInFlight, InFlight, IsQuote
<1>9. ASSUME Prompt(q, TimeStep) PROVE Prompt(r, 0) /\ Prompt(r, TimeStep)
  <2>1. \A i \in 1 .. Len(q) : q[i].order.who = "quote" => left(i) = 0
    BY <1>1, <1>2, <1>3, <1>9 DEF Prompt
  <2>2. QED
    BY <2>1, <1>2, <1>6 DEF Prompt
<1>10. QED
  BY <1>6, <1>7, <1>8, <1>9 DEF r

(* What is left when the head is delivered.                                *)
LEMMA TailFlights ==
  ASSUME NEW q \in Seq(Message), q # <<>>, Ordered(q)
  PROVE  /\ Tail(q) \in Seq(Message) /\ Ordered(Tail(q)) /\ q[1] \in Message
         /\ \A s \in Sides : /\ OneInFlight(q, s) => OneInFlight(Tail(q), s)
                             /\ InFlight(Tail(q), s) => InFlight(q, s)
                             /\ IsQuote(q, 1, s) => InFlight(q, s) /\ (OneInFlight(q, s) => ~InFlight(Tail(q), s))
         /\ \A n \in Nat : Prompt(q, n) => Prompt(Tail(q), n)
<1> DEFINE r == Tail(q)
<1>1. /\ r \in Seq(Message) /\ Len(r) = Len(q) - 1 /\ Len(q) \in Nat
      /\ \A i \in 1 .. Len(r) : r[i] = q[i + 1]
  BY HeadTailProperties, LenProperties
<1>2. 1 \in 1 .. Len(q) /\ q[1] \in Message
  BY TailIsRemoveAt, MessageFields
<1> HIDE DEF r
<1>3. \A i \in 1 .. Len(r) : i + 1 \in 1 .. Len(q) /\ i + 1 # 1 /\ r[i] = q[i + 1]
  BY <1>1
<1>4. Ordered(r)
  BY <1>1, <1>3 DEF Ordered
<1>5. ASSUME NEW s \in Sides
      PROVE  /\ OneInFlight(q, s) => OneInFlight(r, s)
             /\ InFlight(r, s) => InFlight(q, s)
             /\ IsQuote(q, 1, s) => InFlight(q, s) /\ (OneInFlight(q, s) => ~InFlight(r, s))
  <2>1. \A i \in 1 .. Len(r) : IsQuote(r, i, s) <=> IsQuote(q, i + 1, s)
    BY <1>3 DEF IsQuote
  <2>2. \A i, j \in 1 .. Len(r) : i + 1 = j + 1 => i = j
    BY <1>1
  <2> HIDE DEF IsQuote
  <2>3. QED
    BY <1>2, <1>3, <2>1, <2>2 DEF OneInFlight, InFlight
<1>6. \A n \in Nat : Prompt(q, n) => Prompt(r, n)
  BY <1>3 DEF Prompt
<1>7. QED
  BY <1>1, <1>2, <1>4, <1>5, <1>6 DEF r

-----------------------------------------------------------------------------
(* No message is under way for longer than a step of the loop: the premise *)
(* of what follows, true of the hops that LatencyGateway has by default.   *)
Swift == \A d \in Delays : d <= TimeStep

(* Steps that leave the book and the queue as they are.                    *)
LEMMA QuietStep ==
  ASSUME QuotesInv, UNCHANGED <<book, inbound>>,
         script' \in Seq({o \in OrderRecord : o.who = "other"}),
         pc' \in {"idle", "events", "noise", "deliver", "quote", "signal", "revert", "post", "check"},
         pc' \in {"events", "noise", "deliver"} => Prompt(inbound, 0),
         pc' = "quote" => \A s \in Sides : ~InFlight(inbound, s)
  PROVE  QuotesInv'
<1>1. TypeOK'
  BY DEF QuotesInv, TypeOK
<1>2. QueueHolds'
  BY DEF QuotesInv, QueueHolds
<1>3. BookHolds'
  BY DEF QuotesInv, BookHolds
<1>4. QED
  BY <1>1, <1>2, <1>3 DEF QuotesInv

(* Steps that send something that is not a quote, or nothing.              *)
LEMMA SendingStep ==
  ASSUME QuotesInv, UNCHANGED <<book, script>>, pc' = pc \/ pc' \notin {"events", "noise", "deliver", "quote"},
         pc' \in {"idle", "events", "noise", "deliver", "quote", "signal", "revert", "post", "check"},
         NEW o \in OrderRecord, o.who = "other", NEW d \in Nat, inbound' = SubmitInbound(inbound, o, d)
  PROVE  QuotesInv'
<1>1. TypeOK /\ Ordered(inbound)
  BY DEF QuotesInv, QueueHolds
<1>2. inbound \in Seq(Message)
  BY <1>1 DEF TypeOK
<1>3. o.who # "quote"
  OBVIOUS
<1>4. /\ inbound' \in Seq(Message) /\ Ordered(inbound')
      /\ \A s \in Sides : /\ OneInFlight(inbound, s) => OneInFlight(inbound', s)
                          /\ InFlight(inbound', s) => InFlight(inbound, s)
      /\ \A n \in Nat : Prompt(inbound, n) => Prompt(inbound', n)
  BY <1>1, <1>2, <1>3, SubmitFlights
<1>5. TimeStep \in Nat /\ 0 \in Nat
  BY SimulatorAssumption
<1>6. TypeOK'
  BY <1>1, <1>4 DEF TypeOK
<1>7. QueueHolds'
  BY <1>4, <1>5 DEF QuotesInv, QueueHolds
<1>8. BookHolds'
  BY <1>4 DEF QuotesInv, BookHolds
<1>9. QED
  BY <1>6, <1>7, <1>8 DEF QuotesInv

LEMMA AdvanceStep == ASSUME QuotesInv, Advance PROVE QuotesInv'
<1>1. inbound' = Aged(inbound) /\ pc' \in {"idle", "events"} /\ UNCHANGED <<script, book>>
  BY DEF Advance
<1>2. TypeOK /\ inbound \in Seq(Message) /\ Ordered(inbound) /\ Prompt(inbound, TimeStep)
  BY DEF QuotesInv, TypeOK, QueueHolds
<1>3. /\ inbound' \in Seq(Message) /\ Ordered(inbound')
      /\ \A s \in Sides : /\ OneInFlight(inbound, s) => OneInFlight(inbound', s)
                          /\ InFlight(inbound', s) => InFlight(inbound, s)
      /\ Prompt(inbound', 0) /\ Prompt(inbound', TimeStep)
  BY <1>1, <1>2, AgedFlights
<1>4. TypeOK'
  BY <1>1, <1>2, <1>3 DEF TypeOK
<1>5. QueueHolds'
  BY <1>1, <1>3 DEF QuotesInv, QueueHolds
<1>6. BookHolds'
  BY <1>1, <1>3 DEF QuotesInv, BookHolds
<1>7. QED
  BY <1>4, <1>5, <1>6 DEF QuotesInv

LEMMA HandleEventStep == ASSUME QuotesInv, HandleEvent PROVE QuotesInv'
<1> DEFINE Others == {o \in OrderRecord : o.who = "other"}
<1>1. pc = "events" /\ UNCHANGED <<inbound, book, pc>>
  BY DEF HandleEvent
<1>2. CrashLots \in Nat /\ NewsDepth \in Nat
  BY SimulatorAssumption
<1>3. Lot("other", "SELL", NoPrice) \in Others /\ \A p \in Price : Lot("other", "BUY", p) \in Others
  BY DEF Lot, OrderRecord, Who, Sides
<1> HIDE DEF Others
<1>4. script' \in Seq(Others)
  <2>1. CASE script' = [i \in 1 .. CrashLots |-> Lot("other", "SELL", NoPrice)]
    <3>1. [i \in 1 .. CrashLots |-> Lot("other", "SELL", NoPrice)] \in [1 .. CrashLots -> Others]
      BY <1>3
    <3>2. QED
      BY <2>1, <3>1, <1>2, Tabulated
  <2>2. CASE \E ps \in NewsQuotes : script' = [i \in 1 .. NewsDepth |-> Lot("other", "BUY", ps[i])]
    <3>1. PICK ps \in NewsQuotes : script' = [i \in 1 .. NewsDepth |-> Lot("other", "BUY", ps[i])]
      BY <2>2
    <3>2. \A i \in 1 .. NewsDepth : ps[i] \in Price
      BY DEF NewsQuotes
    <3>3. [i \in 1 .. NewsDepth |-> Lot("other", "BUY", ps[i])] \in [1 .. NewsDepth -> Others]
      BY <1>3, <3>2
    <3>4. QED
      BY <3>1, <3>3, <1>2, Tabulated
  <2>3. CASE script' = script
    BY <2>3 DEF QuotesInv, TypeOK, Others
  <2>4. QED
    BY <2>1, <2>2, <2>3 DEF HandleEvent
<1>5. QED
  BY <1>1, <1>4, QuietStep DEF Others, QuotesInv, QueueHolds, TypeOK

(* Steps that carry out an order or turn it away.                          *)
LEMMA SubmitScriptedStep == ASSUME QuotesInv, SubmitScripted PROVE QuotesInv'
<1> DEFINE Others == {o \in OrderRecord : o.who = "other"}
<1>1. /\ script # <<>> /\ script' = Tail(script) /\ UNCHANGED <<inbound, pc>>
      /\ Execute(Head(script)) \/ UNCHANGED book
  BY DEF SubmitScripted
<1>2. TypeOK /\ script \in Seq(Others)
  BY DEF QuotesInv, TypeOK
<1>3. script' \in Seq(Others) /\ Head(script) \in Others
  BY <1>1, <1>2, HeadTailProperties
<1>4. TypedBook(book) /\ Head(script) \in OrderRecord /\ Head(script).who = "other"
  BY <1>2, <1>3 DEF TypeOK
<1>5. /\ TypedBook(book')
      /\ \A s \in Sides : /\ OneOnBook(book, s) => OneOnBook(book', s)
                          /\ NoneOnBook(book, s) => NoneOnBook(book', s)
  <2>1. CASE Execute(Head(script))
    BY <2>1, <1>4, ExecuteFacts
  <2>2. CASE UNCHANGED book
    BY <2>2, <1>4
  <2>3. QED
    BY <1>1, <2>1, <2>2
<1>6. TypeOK'
  BY <1>1, <1>2, <1>3, <1>5 DEF TypeOK
<1>7. QueueHolds'
  BY <1>1 DEF QuotesInv, QueueHolds
<1>8. BookHolds'
  BY <1>1, <1>5 DEF QuotesInv, BookHolds
<1>9. QED
  BY <1>6, <1>7, <1>8 DEF QuotesInv

LEMMA DeliverStep == ASSUME QuotesInv, Deliver PROVE QuotesInv'
<1> DEFINE o == inbound[1].order
<1>1. /\ inbound # <<>> /\ inbound' = Tail(inbound) /\ UNCHANGED <<script, pc>> /\ pc # "quote"
      /\ Execute(o) \/ UNCHANGED book
  BY DEF Deliver, IsDue, Arrived
<1>2. TypeOK /\ inbound \in Seq(Message) /\ Ordered(inbound) /\ TypedBook(book)
  BY DEF QuotesInv, TypeOK, QueueHolds
<1>3. /\ inbound' \in Seq(Message) /\ Ordered(inbound') /\ inbound[1] \in Message
      /\ \A s \in Sides : /\ OneInFlight(inbound, s) => OneInFlight(inbound', s)
                          /\ InFlight(inbound', s) => InFlight(inbound, s)
                          /\ IsQuote(inbound, 1, s) =>
                               InFlight(inbound, s) /\ (OneInFlight(inbound, s) => ~InFlight(inbound', s))
      /\ \A n \in Nat : Prompt(inbound, n) => Prompt(inbound', n)
  BY <1>1, <1>2, TailFlights
<1>4. o \in OrderRecord /\ o.side \in Sides /\ o.who \in Who
  BY <1>3 DEF Message, OrderRecord
<1>5. TimeStep \in Nat /\ 0 \in Nat
  BY SimulatorAssumption
<1>6. \A s \in Sides : IsQuote(inbound, 1, s) <=> o.who = "quote" /\ o.side = s
  BY DEF IsQuote
<1> HIDE DEF o
<1>7. \A s \in Sides : OneInFlight(inbound, s) /\ OneOnBook(book, s) /\ (InFlight(inbound, s) => NoneOnBook(book, s))
  BY DEF QuotesInv, QueueHolds, BookHolds
<1>8. TypedBook(book') /\ \A s \in Sides : OneOnBook(book', s) /\ (InFlight(inbound', s) => NoneOnBook(book', s))
  <2>1. CASE UNCHANGED book
    BY <2>1, <1>2, <1>3, <1>7
  <2>2. CASE Execute(o)
    <3>1. /\ TypedBook(book')
          /\ \A s \in Sides : s # o.side \/ o.who = "other" =>
               /\ OneOnBook(book, s) => OneOnBook(book', s)
               /\ NoneOnBook(book, s) => NoneOnBook(book', s)
          /\ NoneOnBook(book, o.side) => OneOnBook(book', o.side)
      BY <2>2, <1>2, <1>4, ExecuteFacts
    <3>2. ASSUME NEW s \in Sides, s # o.side \/ o.who = "other"
          PROVE  OneOnBook(book', s) /\ (InFlight(inbound', s) => NoneOnBook(book', s))
      BY <3>1, <3>2, <1>3, <1>7
    <3>3. ASSUME NEW s \in Sides, s = o.side, o.who # "other"
          PROVE  OneOnBook(book', s) /\ (InFlight(inbound', s) => NoneOnBook(book', s))
      <4>1. IsQuote(inbound, 1, s)
        BY <3>3, <1>4, <1>6 DEF Who
      <4>2. NoneOnBook(book, s) /\ ~InFlight(inbound', s)
        BY <4>1, <1>3, <1>7
      <4>3. QED
        BY <4>2, <3>1, <3>3
    <3>4. QED
      BY <3>1, <3>2, <3>3
  <2>3. QED
    BY <1>1, <2>1, <2>2
<1>9. TypeOK'
  BY <1>1, <1>2, <1>3, <1>8 DEF TypeOK
<1>10. QueueHolds'
  BY <1>1, <1>3, <1>5 DEF QuotesInv, QueueHolds
<1>11. BookHolds'
  BY <1>8 DEF BookHolds
<1>12. QED
  BY <1>9, <1>10, <1>11 DEF QuotesInv

(* What is not due when everything due has been delivered is no quote.     *)
LEMMA DeliverOverStep == ASSUME QuotesInv, DeliverOver PROVE QuotesInv'
<1>1. /\ UNCHANGED <<inbound, script, book>> /\ ~IsDue(inbound)
      /\ \/ pc = "deliver" /\ pc' = "quote"
         \/ pc = "post" /\ pc' = "check"
  BY DEF DeliverOver
<1>2. inbound \in Seq(Message) /\ script \in Seq({o \in OrderRecord : o.who = "other"})
  BY DEF QuotesInv, TypeOK
<1>3. ASSUME pc = "deliver", NEW s \in Sides PROVE ~InFlight(inbound, s)
  <2>1. Prompt(inbound, 0) /\ Ordered(inbound)
    BY <1>3 DEF QuotesInv, QueueHolds
  <2>2. Len(inbound) \in Nat /\ \A i \in 1 .. Len(inbound) : inbound[i].due \in Nat
    BY <1>2, MessageFields
  <2>3. SUFFICES ASSUME NEW i \in 1 .. Len(inbound), inbound[i].order.who = "quote" PROVE FALSE
    BY DEF InFlight, IsQuote
  <2>4. inbound # <<>> /\ 1 \in 1 .. Len(inbound)
    BY <2>2, <2>3, <1>2, EmptySeq
  <2>5. Head(inbound) = inbound[1]
    BY <2>4, <1>2, TailIsRemoveAt
  <2>6. inbound[1].due # 0 /\ inbound[i].due = 0
    BY <2>1, <2>2, <2>3, <2>4, <2>5, <1>1 DEF IsDue, Prompt
  <2>7. inbound[1].due <= inbound[i].due
    <3>1. CASE i = 1
      BY <3>1, <2>2
    <3>2. CASE i # 1
      BY <3>2, <2>1, <2>2, <2>4 DEF Ordered
    <3>3. QED
      BY <3>1, <3>2
  <2>8. QED
    BY <2>2, <2>4, <2>6, <2>7
<1>4. QED
  BY <1>1, <1>2, <1>3, QuietStep

-----------------------------------------------------------------------------
(* The market maker withdraws what it has on the book and sends anew.      *)
LEMMA BookWithdrawn ==
  ASSUME TypedBook(book), \A s \in Sides : OneOnBook(book, s)
  PROVE  TypedBook(Withdrawn(book)) /\ \A s \in Sides : NoneOnBook(Withdrawn(book), s)
<1>1. ASSUME NEW s \in Sides, NEW p \in Price
      PROVE  WithdrawnFrom(book[s][p]) \in Seq(Who) /\ ~Holds(WithdrawnFrom(book[s][p]))
  <2>1. book[s][p] \in Seq(Who) /\ Single(book[s][p])
    BY DEF TypedBook, OneOnBook
  <2>2. QED
    BY <2>1, LevelWithdrawn
<1>2. \A s \in Sides : \A p \in Price : Withdrawn(book)[s][p] = WithdrawnFrom(book[s][p])
  BY DEF Withdrawn
<1>3. TypedBook(Withdrawn(book))
  BY <1>1 DEF Withdrawn, TypedBook
<1>4. QED
  BY <1>1, <1>2, <1>3 DEF NoneOnBook

LEMMA NothingForgotten ==
  ASSUME NEW q \in Seq(Message), \A s \in Sides : ~InFlight(q, s)
  PROVE  Forgotten(q) = q
<1>1. Len(q) \in Nat /\ q \in [1 .. Len(q) -> Message]
  BY LenProperties
<1>2. ASSUME NEW i \in 1 .. Len(q) PROVE Fresh(q[i].order.who) = FALSE
  <2>1. q[i].order \in OrderRecord
    BY MessageFields
  <2>2. q[i].order.side \in Sides
    BY <2>1 DEF OrderRecord
  <2>3. QED
    BY <2>2 DEF InFlight, IsQuote, Fresh
<1>3. ASSUME NEW m \in Message PROVE [m EXCEPT !.order.who = m.order.who] = m
  BY DEF Message, OrderRecord
<1>4. Forgotten(q) = [i \in 1 .. Len(q) |-> q[i]]
  <2>1. \A i \in 1 .. Len(q) : [q[i] EXCEPT !.order.who = IF Fresh(q[i].order.who) THEN "orphan" ELSE q[i].order.who] = q[i]
    BY <1>1, <1>2, <1>3
  <2>2. QED
    BY <2>1 DEF Forgotten
<1>5. QED
  BY <1>1, <1>4

LEMMA QuotesFlights ==
  ASSUME Swift, NEW q \in Seq(Message), Ordered(q), Prompt(q, TimeStep), \A s \in Sides : OneInFlight(q, s),
         NEW side \in Sides, ~InFlight(q, side), NEW price, NEW r \in Quotes(q, side, price)
  PROVE  /\ r \in Seq(Message) /\ Ordered(r) /\ Prompt(r, TimeStep)
         /\ \A s \in Sides : OneInFlight(r, s) /\ (s # side /\ InFlight(r, s) => InFlight(q, s))
<1>1. CASE r = q
  BY <1>1
<1>2. CASE r # q
  <2> DEFINE o == Lot("quote", side, price)
  <2>1. price \in Price /\ \E d \in Delays : r = SubmitInbound(q, o, d)
    BY <1>2 DEF Quotes, Sendings
  <2>2. PICK d \in Delays : r = SubmitInbound(q, o, d)
    BY <2>1
  <2>3. o \in OrderRecord /\ o.who = "quote" /\ o.side = side
    BY <2>1 DEF Lot, OrderRecord, Who
  <2>4. d \in Nat /\ d <= TimeStep /\ TimeStep \in Nat
    BY DelaysAreNat, SimulatorAssumption DEF Swift
  <2> HIDE DEF o
  <2>5. /\ r \in Seq(Message) /\ Ordered(r)
        /\ \A s \in Sides : IF o.who = "quote" /\ o.side = s
                            THEN ~InFlight(q, s) => OneInFlight(r, s)
                            ELSE /\ OneInFlight(q, s) => OneInFlight(r, s)
                                 /\ InFlight(r, s) => InFlight(q, s)
        /\ \A n \in Nat : Prompt(q, n) /\ (o.who = "quote" => d <= n) => Prompt(r, n)
    BY <2>2, <2>3, <2>4, SubmitFlights
  <2>6. QED
    BY <2>3, <2>4, <2>5
<1>3. QED
  BY <1>1, <1>2

LEMMA QuoteStep == ASSUME Swift, QuotesInv, Quote PROVE QuotesInv'
<1>1. pc = "quote" /\ pc' = "signal" /\ UNCHANGED script
  BY DEF Quote
<1>2. /\ TypeOK /\ inbound \in Seq(Message) /\ Ordered(inbound) /\ Prompt(inbound, TimeStep) /\ TypedBook(book)
      /\ \A s \in Sides : OneInFlight(inbound, s) /\ ~InFlight(inbound, s) /\ OneOnBook(book, s)
  BY <1>1 DEF QuotesInv, TypeOK, QueueHolds, BookHolds
<1>3. CASE ~ShowsMid
  <2>1. UNCHANGED <<book, inbound>>
    BY <1>3 DEF Quote
  <2>2. QED
    BY <2>1, <1>1, <1>2, QuietStep DEF TypeOK
<1>4. CASE ShowsMid
  <2>1. book' = Withdrawn(book)
    BY <1>4 DEF Quote
  <2>2. TypedBook(book') /\ \A s \in Sides : NoneOnBook(book', s)
    BY <2>1, <1>2, BookWithdrawn
  <2>3. PICK bid, ask, withBid :
           /\ withBid \in Quotes(Forgotten(inbound), "BUY", bid)
           /\ inbound' \in IF ask > bid THEN Quotes(withBid, "SELL", ask) ELSE {withBid}
    BY <1>4 DEF Quote
  <2>4. withBid \in Quotes(inbound, "BUY", bid)
    BY <2>3, <1>2, NothingForgotten
  <2>5. "BUY" \in Sides /\ "SELL" \in Sides /\ "BUY" # "SELL"
    BY DEF Sides
  <2>6. /\ withBid \in Seq(Message) /\ Ordered(withBid) /\ Prompt(withBid, TimeStep)
        /\ \A s \in Sides : OneInFlight(withBid, s)
        /\ ~InFlight(withBid, "SELL")
    BY <2>4, <2>5, <1>2, QuotesFlights
  <2>7. /\ inbound' \in Seq(Message) /\ Ordered(inbound') /\ Prompt(inbound', TimeStep)
        /\ \A s \in Sides : OneInFlight(inbound', s)
    <3>1. CASE inbound' = withBid
      BY <3>1, <2>6
    <3>2. CASE inbound' \in Quotes(withBid, "SELL", ask)
      BY <3>2, <2>5, <2>6, QuotesFlights
    <3>3. QED
      BY <3>1, <3>2, <2>3
  <2>8. TypeOK'
    BY <1>1, <1>2, <2>2, <2>7 DEF TypeOK
  <2>9. QueueHolds'
    BY <1>1, <2>7 DEF QueueHolds
  <2>10. BookHolds'
    BY <2>2 DEF BookHolds, NoneOnBook, OneOnBook, Holds, Single
  <2>11. QED
    BY <2>8, <2>9, <2>10 DEF QuotesInv
<1>5. QED
  BY <1>3, <1>4

LEMMA SignalStep == ASSUME QuotesInv, Signal \/ Revert PROVE QuotesInv'
<1>1. pc' \in {"revert", "post"} /\ UNCHANGED <<script, book>>
  BY DEF Signal, Revert
<1>2. CASE UNCHANGED inbound
  BY <1>1, <1>2, QuietStep DEF QuotesInv, TypeOK
<1>3. CASE ~UNCHANGED inbound
  <2>1. PICK side \in Sides : inbound' \in Sendings(inbound, Lot("other", side, NoPrice))
    BY <1>3 DEF Signal, Revert
  <2>2. PICK d \in Delays : inbound' = SubmitInbound(inbound, Lot("other", side, NoPrice), d)
    BY <2>1, <1>3 DEF Sendings
  <2>3. /\ Lot("other", side, NoPrice) \in OrderRecord /\ Lot("other", side, NoPrice).who = "other" /\ d \in Nat
    BY DelaysAreNat DEF Lot, OrderRecord, Who
  <2>4. QED
    BY <2>2, <2>3, <1>1, SendingStep
<1>4. QED
  BY <1>2, <1>3

LEMMA GenerateNoiseStep ==
  ASSUME QuotesInv, NEW o \in NoiseLots, NEW d \in Delays, GenerateNoise(o, d)
  PROVE  QuotesInv'
<1>1. UNCHANGED <<script, book, pc>> /\ inbound' = SubmitInbound(inbound, o, d)
  BY DEF GenerateNoise
<1>2. o \in OrderRecord /\ o.who = "other"
  BY DEF NoiseLots, Lot, OrderRecord, Who, Sides
<1>3. d \in Nat
  BY DelaysAreNat
<1>4. pc \in {"idle", "events", "noise", "deliver", "quote", "signal", "revert", "post", "check"}
  BY DEF QuotesInv, TypeOK
<1>5. QED
  BY <1>1, <1>2, <1>3, <1>4, SendingStep

LEMMA QuotesInit == Init => QuotesInv
<1> SUFFICES ASSUME Init PROVE QuotesInv
  OBVIOUS
<1>1. /\ inbound = <<>> /\ script = <<>> /\ book = SeedBook /\ pc = "idle"
  BY DEF Init
<1>2. \A s \in Sides : \A p \in Price : book[s][p] = <<"other">> \/ book[s][p] = <<>>
  BY <1>1 DEF SeedBook
<1>3. <<"other">> \in Seq(Who) /\ <<>> \in Seq(Who)
  BY DEF Who
<1>4. TypedBook(book)
  <2>1. \A s \in Sides : \A p \in Price :
          (IF IF s = "BUY" THEN p \in Base - Depth .. Base - 1 ELSE p \in Base + 1 .. Base + Depth
           THEN <<"other">> ELSE <<>>) \in Seq(Who)
    BY <1>3
  <2>2. QED
    BY <2>1, <1>1 DEF SeedBook, TypedBook
<1>5. inbound \in Seq(Message) /\ script \in Seq({o \in OrderRecord : o.who = "other"}) /\ Len(inbound) = 0
  BY <1>1
<1>6. TypeOK
  BY <1>1, <1>4, <1>5 DEF TypeOK
<1>7. QueueHolds
  BY <1>1, <1>5 DEF QueueHolds, Ordered, Prompt, OneInFlight
<1>8. \A s \in Sides : NoneOnBook(book, s)
  <2>1. ~Holds(<<"other">>) /\ ~Holds(<<>>)
    BY DEF Holds
  <2>2. QED
    BY <1>2, <2>1 DEF NoneOnBook
<1>9. BookHolds
  BY <1>8 DEF BookHolds, NoneOnBook, OneOnBook, Holds, Single
<1>10. QED
  BY <1>6, <1>7, <1>9 DEF QuotesInv

LEMMA QuotesStep == ASSUME Swift, QuotesInv, [Next]_vars PROVE QuotesInv'
<1>1. CASE UNCHANGED vars
  BY <1>1 DEF vars, QuotesInv, TypeOK, QueueHolds, BookHolds
<1>2. CASE EventsOver \/ NoiseOver \/ CheckBreaker \/ (\E ev : ScheduleEvent(ev))
  BY <1>2, QuietStep DEF EventsOver, NoiseOver, CheckBreaker, ScheduleEvent, QuotesInv, TypeOK, QueueHolds
<1>3. CASE Step
  BY <1>2, <1>3, AdvanceStep, HandleEventStep, SubmitScriptedStep, DeliverStep, DeliverOverStep, QuoteStep,
     SignalStep DEF Step
<1>4. CASE InjectFlashCrash \/ InjectNewsShock \/ \E s \in Sessions : ScheduleSession(s)
  BY <1>2, <1>4 DEF InjectFlashCrash, InjectNewsShock, ScheduleSession
<1>5. CASE \E o \in NoiseLots, d \in Delays : GenerateNoise(o, d)
  BY <1>5, GenerateNoiseStep
<1>6. QED
  BY <1>1, <1>3, <1>4, <1>5 DEF Next

LEMMA InvQuotes == QuotesInv => OneQuotePerSide
<1>1. SUFFICES ASSUME QuotesInv, NEW side \in Sides, NEW p \in Price, NEW r \in Price,
                      NEW i \in DOMAIN book[side][p], NEW j \in DOMAIN book[side][r],
                      IsOurs(side, p, i), IsOurs(side, r, j)
               PROVE  p = r /\ i = j
  BY DEF OneQuotePerSide
<1>2. book[side][p] \in Seq(Who) /\ book[side][r] \in Seq(Who) /\ OneOnBook(book, side)
  BY <1>1 DEF QuotesInv, TypeOK, TypedBook, BookHolds
<1>3. DOMAIN book[side][p] = 1 .. Len(book[side][p]) /\ DOMAIN book[side][r] = 1 .. Len(book[side][r])
  BY <1>2, LenProperties
<1>4. Holds(book[side][p]) /\ Holds(book[side][r])
  BY <1>1, <1>3 DEF Holds, IsOurs
<1>5. p = r
  BY <1>2, <1>4 DEF OneOnBook
<1>6. i = j
  BY <1>1, <1>2, <1>3, <1>5 DEF OneOnBook, Single, IsOurs
<1>7. QED
  BY <1>5, <1>6

(* As long as the way in takes no longer than a step of the loop, the      *)
(* market maker never has two quotes on one side of the book, whatever is  *)
(* lost, however long the market is halted with quotes in flight, and      *)
(* wherever its prices go (on_market_data, submit_inbound, step).          *)
THEOREM QuotesDoNotPileUp ==
  ASSUME Swift
  PROVE  Spec => []OneQuotePerSide
<1>1. Init => QuotesInv
  BY QuotesInit
<1>2. QuotesInv /\ [Next]_vars => QuotesInv'
  BY QuotesStep
<1>3. QuotesInv => OneQuotePerSide
  BY InvQuotes
<1>4. QED
  BY <1>1, <1>2, <1>3, PTL DEF Spec

=============================================================================
