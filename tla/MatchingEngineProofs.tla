------------------------ MODULE MatchingEngineProofs ------------------------
(***************************************************************************)
(* Proofs about the matching engine, for every set of owners, prices,      *)
(* tickets and amendments, any reuse of order ids and any bounds, icebergs *)
(* whose queue goes wrong included: everything keeps its type and no order *)
(* is overfilled; and an order is in one place at a time.                  *)
(***************************************************************************)
EXTENDS EngineProperties, CommonLemmas

-----------------------------------------------------------------------------
(* Order objects, made anew or taken from the pool.                        *)

OrderField ==
  {"oid", "side", "type", "tif", "stp", "owner", "price", "stop_price", "quantity",
   "filled", "display", "hidden", "slice", "timestamp", "status"}

IsOrderRecord(o) == o = [x \in OrderField |-> o[x]]

LEMMA OrderIsOrder == ASSUME NEW o \in Order PROVE IsOrderRecord(o)
  BY DEF Order, IsOrderRecord, OrderField

LEMMA EqualFields ==
  ASSUME NEW o, NEW p, IsOrderRecord(o), IsOrderRecord(p), \A x \in OrderField : o[x] = p[x]
  PROVE  o = p
  BY DEF IsOrderRecord

LEMMA ReleasedIsOrder ==
  ASSUME NEW o, IsOrderRecord(o)
  PROVE  IsOrderRecord(Released(o))
  BY DEF IsOrderRecord, Released

LEMMA AcquiredIsOrder ==
  ASSUME NEW o, IsOrderRecord(o), NEW tk, NEW oid, NEW now
  PROVE  IsOrderRecord(Acquired(o, tk, oid, now))
  BY DEF IsOrderRecord, Acquired

LEMMA NewOrderIsOrder ==
  ASSUME NEW tk, NEW oid, NEW now
  PROVE  IsOrderRecord(NewOrder(tk, oid, now))
  BY DEF IsOrderRecord, NewOrder, OrderField

(* The tranche a ticket asks for, and what an acquired order keeps behind. *)
Asked(tk) == IF tk.display > 0 THEN tk.display ELSE tk.quantity

Behind(tk) ==
  CASE tk.type = "HIDDEN" -> tk.quantity
    [] tk.type = "ICEBERG" -> Clip(tk.quantity - Asked(tk))
    [] OTHER -> 0

LEMMA AcquiredFields ==
  ASSUME NEW o, IsOrderRecord(o), NEW tk, NEW oid, NEW now, NEW p, p = Acquired(o, tk, oid, now)
  PROVE  /\ p.oid = oid /\ p.side = tk.side /\ p.type = tk.type /\ p.tif = tk.tif /\ p.stp = tk.stp
         /\ p.owner = tk.owner /\ p.price = tk.price /\ p.stop_price = tk.stop_price
         /\ p.quantity = tk.quantity /\ p.filled = 0 /\ p.timestamp = now /\ p.status = "NEW"
         /\ p.slice = (IF tk.type = "HIDDEN" THEN 0 ELSE Asked(tk))
         /\ p.display = (IF tk.type = "HIDDEN" THEN 0 ELSE Asked(tk))
         /\ p.hidden = Behind(tk)
  BY DEF IsOrderRecord, Acquired, OrderField, Asked, Behind

(* OrderPool hands out no trace of an order's former life: whatever was    *)
(* released, acquire gives the object the constructor would have made, but *)
(* for an iceberg that asks to show more than it has, whose tranche only   *)
(* __post_init__ cuts to the quantity (pools.py acquire and release,       *)
(* models.py __post_init__).                                               *)
THEOREM PooledOrdersAreNew ==
  ASSUME NEW stale \in Order, NEW tk \in Ticket, NEW oid \in OrderId, NEW now \in Nat
  PROVE  Acquired(Released(stale), tk, oid, now) = NewOrder(tk, oid, now)
           <=> (tk.type = "ICEBERG" => tk.display <= tk.quantity)
<1> DEFINE pooled == Acquired(Released(stale), tk, oid, now)
           made == NewOrder(tk, oid, now)
<1>1. IsOrderRecord(pooled) /\ IsOrderRecord(made)
  BY OrderIsOrder, ReleasedIsOrder, AcquiredIsOrder, NewOrderIsOrder
<1>2. /\ pooled.oid = oid /\ pooled.side = tk.side /\ pooled.type = tk.type /\ pooled.tif = tk.tif
      /\ pooled.stp = tk.stp /\ pooled.owner = tk.owner /\ pooled.price = tk.price
      /\ pooled.stop_price = tk.stop_price /\ pooled.quantity = tk.quantity /\ pooled.filled = 0
      /\ pooled.timestamp = now /\ pooled.status = "NEW"
      /\ pooled.slice = (IF tk.type = "HIDDEN" THEN 0 ELSE Asked(tk))
      /\ pooled.display = (IF tk.type = "HIDDEN" THEN 0 ELSE Asked(tk))
      /\ pooled.hidden = Behind(tk)
  BY OrderIsOrder, ReleasedIsOrder, AcquiredFields
<1>3. /\ made.oid = oid /\ made.side = tk.side /\ made.type = tk.type /\ made.tif = tk.tif
      /\ made.stp = tk.stp /\ made.owner = tk.owner /\ made.price = tk.price
      /\ made.stop_price = tk.stop_price /\ made.quantity = tk.quantity /\ made.filled = 0
      /\ made.timestamp = now /\ made.status = "NEW" /\ made.slice = FirstTranche(tk)
      /\ made.display = FirstTranche(tk) /\ made.hidden = FirstHidden(tk)
  BY DEF NewOrder
<1>4. tk.quantity \in Nat /\ tk.display \in Nat
  BY DEF Ticket
<1>5. (tk.type = "ICEBERG" => tk.display <= tk.quantity) =>
        /\ FirstTranche(tk) = (IF tk.type = "HIDDEN" THEN 0 ELSE Asked(tk))
        /\ FirstHidden(tk) = Behind(tk)
  <2>1. CASE tk.type = "HIDDEN"
    BY <2>1, <1>4 DEF FirstTranche, FirstHidden, Behind
  <2>2. CASE tk.type = "ICEBERG"
    BY <2>2, <1>4 DEF FirstTranche, FirstHidden, Behind, Asked, Least, Clip
  <2>3. CASE tk.type \notin {"HIDDEN", "ICEBERG"}
    BY <2>3, <1>4 DEF FirstTranche, FirstHidden, Behind, Asked
  <2> QED BY <2>1, <2>2, <2>3
<1>6. ASSUME tk.type = "ICEBERG", tk.display > tk.quantity
      PROVE  FirstTranche(tk) # Asked(tk)
  BY <1>4, <1>6 DEF FirstTranche, Asked, Least
<1> HIDE DEF pooled, made
<1>7. ASSUME tk.type = "ICEBERG" => tk.display <= tk.quantity
      PROVE  pooled = made
  <2>1. \A x \in OrderField : pooled[x] = made[x]
    BY <1>2, <1>3, <1>5, <1>7 DEF OrderField
  <2> QED BY <2>1, <1>1, EqualFields
<1>8. ASSUME pooled = made, tk.type = "ICEBERG"
      PROVE  tk.display <= tk.quantity
  <2>1. FirstTranche(tk) = Asked(tk)
    BY <1>2, <1>3, <1>8
  <2> QED BY <2>1, <1>4, <1>6, <1>8
<1>9. pooled = made <=> (tk.type = "ICEBERG" => tk.display <= tk.quantity)
  BY <1>7, <1>8
<1> QED BY <1>9 DEF pooled, made

-----------------------------------------------------------------------------
(* Prices and ticks.                                                       *)

LEMMA TicksOfType == ASSUME NEW p \in Price PROVE TicksOf(p) \in Tick
  <1>1. \E t \in Tick : IsNearest(t, p)
    BY GridAssumption
  <1>2. QED
    BY <1>1 DEF TicksOf

LEMMA BestType ==
  ASSUME NEW b \in Book, NEW s \in Side, HasSide(b, s)
  PROVE  Best(b, s) \in b.live[s] /\ Best(b, s) \in Tick
  <1>1. b.live[s] \in (SUBSET Tick) \ {{}}
    BY DEF Book, HasSide
  <1>2. \E t \in b.live[s] : \A x \in b.live[s] : x <= t
    BY <1>1, GridAssumption
  <1>3. \E t \in b.live[s] : \A x \in b.live[s] : t <= x
    BY <1>1, GridAssumption
  <1>4. \E t \in b.live[s] : \A x \in b.live[s] : IF s = "BUY" THEN x <= t ELSE t <= x
    BY <1>2, <1>3
  <1>5. Best(b, s) \in b.live[s]
    BY <1>4 DEF Best
  <1>6. QED
    BY <1>1, <1>5

LEMMA OppositeSide == ASSUME NEW s \in Side PROVE Opposite(s) \in Side /\ Opposite(s) # s
  BY DEF Side, Opposite

-----------------------------------------------------------------------------
(* The queue of a level: what each operation keeps of who is in it.        *)

LEMMA UnlinkType ==
  ASSUME NEW S, NEW q \in Seq(S), NEW u, \E i \in 1 .. Len(q) : q[i] = u
  PROVE  Unlink(q, u) \in Seq(S)
  <1> DEFINE i == PositionOf(q, u)
  <1>1. i \in 1 .. Len(q)
    BY DEF PositionOf
  <1>2. SubSeq(q, 1, i - 1) \in Seq(S)
    <2>1. \A j \in 1 .. i - 1 : q[j] \in S
      BY <1>1, LenProperties, ElementOfSeq
    <2>2. i - 1 \in Int
      BY <1>1, LenProperties
    <2> HIDE DEF i
    <2>3. QED
      BY <2>1, <2>2, SubSeqProperties
  <1>3. SubSeq(q, i + 1, Len(q)) \in Seq(S)
    <2>1. \A j \in i + 1 .. Len(q) : q[j] \in S
      BY <1>1, LenProperties, ElementOfSeq
    <2>2. i + 1 \in Int /\ Len(q) \in Int
      BY <1>1, LenProperties
    <2> HIDE DEF i
    <2>3. QED
      BY <2>1, <2>2, SubSeqProperties
  <1> HIDE DEF i
  <1>4. SubSeq(q, 1, i - 1) \o SubSeq(q, i + 1, Len(q)) \in Seq(S)
    BY <1>2, <1>3, ConcatProperties
  <1>5. QED
    BY <1>4 DEF Unlink, i

LEMMA ClipType == ASSUME NEW x \in Int PROVE Clip(x) \in Nat /\ x <= Clip(x)
  BY DEF Clip

LEMMA LeastType ==
  ASSUME NEW x \in Nat, NEW y \in Nat
  PROVE  Least(x, y) \in Nat /\ Least(x, y) <= x /\ Least(x, y) <= y
  BY DEF Least

(* lv is a level on which only members of S stand.                         *)
Holds(lv, S) == lv \in Level /\ lv.queue \in Seq(S)

LEMMA NewLevelHolds == ASSUME NEW S PROVE Holds(NewLevel, S)
  BY EmptySeq DEF Holds, NewLevel, Level

LEMMA LevelAppendHolds ==
  ASSUME NEW S, NEW lv, Holds(lv, S), NEW o \in Order, NEW u \in Uid, u \in S
  PROVE  Holds(LevelAppend(lv, o, u), S)
  <1>1. Append(lv.queue, u) \in Seq(S) /\ Append(lv.queue, u) \in Seq(Uid)
    BY AppendProperties DEF Holds, Level
  <1>2. lv.total + o.display \in Nat /\ lv.hidden + o.hidden \in Nat
    BY DEF Holds, Level, Order
  <1>3. QED
    BY <1>1, <1>2 DEF Holds, Level, LevelAppend

LEMMA LevelRemoveHolds ==
  ASSUME NEW S, NEW lv, Holds(lv, S), NEW o \in Order, NEW u
  PROVE  Holds(LevelRemove(lv, o, u), S)
  <1>1. CASE IsQueued(lv, u)
    <2>1. Unlink(lv.queue, u) \in Seq(S) /\ Unlink(lv.queue, u) \in Seq(Uid)
      BY <1>1, UnlinkType DEF IsQueued, Holds, Level
    <2>2. Clip(lv.total - o.display) \in Nat /\ Clip(lv.hidden - o.hidden) \in Nat
      BY DEF Clip, Holds, Level, Order
    <2>3. QED
      BY <1>1, <2>1, <2>2 DEF LevelRemove, Holds, Level
  <1>2. CASE ~IsQueued(lv, u)
    BY <1>2 DEF LevelRemove
  <1>3. QED
    BY <1>1, <1>2

LEMMA PopHeadHolds ==
  ASSUME NEW S, NEW lv, Holds(lv, S), lv.queue # << >>, NEW ord \in [Uid -> Order]
  PROVE  Holds(PopHead(lv, ord), S)
  <1> DEFINE o == ord[Head(lv.queue)]
  <1>1. Tail(lv.queue) \in Seq(S) /\ Tail(lv.queue) \in Seq(Uid) /\ Head(lv.queue) \in Uid
    BY HeadTailProperties DEF Holds, Level
  <1>2. o \in Order
    BY <1>1
  <1> HIDE DEF o
  <1>3. o.display \in Nat /\ o.hidden \in Nat
    BY <1>2 DEF Order
  <1>4. Clip(lv.total - o.display) \in Nat /\ Clip(lv.hidden - o.hidden) \in Nat
    BY <1>3 DEF Clip, Holds, Level
  <1>5. PopHead(lv, ord) = [queue |-> Tail(lv.queue),
                            total |-> Clip(lv.total - o.display),
                            hidden |-> Clip(lv.hidden - o.hidden)]
    BY DEF PopHead, o
  <1>6. QED
    BY <1>1, <1>4, <1>5 DEF Holds, Level

(* Other volumes, the same order.                                          *)
SameOrder(o, p) == o.side = p.side /\ o.quantity = p.quantity /\ o.filled = p.filled

LEMMA ResizedType ==
  ASSUME NEW o \in Order, NEW d \in Nat, NEW h \in Nat
  PROVE  /\ [o EXCEPT !.display = d] \in Order
         /\ [o EXCEPT !.hidden = h] \in Order
         /\ [o EXCEPT !.display = d, !.hidden = h] \in Order
         /\ SameOrder([o EXCEPT !.display = d], o)
         /\ SameOrder([o EXCEPT !.hidden = h], o)
         /\ SameOrder([o EXCEPT !.display = d, !.hidden = h], o)
  BY DEF Order, SameOrder

LEMMA ResizedLevel ==
  ASSUME NEW S, NEW lv, Holds(lv, S), NEW t \in Nat, NEW h \in Nat
  PROVE  /\ Holds([lv EXCEPT !.total = t], S)
         /\ Holds([lv EXCEPT !.hidden = h], S)
         /\ Holds([lv EXCEPT !.total = t, !.hidden = h], S)
         /\ [lv EXCEPT !.total = t].queue = lv.queue
         /\ [lv EXCEPT !.hidden = h].queue = lv.queue
         /\ [lv EXCEPT !.total = t, !.hidden = h].queue = lv.queue
  BY DEF Holds, Level

(* A fill leaves everything of the order alone but its two tranches, and   *)
(* never empties the queue.                                                *)
LEMMA FillHolds ==
  ASSUME NEW S, NEW lv, Holds(lv, S), NEW o \in Order, NEW u, IsQueued(lv, u),
         NEW n \in Nat
  PROVE  /\ Holds(UpdateVolumeAfterFill(lv, o, u, n).level, S)
         /\ UpdateVolumeAfterFill(lv, o, u, n).level.queue # << >>
         /\ UpdateVolumeAfterFill(lv, o, u, n).order \in Order
         /\ SameOrder(UpdateVolumeAfterFill(lv, o, u, n).order, o)
  <1>0. lv.queue # << >> /\ u \in S /\ u \in Uid
    BY ElementOfSeq, LenProperties, EmptySeq DEF IsQueued, Holds, Level
  <1>1. CASE o.type = "ICEBERG"
    <2> DEFINE shown == Least(o.display, n)
               left == o.display - shown
               fresh == Replenishment(o)
    <2>1. shown \in Nat /\ left \in Nat
      BY DEF Order, Least
    <2>2. fresh \in Nat /\ o.hidden - fresh \in Nat
      BY DEF Order, Least, Replenishment
    <2>3. CASE left = 0 /\ o.hidden > 0
      <3> DEFINE q == Append(Unlink(lv.queue, u), u)
                 t == Clip(lv.total - shown) + fresh
                 h == Clip(lv.hidden - fresh)
      <3>1. Unlink(lv.queue, u) \in Seq(S) /\ Unlink(lv.queue, u) \in Seq(Uid)
        BY UnlinkType DEF IsQueued, Holds, Level
      <3>2. q \in Seq(S) /\ q \in Seq(Uid) /\ q # << >>
        BY <1>0, <3>1, AppendProperties
      <3>3. t \in Nat /\ h \in Nat
        BY <2>1, <2>2 DEF Clip, Holds, Level
      <3>4. UpdateVolumeAfterFill(lv, o, u, n) =
              [order |-> [o EXCEPT !.display = fresh, !.hidden = o.hidden - fresh],
               level |-> [queue |-> q, total |-> t, hidden |-> h]]
        BY <1>1, <2>3 DEF UpdateVolumeAfterFill, FillIceberg
      <3> HIDE DEF fresh, q, t, h
      <3>5. Holds([queue |-> q, total |-> t, hidden |-> h], S)
        BY <3>2, <3>3 DEF Holds, Level
      <3>6. /\ [o EXCEPT !.display = fresh, !.hidden = o.hidden - fresh] \in Order
            /\ SameOrder([o EXCEPT !.display = fresh, !.hidden = o.hidden - fresh], o)
        BY <2>2, ResizedType
      <3>7. QED
        BY <3>2, <3>4, <3>5, <3>6
    <2>4. CASE ~(left = 0 /\ o.hidden > 0)
      <3> DEFINE p == [o EXCEPT !.display = left]
                 l == [lv EXCEPT !.total = Clip(lv.total - shown)]
      <3>1. Clip(lv.total - shown) \in Nat
        BY <2>1 DEF Clip, Holds, Level
      <3>2. UpdateVolumeAfterFill(lv, o, u, n) = [order |-> p, level |-> l]
        BY <1>1, <2>4 DEF UpdateVolumeAfterFill, FillIceberg
      <3> HIDE DEF shown, left
      <3>3. Holds(l, S) /\ l.queue # << >>
        BY <1>0, <3>1, ResizedLevel
      <3>4. p \in Order /\ SameOrder(p, o)
        BY <2>1, ResizedType
      <3> HIDE DEF p, l
      <3>5. QED
        BY <3>2, <3>3, <3>4
    <2>5. QED
      BY <2>3, <2>4
  <1>2. CASE o.type = "HIDDEN"
    <2> DEFINE p == [o EXCEPT !.hidden = Clip(o.hidden - n)]
               l == [lv EXCEPT !.hidden = Clip(lv.hidden - n)]
    <2>1. Clip(o.hidden - n) \in Nat /\ Clip(lv.hidden - n) \in Nat
      BY DEF Clip, Order, Holds, Level
    <2>2. UpdateVolumeAfterFill(lv, o, u, n) = [order |-> p, level |-> l]
      BY <1>2 DEF UpdateVolumeAfterFill, FillHidden
    <2>3. Holds(l, S) /\ l.queue # << >>
      BY <1>0, <2>1, ResizedLevel
    <2>4. p \in Order /\ SameOrder(p, o)
      BY <2>1, ResizedType
    <2> HIDE DEF p, l
    <2>5. QED
      BY <2>2, <2>3, <2>4
  <1>3. CASE o.type \notin {"ICEBERG", "HIDDEN"}
    <2> DEFINE p == [o EXCEPT !.display = Clip(o.display - n)]
               l == [lv EXCEPT !.total = Clip(lv.total - n)]
    <2>1. Clip(o.display - n) \in Nat /\ Clip(lv.total - n) \in Nat
      BY DEF Clip, Order, Holds, Level
    <2>2. UpdateVolumeAfterFill(lv, o, u, n) = [order |-> p, level |-> l]
      BY <1>3 DEF UpdateVolumeAfterFill, FillVisible
    <2>3. Holds(l, S) /\ l.queue # << >>
      BY <1>0, <2>1, ResizedLevel
    <2>4. p \in Order /\ SameOrder(p, o)
      BY <2>1, ResizedType
    <2> HIDE DEF p, l
    <2>5. QED
      BY <2>2, <2>3, <2>4
  <1>4. QED
    BY <1>1, <1>2, <1>3

-----------------------------------------------------------------------------
(* The book: what its operations keep of BookOK.                           *)

(* A book whose level at one place is replaced by another good level.      *)
LEMMA BookMade ==
  ASSUME NEW ord, NEW n \in 0 .. MaxOrders, NEW b, BookOK(b, ord, n),
         NEW s \in Side, NEW t \in Tick, NEW lv, Holds(lv, KnownOrders(ord, n, s)),
         NEW live \in [Side -> SUBSET Tick], NEW map \in [OrderId -> 0 .. n]
  PROVE  BookOK([live |-> live, level |-> [b.level EXCEPT ![s][t] = lv], map |-> map], ord, n)
  <1> DEFINE level == [b.level EXCEPT ![s][t] = lv]
  <1>1. b.level \in [Side -> [Tick -> Level]]
    BY DEF BookOK, Book
  <1>2. level \in [Side -> [Tick -> Level]]
    BY <1>1 DEF Holds
  <1>3. map \in [OrderId -> Uid \cup {None}]
    BY BoundAssumption DEF Uid, None
  <1>4. \A x \in Side, y \in Tick : level[x][y].queue \in Seq(KnownOrders(ord, n, x))
    BY <1>1 DEF BookOK, Holds
  <1>5. \A i \in OrderId : map[i] \in 0 .. n
    OBVIOUS
  <1> HIDE DEF level
  <1>6. QED
    BY <1>2, <1>3, <1>4, <1>5 DEF BookOK, Book, level

LEMMA EmptyBookOK == ASSUME NEW ord, NEW n \in Nat PROVE BookOK(EmptyBook, ord, n)
  <1>1. NewLevel \in Level /\ \A s : NewLevel.queue \in Seq(KnownOrders(ord, n, s))
    BY NewLevelHolds DEF Holds
  <1>2. EmptyBook \in Book
    BY <1>1 DEF EmptyBook, Book
  <1>3. QED
    BY <1>1, <1>2 DEF BookOK, EmptyBook, None

LEMMA LevelsHold ==
  ASSUME NEW ord, NEW n, NEW b, BookOK(b, ord, n), NEW s \in Side, NEW t \in Tick
  PROVE  Holds(b.level[s][t], KnownOrders(ord, n, s))
  BY DEF BookOK, Book, Holds

LEMMA BookParts ==
  ASSUME NEW ord, NEW n, NEW b, BookOK(b, ord, n)
  PROVE  /\ b.live \in [Side -> SUBSET Tick]
         /\ b.map \in [OrderId -> 0 .. n]
         /\ b.level \in [Side -> [Tick -> Level]]
         /\ b = [live |-> b.live, level |-> b.level, map |-> b.map]
  BY DEF BookOK, Book

LEMMA StoreLevelOK ==
  ASSUME NEW ord, NEW n \in 0 .. MaxOrders, NEW b, BookOK(b, ord, n),
         NEW s \in Side, NEW t \in Tick, NEW lv, Holds(lv, KnownOrders(ord, n, s))
  PROVE  BookOK(StoreLevel(b, s, t, lv), ord, n)
  <1>1. CASE IsEmpty(lv)
    <2> DEFINE live == [b.live EXCEPT ![s] = @ \ {t}]
    <2>1. live \in [Side -> SUBSET Tick]
      BY BookParts
    <2>2. StoreLevel(b, s, t, lv) =
            [live |-> live, level |-> [b.level EXCEPT ![s][t] = NewLevel], map |-> b.map]
      BY <1>1, BookParts DEF StoreLevel, BookOK, Book
    <2> HIDE DEF live
    <2>3. Holds(NewLevel, KnownOrders(ord, n, s))
      BY NewLevelHolds
    <2>4. b.map \in [OrderId -> 0 .. n]
      BY BookParts
    <2>5. QED
      BY <2>1, <2>2, <2>3, <2>4, BookMade
  <1>2. CASE ~IsEmpty(lv)
    <2>1. StoreLevel(b, s, t, lv) =
            [live |-> b.live, level |-> [b.level EXCEPT ![s][t] = lv], map |-> b.map]
      BY <1>2, BookParts DEF StoreLevel, BookOK, Book
    <2>2. QED
      BY <2>1, BookMade, BookParts
  <1>3. QED
    BY <1>1, <1>2

LEMMA UnmappedOK ==
  ASSUME NEW ord, NEW n \in 0 .. MaxOrders, NEW b, BookOK(b, ord, n),
         NEW i \in OrderId, NEW x \in 0 .. n
  PROVE  BookOK([b EXCEPT !.map[i] = x], ord, n)
  <1>0. b \in Book
    BY DEF BookOK
  <1>1. [b EXCEPT !.map[i] = x] = [live |-> b.live, level |-> b.level, map |-> [b.map EXCEPT ![i] = x]]
    BY <1>0 DEF Book
  <1>2. [b.map EXCEPT ![i] = x] \in [OrderId -> 0 .. n]
    BY BookParts
  <1>3. [b.map EXCEPT ![i] = x] \in [OrderId -> Uid \cup {None}]
    BY <1>2, BoundAssumption DEF Uid, None
  <1>4. QED
    BY <1>1, <1>2, <1>3 DEF BookOK, Book

LEMMA RemoveOrderOK ==
  ASSUME NEW ord \in [Uid -> Order], NEW n \in 0 .. MaxOrders, NEW b, BookOK(b, ord, n),
         NEW u \in Uid
  PROVE  BookOK(RemoveOrder(b, ord, u), ord, n)
  <1> DEFINE o == ord[u]
             t == TicksOf(o.price)
             unmapped == [b EXCEPT !.map[o.oid] = None]
  <1>1. BookOK(unmapped, ord, n)
    <2>1. o.oid \in OrderId
      BY DEF Order
    <2>2. QED
      BY <2>1, UnmappedOK DEF None
  <1>2. o \in Order /\ o.side \in Side
    BY DEF Order
  <1>3. CASE o.price # NoPrice /\ t \in b.live[o.side]
    <2>1. t \in Tick
      BY <1>2, <1>3, BookParts
    <2>2. Holds(LevelRemove(b.level[o.side][t], o, u), KnownOrders(ord, n, o.side))
      BY <1>2, <2>1, LevelsHold, LevelRemoveHolds
    <2>3. RemoveOrder(b, ord, u) =
            StoreLevel(unmapped, o.side, t, LevelRemove(b.level[o.side][t], o, u))
      BY <1>3 DEF RemoveOrder
    <2> HIDE DEF o, t, unmapped
    <2>4. QED
      BY <1>1, <1>2, <2>1, <2>2, <2>3, StoreLevelOK
  <1>4. CASE ~(o.price # NoPrice /\ t \in b.live[o.side])
    BY <1>1, <1>4 DEF RemoveOrder
  <1>5. QED
    BY <1>3, <1>4

LEMMA InsertOrderOK ==
  ASSUME NEW ord \in [Uid -> Order], NEW n \in 0 .. MaxOrders, NEW b, BookOK(b, ord, n),
         NEW u \in 1 .. n
  PROVE  BookOK(InsertOrder(b, ord, u), ord, n)
  <1> DEFINE o == ord[u]
             t == TicksOf(o.price)
  <1>1. u \in Uid /\ u \in 0 .. n
    BY BoundAssumption DEF Uid
  <1>2. o \in Order /\ o.side \in Side /\ o.price \in Price \cup {NoPrice}
    BY <1>1 DEF Order
  <1>3. u \in KnownOrders(ord, n, o.side)
    BY DEF KnownOrders
  <1>4. CASE o.price = NoPrice
    BY <1>4 DEF InsertOrder
  <1>5. CASE o.price # NoPrice
    <2> DEFINE live == [b.live EXCEPT ![o.side] = @ \cup {t}]
               lv == LevelAppend(b.level[o.side][t], o, u)
               map == [b.map EXCEPT ![o.oid] = u]
    <2>1. t \in Tick
      BY <1>2, <1>5, TicksOfType
    <2>2. Holds(lv, KnownOrders(ord, n, o.side))
      BY <1>1, <1>2, <1>3, <2>1, LevelsHold, LevelAppendHolds
    <2>3. live \in [Side -> SUBSET Tick] /\ map \in [OrderId -> 0 .. n]
      <3>1. b.live \in [Side -> SUBSET Tick] /\ b.map \in [OrderId -> 0 .. n]
        BY BookParts
      <3> HIDE DEF t, o
      <3>2. QED
        BY <1>1, <1>2, <2>1, <3>1
    <2>4. [b.level EXCEPT ![o.side][t] = LevelAppend(@, o, u)] = [b.level EXCEPT ![o.side][t] = lv]
      BY <1>2, <2>1, BookParts
    <2>5. InsertOrder(b, ord, u) =
            [live |-> live, level |-> [b.level EXCEPT ![o.side][t] = lv], map |-> map]
      BY <1>5, <2>4 DEF InsertOrder
    <2> HIDE DEF o, t, live, lv, map
    <2>6. QED
      BY <1>2, <2>1, <2>2, <2>3, <2>5, BookMade
  <1>6. QED
    BY <1>4, <1>5

(* Orders that keep their sides, and more orders, leave a good book good.  *)
LEMMA BookGrows ==
  ASSUME NEW ord, NEW new, NEW n \in 0 .. MaxOrders, NEW m \in n .. MaxOrders, NEW b,
         BookOK(b, ord, n), \A u \in 1 .. n : new[u].side = ord[u].side
  PROVE  BookOK(b, new, m)
  <1>1. \A s : KnownOrders(ord, n, s) \subseteq KnownOrders(new, m, s)
    BY BoundAssumption DEF KnownOrders
  <1>2. ASSUME NEW s, NEW q \in Seq(KnownOrders(ord, n, s)) PROVE q \in Seq(KnownOrders(new, m, s))
    BY <1>1, <1>2, ElementOfSeq, LenProperties, SeqDef
  <1>3. \A i \in OrderId : b.map[i] \in 0 .. m
    BY DEF BookOK
  <1>4. QED
    BY <1>2, <1>3 DEF BookOK

-----------------------------------------------------------------------------
(* The orders and the queue of pending orders.                             *)

LEMMA StatusChanged ==
  ASSUME NEW ord, OrdersOK(ord), NEW u \in Uid, NEW st \in OrderStatus
  PROVE  /\ OrdersOK(Marked(ord, u, st))
         /\ \A v \in Uid : Marked(ord, u, st)[v].side = ord[v].side
  <1> DEFINE o == [ord[u] EXCEPT !.status = st]
  <1>1. o \in Order /\ o.filled <= o.quantity /\ o.side = ord[u].side
    BY DEF OrdersOK, Order
  <1>2. Marked(ord, u, st) = [ord EXCEPT ![u] = o]
    BY DEF OrdersOK, Marked
  <1> HIDE DEF o
  <1>3. QED
    BY <1>1, <1>2 DEF OrdersOK

(* Orders that keep their sides leave a good book good.                    *)
LEMMA BookStays ==
  ASSUME NEW ord, NEW new, NEW n \in 0 .. MaxOrders, NEW b, BookOK(b, ord, n),
         \A u \in Uid : new[u].side = ord[u].side
  PROVE  BookOK(b, new, n)
  <1>1. n \in n .. MaxOrders /\ \A u \in 1 .. n : u \in Uid
    BY BoundAssumption DEF Uid
  <1>2. QED
    BY <1>1, BookGrows

LEMMA PendingGrows ==
  ASSUME NEW n \in Nat, NEW m \in Nat, n <= m, NEW q \in Seq(1 .. n), NEW u \in 1 .. m
  PROVE  Append(q, u) \in Seq(1 .. m)
  <1>1. q \in Seq(1 .. m)
    <2>1. 1 .. n \subseteq 1 .. m
      OBVIOUS
    <2>2. QED
      BY <2>1, SeqMonotonic
  <1>2. QED
    BY <1>1, AppendProperties

LEMMA TakingKnown ==
  ASSUME EngineInv, NEW u, Taking(u)
  PROVE  u \in 1 .. next_id /\ u \in Uid /\ Tail(pending) \in Seq(1 .. next_id)
  <1>1. u \in 1 .. next_id /\ Tail(pending) \in Seq(1 .. next_id)
    BY HeadTailProperties DEF EngineInv, Taking
  <1>2. QED
    BY <1>1, BoundAssumption DEF EngineInv, Uid

-----------------------------------------------------------------------------
(* The invariant holds in the initial states.                              *)

LEMMA InitInv == ASSUME Init PROVE EngineInv
  <1>1. Blank \in Order /\ Blank.filled <= Blank.quantity
    BY PartyAssumption DEF Blank, Order, Side, OrderType, TimeInForce, STPMode, OrderStatus
  <1>2. OrdersOK(order)
    <2> HIDE DEF Blank
    <2>1. QED
      BY <1>1 DEF OrdersOK, Init
  <1>3. BookOK(book, order, next_id)
    BY EmptyBookOK DEF Init
  <1>4. StopsOK(stops, next_id)
    BY DEF StopsOK, Stops, NoStops, None, Init
  <1>5. sweep \in Sweep
    BY PartyAssumption DEF Init, NoSweep, Sweep
  <1>6. pending \in Seq(1 .. next_id) /\ trades \in Seq(Trade)
    BY EmptySeq DEF Init
  <1>7. next_id \in 0 .. MaxOrders /\ clock \in 0 .. MaxClock /\ cur \in 0 .. next_id
    BY BoundAssumption, InputAssumption DEF Init, None
  <1>8. QED
    BY <1>2, <1>3, <1>4, <1>5, <1>6, <1>7 DEF Init, EngineInv

-----------------------------------------------------------------------------
(* Every step keeps the invariant: calls from outside.                     *)

LEMMA NewOrderType ==
  ASSUME NEW tk \in Ticket, NEW oid \in OrderId, NEW now \in Nat
  PROVE  NewOrder(tk, oid, now) \in Order /\ NewOrder(tk, oid, now).filled = 0
  <1>1. tk.quantity \in Nat /\ tk.display \in Nat
    BY DEF Ticket
  <1>2. /\ FirstTranche(tk) \in Nat
        /\ tk.type \in {"HIDDEN", "ICEBERG"} => FirstTranche(tk) <= tk.quantity
    BY <1>1 DEF FirstTranche, Least
  <1>3. FirstHidden(tk) \in Nat
    BY <1>1, <1>2 DEF FirstHidden
  <1>4. QED
    BY <1>2, <1>3 DEF NewOrder, Order, Ticket, OrderStatus

LEMMA SubmitInv == ASSUME EngineInv, NEW tk \in Tickets, Submit(tk) PROVE EngineInv'
  <1> DEFINE u == next_id + 1
             o == NewOrder(tk, IdOf[next_id + 1], clock + 1)
  <1>1. u \in Uid /\ next_id \in 0 .. MaxOrders /\ u \in next_id .. MaxOrders /\ next_id' = u
    BY BoundAssumption DEF EngineInv, Submit, Uid
  <1>2. clock + 1 \in Nat /\ clock' \in 0 .. MaxClock
    BY InputAssumption DEF EngineInv, Submit, ClockTicks
  <1>3. o \in Order /\ o.filled = 0
    BY <1>1, <1>2, InputAssumption, NewOrderType
  <1>4. order' = [order EXCEPT ![u] = o]
    BY DEF Submit
  <1> HIDE DEF u, o
  <1>5. OrdersOK(order')
    <2>1. o.filled <= o.quantity
      BY <1>3 DEF Order
    <2>2. QED
      BY <1>1, <1>3, <1>4, <2>1 DEF OrdersOK, EngineInv
  <1>6. \A v \in 1 .. next_id : order'[v].side = order[v].side
    <2>1. \A v \in 1 .. next_id : v # u /\ v \in Uid
      BY <1>1, BoundAssumption DEF u, Uid
    <2>2. QED
      BY <1>4, <2>1 DEF EngineInv, OrdersOK
  <1>7. BookOK(book', order', next_id')
    <2>1. book' = book /\ BookOK(book, order, next_id)
      BY DEF EngineInv, Submit
    <2>2. BookOK(book, order', u)
      BY <1>1, <1>6, <2>1, BookGrows
    <2>3. QED
      BY <1>1, <2>1, <2>2
  <1>8. StopsOK(stops', next_id')
    BY <1>1 DEF EngineInv, StopsOK, Submit, u
  <1>9. pending' \in Seq(1 .. next_id')
    <2>1. pending' = Append(pending, u) /\ pending \in Seq(1 .. next_id)
      BY DEF Submit, EngineInv, u
    <2>2. next_id \in Nat /\ u \in Nat /\ next_id <= u /\ u \in 1 .. u
      BY <1>1 DEF u
    <2>3. QED
      BY <1>1, <2>1, <2>2, PendingGrows
  <1>10. cur' \in 0 .. next_id'
    BY <1>1 DEF EngineInv, Submit, u
  <1>11. QED
    BY <1>1, <1>2, <1>5, <1>7, <1>8, <1>9, <1>10, BoundAssumption DEF EngineInv, Submit, Uid

LEMMA CancelEffectKeeps ==
  ASSUME EngineInv, NEW oid \in OrderId, CancelEffect(oid)
  PROVE  OrdersOK(order') /\ BookOK(book', order', next_id) /\ StopsOK(stops', next_id)
  <1>0. "CANCELED" \in OrderStatus
    BY DEF OrderStatus
  <1>1. CASE CancelResting(oid)
    <2> DEFINE u == book.map[oid]
    <2>1. u \in Uid
      BY <1>1, BoundAssumption DEF EngineInv, BookOK, CancelResting, None, Uid
    <2>2. order' = Marked(order, u, "CANCELED") /\ book' = RemoveOrder(book, order, u)
      BY <1>1 DEF CancelResting
    <2>3. stops' = stops /\ OrdersOK(order) /\ order \in [Uid -> Order]
      BY <1>1 DEF CancelResting, EngineInv, OrdersOK
    <2> HIDE DEF u
    <2>4. OrdersOK(order') /\ \A v \in Uid : order'[v].side = order[v].side
      BY <1>0, <2>1, <2>2, <2>3, StatusChanged
    <2>5. BookOK(book', order, next_id)
      BY <2>1, <2>2, <2>3, RemoveOrderOK DEF EngineInv
    <2>6. QED
      BY <2>3, <2>4, <2>5, BookStays DEF EngineInv
  <1>2. CASE CancelStop(oid)
    <2> DEFINE u == stops.map[oid]
    <2>1. u \in Uid
      BY <1>2, BoundAssumption DEF EngineInv, StopsOK, CancelStop, None, Uid
    <2>2. order' = Marked(order, u, "CANCELED") /\ book' = book
      BY <1>2 DEF CancelStop
    <2>3. StopsOK(stops', next_id)
      <3>1. stops' = [stops EXCEPT !.map[oid] = None] /\ StopsOK(stops, next_id)
        BY <1>2 DEF CancelStop, ForgetStop, EngineInv
      <3>2. stops \in Stops /\ 0 \in 0 .. next_id
        BY <3>1 DEF StopsOK, EngineInv
      <3>3. stops' = [heap |-> stops.heap, map |-> [stops.map EXCEPT ![oid] = None]]
        BY <3>1, <3>2 DEF Stops
      <3>4. stops' \in Stops
        BY <3>2, <3>3 DEF Stops
      <3>5. QED
        BY <3>1, <3>2, <3>3, <3>4 DEF StopsOK, Stops, None
    <2> HIDE DEF u
    <2>4. OrdersOK(order') /\ \A v \in Uid : order'[v].side = order[v].side
      BY <1>0, <2>1, <2>2, StatusChanged DEF EngineInv
    <2>5. QED
      BY <2>2, <2>3, <2>4, BookStays DEF EngineInv
  <1>3. CASE CancelUnknown(oid)
    BY <1>3 DEF CancelUnknown, EngineInv
  <1>4. QED
    BY <1>1, <1>2, <1>3 DEF CancelEffect

LEMMA CancelInv == ASSUME EngineInv, NEW oid \in OrderId, Cancel(oid) PROVE EngineInv'
  BY CancelEffectKeeps DEF EngineInv, Cancel

LEMMA SweepInv ==
  ASSUME EngineInv,
         \/ \E w \in Owner : CancelAll(w)
         \/ \E oid \in OrderId : SweepOne(oid)
         \/ SweepStops
         \/ SweepDone
  PROVE  EngineInv'
  <1>1. ASSUME NEW w \in Owner, CancelAll(w) PROVE EngineInv'
    <2>1. sweep' \in Sweep
      BY <1>1 DEF CancelAll, Sweep, IdsOf
    <2>2. QED
      BY <1>1, <2>1 DEF EngineInv, CancelAll
  <1>2. ASSUME NEW oid \in OrderId, SweepOne(oid) PROVE EngineInv'
    <2>1. sweep' \in Sweep
      BY <1>2 DEF EngineInv, SweepOne, Sweep
    <2>2. QED
      BY <1>2, <2>1, CancelEffectKeeps DEF EngineInv, SweepOne
  <1>3. CASE SweepStops
    <2>1. sweep' \in Sweep
      BY <1>3 DEF EngineInv, SweepStops, Sweep, IdsOf
    <2>2. QED
      BY <1>3, <2>1 DEF EngineInv, SweepStops
  <1>4. CASE SweepDone
    <2>1. sweep' \in Sweep
      BY <1>4, PartyAssumption DEF SweepDone, NoSweep, Sweep
    <2>2. QED
      BY <1>4, <2>1 DEF EngineInv, SweepDone
  <1>5. QED
    BY <1>1, <1>2, <1>3, <1>4

-----------------------------------------------------------------------------
(* Every step keeps the invariant: process_order around the matching.      *)

LEMMA TakeInv ==
  ASSUME EngineInv, NEW u,
         \/ RejectInvalid(u) \/ RejectStop(u) \/ RejectUnfillable(u) \/ RejectTaker(u)
         \/ ParkStop(u) \/ StartMatch(u)
  PROVE  EngineInv'
  <1>1. Taking(u)
    BY DEF RejectInvalid, RejectStop, RejectUnfillable, RejectTaker, ParkStop, StartMatch
  <1>2. u \in 1 .. next_id /\ u \in Uid /\ Tail(pending) \in Seq(1 .. next_id)
    BY <1>1, TakingKnown
  <1>3. ASSUME Reject(u) PROVE EngineInv'
    <2>1. "REJECTED" \in OrderStatus
      BY DEF OrderStatus
    <2>2. OrdersOK(order') /\ \A v \in Uid : order'[v].side = order[v].side
      BY <1>2, <1>3, <2>1, StatusChanged DEF EngineInv, Reject
    <2>3. BookOK(book', order', next_id)
      BY <1>3, <2>2, BookStays DEF EngineInv, Reject
    <2>4. QED
      BY <1>2, <1>3, <2>2, <2>3 DEF EngineInv, Reject
  <1>4. CASE ParkStop(u)
    <2>1. order[u].side \in Side /\ order[u].oid \in OrderId
      BY <1>2 DEF EngineInv, OrdersOK, Order
    <2>2. /\ stops' = [heap |-> [stops.heap EXCEPT ![order[u].side] = @ \cup {u}],
                       map |-> [stops.map EXCEPT ![order[u].oid] = u]]
          /\ StopsOK(stops, next_id) /\ stops \in Stops
      BY <1>4 DEF ParkStop, AddStop, EngineInv, StopsOK
    <2>3. stops.heap \in [Side -> SUBSET Uid] /\ stops.map \in [OrderId -> Uid \cup {None}]
      BY <2>2 DEF Stops
    <2>4. stops' \in Stops
      BY <1>2, <2>2, <2>3 DEF Stops
    <2>5. StopsOK(stops', next_id)
      BY <1>2, <2>2, <2>3, <2>4 DEF StopsOK, EngineInv
    <2>6. QED
      BY <1>2, <1>4, <2>5 DEF EngineInv, ParkStop
  <1>5. CASE StartMatch(u)
    <2>1. traded' \in BOOLEAN
      BY <1>5, Zenon DEF StartMatch
    <2>2. /\ pc' = "match" /\ cur' = u /\ pending' = Tail(pending)
          /\ UNCHANGED <<order, next_id, clock, book, stops, last, trades, sweep>>
      BY <1>5, Zenon DEF StartMatch
    <2>3. QED
      BY <1>2, <2>1, <2>2 DEF EngineInv, None
  <1>6. QED
    BY <1>3, <1>4, <1>5 DEF RejectInvalid, RejectStop, RejectUnfillable, RejectTaker

LEMMA StepsAsideInv ==
  ASSUME EngineInv, Drained \/ MatchDone \/ NoProgress \/ TriggersDone PROVE EngineInv'
  <1>1. CASE Drained
    <2>1. traded' \in BOOLEAN
      BY <1>1, Zenon DEF Drained
    <2>2. /\ pc' = "idle" /\ cur' = None
          /\ UNCHANGED <<order, next_id, clock, book, stops, pending, last, trades, sweep>>
      BY <1>1, Zenon DEF Drained
    <2>3. QED
      BY <2>1, <2>2 DEF EngineInv, None
  <1>2. CASE MatchDone
    BY <1>2 DEF EngineInv, MatchDone
  <1>3. CASE NoProgress
    BY <1>3 DEF EngineInv, NoProgress, vars
  <1>4. CASE TriggersDone
    BY <1>4 DEF EngineInv, TriggersDone
  <1>5. QED
    BY <1>1, <1>2, <1>3, <1>4

LEMMA CurKnown ==
  ASSUME EngineInv, pc \in {"match", "residual", "trigger"}
  PROVE  cur \in 1 .. next_id /\ cur \in Uid /\ order[cur] \in Order
  <1>1. cur \in 1 .. next_id
    BY DEF EngineInv, None
  <1>2. cur \in Uid
    BY <1>1, BoundAssumption DEF EngineInv, Uid
  <1>3. QED
    BY <1>1, <1>2 DEF EngineInv, OrdersOK

LEMMA ResidualInv == ASSUME EngineInv, Complete \/ Expire \/ Rest PROVE EngineInv'
  <1>0. /\ cur \in 1 .. next_id /\ cur \in Uid /\ order[cur] \in Order
        /\ AfterResidual \in {"trigger", "loop"}
        /\ OrdersOK(order) /\ order \in [Uid -> Order] /\ BookOK(book, order, next_id)
        /\ next_id \in 0 .. MaxOrders
    BY CurKnown DEF Complete, Expire, Rest, AfterResidual, EngineInv, OrdersOK
  <1>1. ASSUME NEW st \in OrderStatus, order' = Marked(order, cur, st)
        PROVE  OrdersOK(order') /\ \A v \in Uid : order'[v].side = order[v].side
    BY <1>0, <1>1, StatusChanged
  <1>2. CASE Complete
    <2>1. OrdersOK(order') /\ \A v \in Uid : order'[v].side = order[v].side
      BY <1>1, <1>2 DEF Complete, OrderStatus
    <2>2. BookOK(book', order', next_id)
      BY <1>0, <1>2, <2>1, BookStays DEF Complete
    <2>3. QED
      BY <1>0, <1>2, <2>1, <2>2 DEF EngineInv, Complete
  <1>3. CASE Expire
    <2>1. OrdersOK(order') /\ \A v \in Uid : order'[v].side = order[v].side
      BY <1>1, <1>3 DEF Expire, OrderStatus
    <2>2. BookOK(book', order', next_id)
      BY <1>0, <1>3, <2>1, BookStays DEF Expire
    <2>3. QED
      BY <1>0, <1>3, <2>1, <2>2 DEF EngineInv, Expire
  <1>4. CASE Rest
    <2>1. OrdersOK(order') /\ \A v \in Uid : order'[v].side = order[v].side
      <3>1. order[cur].status \in OrderStatus /\ "PARTIALLY_FILLED" \in OrderStatus
        BY <1>0 DEF Order, OrderStatus
      <3>2. QED
        BY <1>1, <1>4, <3>1 DEF Rest
    <2>2. BookOK(book', order, next_id)
      BY <1>0, <1>4, InsertOrderOK DEF Rest
    <2>3. BookOK(book', order', next_id)
      BY <1>0, <2>1, <2>2, BookStays
    <2>4. QED
      BY <1>0, <1>4, <2>1, <2>3 DEF EngineInv, Rest
  <1>5. QED
    BY <1>2, <1>3, <1>4

LEMMA PopStopOK ==
  ASSUME NEW n, NEW st, StopsOK(st, n), n \in Nat, NEW o \in Order, NEW u
  PROVE  StopsOK(PopStop(st, o, u), n)
  <1>1. st.heap \in [Side -> SUBSET Uid] /\ st.map \in [OrderId -> Uid \cup {None}]
    BY DEF StopsOK, Stops
  <1>2. PopStop(st, o, u) \in Stops
    BY <1>1 DEF PopStop, Stops
  <1>3. QED
    BY <1>1, <1>2 DEF PopStop, StopsOK, None

LEMMA TriggerInv ==
  ASSUME EngineInv, NEW u \in Uid, SkipCanceled(u) \/ Trigger(u) PROVE EngineInv'
  <1>1. order[u] \in Order /\ next_id \in Nat /\ StopsOK(stops, next_id) /\ OrdersOK(order)
    BY DEF EngineInv, OrdersOK
  <1>2. stops' = PopStop(stops, order[u], u)
    BY DEF SkipCanceled, Trigger
  <1>3. StopsOK(stops', next_id)
    BY <1>1, <1>2, PopStopOK
  <1>4. CASE SkipCanceled(u)
    BY <1>3, <1>4 DEF EngineInv, SkipCanceled
  <1>5. CASE Trigger(u)
    <2> DEFINE o == Triggered(order[u], order[cur].timestamp)
    <2>1. order[cur].timestamp \in Nat
      BY <1>5, CurKnown DEF Trigger, NextDue, Order
    <2>2. o \in Order /\ o.filled <= o.quantity /\ o.side = order[u].side
      BY <1>1, <2>1 DEF Triggered, Order, OrderStatus, OrderType, OrdersOK
    <2>3. order' = [order EXCEPT ![u] = o]
      BY <1>1, <1>5 DEF Trigger, OrdersOK
    <2> HIDE DEF o
    <2>4. OrdersOK(order') /\ \A v \in Uid : order'[v].side = order[v].side
      BY <1>1, <2>2, <2>3 DEF OrdersOK
    <2>5. BookOK(book', order', next_id)
      BY <1>5, <2>4, BookStays DEF EngineInv, Trigger
    <2>6. u \in 1 .. next_id
      BY <1>1, <1>5 DEF Trigger, NextDue, IsHeapTop, StopsOK, Order
    <2>7. pending' \in Seq(1 .. next_id)
      BY <1>5, <2>6, AppendProperties DEF EngineInv, Trigger
    <2>8. QED
      BY <1>3, <1>5, <2>4, <2>5, <2>7 DEF EngineInv, Trigger
  <1>6. QED
    BY <1>4, <1>5

-----------------------------------------------------------------------------
(* Every step keeps the invariant: the matching loop.                      *)

(* The level cur is matched against; its head is an order of that side,    *)
(* hence not cur.                                                          *)
LEMMA TopKnown ==
  ASSUME EngineInv, pc = "match", HasSide(book, Contra)
  PROVE  /\ Contra \in Side /\ Contra # order[cur].side /\ Top \in Tick
         /\ TopLevel \in Level /\ Holds(TopLevel, KnownOrders(order, next_id, Contra))
  <1>1. order[cur].side \in Side
    BY CurKnown DEF Order
  <1>2. Contra \in Side /\ Contra # order[cur].side
    BY <1>1, OppositeSide DEF Contra
  <1>3. book \in Book /\ BookOK(book, order, next_id)
    BY DEF EngineInv, BookOK
  <1>4. Top \in Tick
    BY <1>2, <1>3, BestType DEF Top
  <1>5. Holds(TopLevel, KnownOrders(order, next_id, Contra))
    BY <1>2, <1>3, <1>4, LevelsHold DEF TopLevel
  <1>6. QED
    BY <1>2, <1>4, <1>5 DEF Holds

LEMMA MakerKnown ==
  ASSUME EngineInv, Matching, TopLevel.queue # << >>
  PROVE  /\ Maker \in 1 .. next_id /\ Maker \in Uid /\ Maker # cur
         /\ order[Maker] \in Order /\ order[Maker].side = Contra
         /\ IsQueued(TopLevel, Maker)
  <1>1. /\ Contra # order[cur].side
        /\ TopLevel.queue \in Seq(KnownOrders(order, next_id, Contra))
    BY TopKnown DEF Matching, Crosses, Holds
  <1>2. Maker \in KnownOrders(order, next_id, Contra)
    BY <1>1, HeadTailProperties DEF Maker
  <1>3. Len(TopLevel.queue) \in Nat /\ 1 \in 1 .. Len(TopLevel.queue) /\ TopLevel.queue[1] = Maker
    BY <1>1, LenProperties, EmptySeq DEF Maker
  <1>4. IsQueued(TopLevel, Maker)
    BY <1>3 DEF IsQueued
  <1>5. Maker \in Uid
    BY <1>2, BoundAssumption DEF EngineInv, KnownOrders, Uid
  <1>6. QED
    BY <1>1, <1>2, <1>4, <1>5 DEF KnownOrders, EngineInv, OrdersOK

LEMMA RemainingFits ==
  ASSUME NEW o \in Order, o.filled <= o.quantity
  PROVE  Remaining(o) \in Nat /\ o.filled + Remaining(o) = o.quantity
  <1>1. o.quantity \in Nat /\ o.filled \in Nat
    BY DEF Order
  <1>2. QED
    BY <1>1 DEF Remaining, Clip

(* Charging n lots to an order that has as many left.                      *)
LEMMA ChargedType ==
  ASSUME NEW o \in Order, NEW n \in Nat, o.filled + n <= o.quantity,
         NEW c, c = [o EXCEPT !.filled = @ + n]
  PROVE  c \in Order /\ c.side = o.side /\ c.filled <= c.quantity
  BY DEF Order

LEMMA OverlapFits ==
  ASSUME EngineInv, Matching, TopLevel.queue # << >>
  PROVE  /\ Overlap \in Nat
         /\ order[cur].filled + Overlap <= order[cur].quantity
         /\ order[Maker].filled + Overlap <= order[Maker].quantity
  <1>1. order[cur] \in Order /\ order[cur].filled <= order[cur].quantity
    BY CurKnown DEF Matching, EngineInv, OrdersOK
  <1>2. order[Maker] \in Order /\ order[Maker].filled <= order[Maker].quantity
    BY MakerKnown DEF EngineInv, OrdersOK
  <1>3. /\ Remaining(order[cur]) \in Nat
        /\ order[cur].filled + Remaining(order[cur]) = order[cur].quantity
        /\ Remaining(order[Maker]) \in Nat
        /\ order[Maker].filled + Remaining(order[Maker]) = order[Maker].quantity
    BY <1>1, <1>2, RemainingFits
  <1>4. /\ order[cur].filled \in Nat /\ order[Maker].filled \in Nat
        /\ order[cur].quantity \in Nat /\ order[Maker].quantity \in Nat
    BY <1>1, <1>2 DEF Order
  <1>5. QED
    BY <1>3, <1>4 DEF Overlap, Least

(* Charging a maker and the taker: o is the maker's record after the fill. *)
LEMMA ConsumeKeeps ==
  ASSUME EngineInv, Matching, TopLevel.queue # << >>, NEW o \in Order,
         o.side = order[Maker].side, o.filled <= o.quantity,
         NEW final \in OrderStatus, Consume(o, Overlap, final)
  PROVE  OrdersOK(order') /\ BookOK(book', order', next_id)
  <1> DEFINE m == Maker
             n == Overlap
             fill == UpdateVolumeAfterFill(TopLevel, o, m, n)
             gone == Remaining(o) = 0
             maker == IF gone THEN [fill.order EXCEPT !.status = final] ELSE fill.order
             taker == [order[cur] EXCEPT !.filled = @ + n]
             after == [order EXCEPT ![m] = maker, ![cur].filled = @ + n]
             lv == IF gone THEN PopHead(fill.level, after) ELSE fill.level
             map == IF gone THEN [book.map EXCEPT ![o.oid] = None] ELSE book.map
  <1>1. order' = after
    BY DEF Consume
  <1>2. book' = [live |-> book.live, level |-> [book.level EXCEPT ![Contra][Top] = lv], map |-> map]
    BY DEF Consume
  <1>3. /\ cur \in Uid /\ order[cur] \in Order /\ m \in Uid /\ m # cur /\ n \in Nat
        /\ order \in [Uid -> Order] /\ OrdersOK(order) /\ o.oid \in OrderId
        /\ order[cur].filled + n <= order[cur].quantity
    BY CurKnown, MakerKnown, OverlapFits DEF Matching, EngineInv, OrdersOK, Order
  <1>4. /\ Holds(TopLevel, KnownOrders(order, next_id, Contra)) /\ Contra \in Side /\ Top \in Tick
        /\ IsQueued(TopLevel, m)
    BY TopKnown, MakerKnown DEF Matching, Crosses
  <1> HIDE DEF m, n
  <1>5. /\ Holds(fill.level, KnownOrders(order, next_id, Contra))
        /\ fill.level.queue # << >>
        /\ fill.order \in Order /\ SameOrder(fill.order, o)
    BY <1>3, <1>4, FillHolds
  <1> HIDE DEF fill, gone
  <1>6. maker \in Order /\ SameOrder(maker, o)
    BY <1>5 DEF Order, SameOrder
  <1>7. taker \in Order /\ taker.filled <= taker.quantity /\ taker.side = order[cur].side
    <2> DEFINE p == order[cur]
    <2>1. p \in Order /\ p.filled + n <= p.quantity /\ taker = [p EXCEPT !.filled = @ + n]
      BY <1>3
    <2> HIDE DEF p
    <2>2. taker \in Order /\ taker.filled <= taker.quantity /\ taker.side = p.side
      BY <1>3, <2>1, ChargedType
    <2>3. QED
      BY <2>2 DEF p
  <1>8. after = [v \in Uid |-> IF v = cur THEN taker ELSE IF v = m THEN maker ELSE order[v]]
    BY <1>3
  <1> HIDE DEF maker, taker, after
  <1>9. OrdersOK(after)
    BY <1>3, <1>6, <1>7, <1>8 DEF OrdersOK, SameOrder
  <1>10. \A v \in Uid : after[v].side = order[v].side
    BY <1>3, <1>6, <1>7, <1>8 DEF SameOrder, m
  <1>11. Holds(lv, KnownOrders(order, next_id, Contra))
    <2>1. after \in [Uid -> Order]
      BY <1>9 DEF OrdersOK
    <2>2. QED
      BY <1>5, <2>1, PopHeadHolds
  <1>12. map \in [OrderId -> 0 .. next_id] /\ book.live \in [Side -> SUBSET Tick]
    BY <1>3, BookParts DEF EngineInv, None
  <1> HIDE DEF lv, map
  <1>13. BookOK(book', order, next_id)
    BY <1>2, <1>4, <1>11, <1>12, BookMade DEF EngineInv
  <1>14. QED
    BY <1>1, <1>9, <1>10, <1>13, BookStays DEF EngineInv

LEMMA MatchInv ==
  ASSUME EngineInv, DropDrained \/ StpCancelNewest \/ StpCancelOldest \/ StpDecrement \/ Execute
  PROVE  EngineInv'
  <1>0. "CANCELED" \in OrderStatus /\ "FILLED" \in OrderStatus /\ "PARTIALLY_FILLED" \in OrderStatus
    BY DEF OrderStatus
  <1>1. CASE DropDrained
    <2>1. /\ Contra \in Side /\ Top \in Tick
          /\ Holds(TopLevel, KnownOrders(order, next_id, Contra))
      BY <1>1, TopKnown DEF DropDrained, LevelDrained
    <2>2. book' = StoreLevel(book, Contra, Top, TopLevel)
      BY <1>1 DEF DropDrained, CleanEmptyLevel, TopLevel
    <2>3. BookOK(book', order, next_id)
      BY <2>1, <2>2, StoreLevelOK DEF EngineInv
    <2>4. QED
      BY <1>1, <2>3 DEF EngineInv, DropDrained
  <1>2. CASE StpCancelNewest
    <2>1. cur \in Uid /\ pc = "match"
      BY <1>2, CurKnown DEF StpCancelNewest, Matching
    <2>2. OrdersOK(order') /\ \A v \in Uid : order'[v].side = order[v].side
      BY <1>0, <1>2, <2>1, StatusChanged DEF EngineInv, StpCancelNewest
    <2>3. BookOK(book', order', next_id)
      BY <1>2, <2>2, BookStays DEF EngineInv, StpCancelNewest
    <2>4. QED
      BY <1>2, <2>1, <2>2, <2>3 DEF EngineInv, StpCancelNewest
  <1>3. CASE StpCancelOldest
    <2>1. /\ Matching /\ TopLevel.queue # << >>
          /\ order' = Marked(order, Maker, "CANCELED")
          /\ book' = [live |-> book.live,
                      level |-> [book.level EXCEPT ![Contra][Top] = PopHead(TopLevel, order)],
                      map |-> [book.map EXCEPT ![order[Maker].oid] = None]]
      BY <1>3 DEF StpCancelOldest, Prevents
    <2>2. /\ Maker \in Uid /\ order[Maker].oid \in OrderId /\ order \in [Uid -> Order]
          /\ OrdersOK(order)
      BY <2>1, MakerKnown DEF Order, EngineInv, OrdersOK
    <2>3. OrdersOK(order') /\ \A v \in Uid : order'[v].side = order[v].side
      BY <1>0, <2>1, <2>2, StatusChanged
    <2>4. /\ Contra \in Side /\ Top \in Tick
          /\ Holds(PopHead(TopLevel, order), KnownOrders(order, next_id, Contra))
      BY <2>1, <2>2, TopKnown, PopHeadHolds DEF Matching, Crosses
    <2>5. /\ [book.map EXCEPT ![order[Maker].oid] = None] \in [OrderId -> 0 .. next_id]
          /\ book.live \in [Side -> SUBSET Tick]
      BY <2>2, BookParts DEF EngineInv, None
    <2>6. BookOK(book', order, next_id)
      BY <2>1, <2>4, <2>5, BookMade DEF EngineInv
    <2>7. BookOK(book', order', next_id)
      BY <2>3, <2>6, BookStays DEF EngineInv
    <2>8. QED
      BY <1>3, <2>3, <2>7 DEF EngineInv, StpCancelOldest
  <1>4. CASE StpDecrement
    <2> DEFINE p == order[Maker]
               o == [p EXCEPT !.filled = @ + Overlap]
    <2>1. Matching /\ TopLevel.queue # << >> /\ Consume(o, Overlap, "CANCELED")
      BY <1>4 DEF StpDecrement, Prevents
    <2>2. o \in Order /\ o.side = order[Maker].side /\ o.filled <= o.quantity
      <3>1. p \in Order /\ Overlap \in Nat /\ p.filled + Overlap <= p.quantity
        BY <2>1, MakerKnown, OverlapFits
      <3> HIDE DEF p
      <3>2. o \in Order /\ o.side = p.side /\ o.filled <= o.quantity
        BY <3>1, ChargedType
      <3>3. QED
        BY <3>2 DEF p
    <2> HIDE DEF o
    <2>3. OrdersOK(order') /\ BookOK(book', order', next_id)
      BY <1>0, <2>1, <2>2, ConsumeKeeps
    <2>4. QED
      BY <1>4, <2>3 DEF EngineInv, StpDecrement
  <1>5. CASE Execute
    <2> DEFINE p == order[Maker]
               o == [p EXCEPT !.filled = @ + Overlap,
                              !.status = IF @ = "NEW" THEN "PARTIALLY_FILLED" ELSE @]
               trade == [maker |-> Maker, taker |-> cur, price |-> Top, quantity |-> Overlap,
                         timestamp |-> order[cur].timestamp]
    <2>1. /\ Matching /\ TopLevel.queue # << >> /\ Consume(o, Overlap, "FILLED")
          /\ trades' = Append(trades, trade) /\ last' = Top
      BY <1>5 DEF Execute, Prevents
    <2>2. o \in Order /\ o.side = order[Maker].side /\ o.filled <= o.quantity
      <3>1. p \in Order /\ Overlap \in Nat /\ p.filled + Overlap <= p.quantity
        BY <2>1, MakerKnown, OverlapFits
      <3> HIDE DEF p
      <3> DEFINE c == [p EXCEPT !.filled = @ + Overlap]
                 st == IF p.status = "NEW" THEN "PARTIALLY_FILLED" ELSE p.status
      <3>2. c \in Order /\ c.side = p.side /\ c.filled <= c.quantity
        BY <3>1, ChargedType
      <3>3. st \in OrderStatus
        BY <1>0, <3>1 DEF Order
      <3>4. o = [c EXCEPT !.status = st]
        BY <3>1 DEF Order
      <3> HIDE DEF c, st, o
      <3>5. o \in Order /\ o.side = c.side /\ o.filled = c.filled /\ o.quantity = c.quantity
        BY <3>2, <3>3, <3>4 DEF Order
      <3>6. QED
        BY <3>2, <3>5 DEF p
    <2>3. trade \in Trade
      <3>1. pc = "match" /\ HasSide(book, Contra)
        BY <2>1 DEF Matching, Crosses
      <3>2. Maker \in Uid /\ cur \in Uid /\ order[cur] \in Order /\ Top \in Tick /\ Overlap \in Nat
        BY <2>1, <3>1, MakerKnown, CurKnown, TopKnown, OverlapFits
      <3>3. order[cur].timestamp \in Nat
        BY <3>2 DEF Order
      <3>4. QED
        BY <3>2, <3>3 DEF Trade
    <2> HIDE DEF o, trade
    <2>4. OrdersOK(order') /\ BookOK(book', order', next_id)
      BY <1>0, <2>1, <2>2, ConsumeKeeps
    <2>5. trades' \in Seq(Trade) /\ last' \in Tick
      BY <2>1, <2>3, AppendProperties, TopKnown DEF EngineInv, Matching, Crosses
    <2>6. traded' \in BOOLEAN
      BY <1>5, Zenon DEF Execute
    <2>7. UNCHANGED <<next_id, clock, stops, pending, pc, cur, sweep>>
      BY <1>5, Zenon DEF Execute
    <2>8. QED
      BY <2>4, <2>5, <2>6, <2>7 DEF EngineInv
  <1>6. QED
    BY <1>1, <1>2, <1>3, <1>4, <1>5

-----------------------------------------------------------------------------
(* Every step keeps the invariant: modify_order.                           *)

LEMMA ModifiableKnown ==
  ASSUME EngineInv, NEW oid \in OrderId, Modifiable(oid), NEW am \in Amendments
  PROVE  /\ book.map[oid] \in 1 .. next_id /\ book.map[oid] \in Uid
         /\ order[book.map[oid]] \in Order
         /\ order[book.map[oid]].filled <= order[book.map[oid]].quantity
         /\ am \in Amendment /\ am.quantity \in Nat /\ am.price \in Price \cup {NoPrice}
  <1>1. book.map[oid] \in 1 .. next_id
    BY DEF EngineInv, BookOK, Modifiable, None
  <1>2. book.map[oid] \in Uid
    BY <1>1, BoundAssumption DEF EngineInv, Uid
  <1>3. QED
    BY <1>1, <1>2, InputAssumption DEF EngineInv, OrdersOK, Amendment

LEMMA ClockOK ==
  ASSUME EngineInv, ClockTicks PROVE clock' \in 0 .. MaxClock /\ clock + 1 \in Nat
  BY InputAssumption DEF EngineInv, ClockTicks

LEMMA RequotedType ==
  ASSUME NEW o \in Order, NEW am \in Amendment, NEW now \in Nat, ~AmendsToNothing(o, am)
  PROVE  /\ Requoted(o, am, now) \in Order
         /\ Requoted(o, am, now).side = o.side
         /\ Requoted(o, am, now).filled <= Requoted(o, am, now).quantity
  <1> DEFINE shown == Least(o.display, am.quantity)
             hid == CASE o.type = "ICEBERG" -> am.quantity - shown
                      [] o.type = "HIDDEN" -> am.quantity
                      [] OTHER -> o.hidden
  <1>1. am.quantity \in Nat /\ AmendedPrice(o, am) \in Price \cup {NoPrice}
    BY DEF Amendment, AmendedPrice, Order
  <1>2. shown \in Nat /\ am.quantity - shown \in Nat
    BY <1>1 DEF Least, Order
  <1>3. hid \in Nat
    BY <1>1, <1>2 DEF Order
  <1>4. o.filled <= am.quantity
    BY <1>1 DEF AmendsToNothing, Order
  <1> HIDE DEF shown, hid
  <1>5. Requoted(o, am, now) = [o EXCEPT !.price = AmendedPrice(o, am), !.quantity = am.quantity,
                                        !.display = shown, !.hidden = hid,
                                        !.timestamp = now, !.status = "REPLACED"]
    BY DEF Requoted, shown, hid
  <1>6. /\ Requoted(o, am, now).side = o.side
        /\ Requoted(o, am, now).filled = o.filled
        /\ Requoted(o, am, now).quantity = am.quantity
    BY <1>5 DEF Order
  <1>7. "REPLACED" \in OrderStatus
    BY DEF OrderStatus
  <1> DEFINE price == AmendedPrice(o, am)
             priced == [o EXCEPT !.price = price, !.quantity = am.quantity]
             shaped == [priced EXCEPT !.display = shown, !.hidden = hid]
  <1>8. Requoted(o, am, now) = [shaped EXCEPT !.timestamp = now, !.status = "REPLACED"]
    BY <1>5
  <1>9. price \in Price \cup {NoPrice}
    BY <1>1
  <1> HIDE DEF price
  <1>10. priced \in Order
    BY <1>1, <1>9 DEF Order
  <1> HIDE DEF priced
  <1>11. shaped \in Order
    BY <1>2, <1>3, <1>10 DEF Order
  <1> HIDE DEF shaped
  <1>12. Requoted(o, am, now) \in Order
    BY <1>7, <1>8, <1>11 DEF Order
  <1>13. QED
    BY <1>4, <1>6, <1>12

LEMMA ReducedType ==
  ASSUME NEW o \in Order, NEW am \in Amendment, ~AmendsToNothing(o, am), ~LosesPriority(o, am)
  PROVE  /\ Reduced(o, am) \in Order
         /\ Reduced(o, am).side = o.side
         /\ Reduced(o, am).filled <= Reduced(o, am).quantity
         /\ DisplayCut(o, am) \in Nat
  <1> DEFINE shown == o.display - DisplayCut(o, am)
             hid == CASE o.type = "ICEBERG" -> Clip(am.quantity - shown)
                      [] o.type = "HIDDEN" -> am.quantity
                      [] OTHER -> o.hidden
  <1>1. am.quantity \in Nat /\ am.quantity <= o.quantity /\ o.quantity \in Nat
    BY DEF Amendment, LosesPriority, Order
  <1>2. DisplayCut(o, am) \in Nat /\ shown \in Nat
    BY <1>1 DEF DisplayCut, Least, Order
  <1>3. hid \in Nat
    BY <1>1, <1>2 DEF Order, Clip
  <1>4. o.filled <= am.quantity
    BY <1>1 DEF AmendsToNothing, Order
  <1> HIDE DEF shown, hid
  <1>5. Reduced(o, am) = [o EXCEPT !.quantity = am.quantity, !.display = shown,
                                   !.hidden = hid, !.status = "REPLACED"]
    BY DEF Reduced, shown, hid
  <1>6. /\ Reduced(o, am).side = o.side
        /\ Reduced(o, am).filled = o.filled
        /\ Reduced(o, am).quantity = am.quantity
    BY <1>5 DEF Order
  <1>7. "REPLACED" \in OrderStatus
    BY DEF OrderStatus
  <1> DEFINE shaped == [o EXCEPT !.quantity = am.quantity, !.display = shown]
  <1>8. Reduced(o, am) = [shaped EXCEPT !.hidden = hid, !.status = "REPLACED"]
    BY <1>5
  <1>9. shaped \in Order
    BY <1>1, <1>2 DEF Order
  <1> HIDE DEF shaped
  <1>10. Reduced(o, am) \in Order
    BY <1>3, <1>7, <1>8, <1>9 DEF Order
  <1>11. QED
    BY <1>2, <1>4, <1>6, <1>10

LEMMA ReducedLevelHolds ==
  ASSUME NEW S, NEW lv, Holds(lv, S), NEW o \in Order, NEW am \in Amendment,
         DisplayCut(o, am) \in Nat
  PROVE  Holds(ReducedLevel(lv, o, am), S)
  <1> DEFINE hiddenCut == CASE o.type = "ICEBERG" -> (o.quantity - am.quantity) - DisplayCut(o, am)
                            [] o.type = "HIDDEN" -> o.quantity - am.quantity
                            [] OTHER -> 0
  <1>1. hiddenCut \in Int
    BY DEF Order, Amendment
  <1>2. Clip(lv.total - DisplayCut(o, am)) \in Nat /\ Clip(lv.hidden - hiddenCut) \in Nat
    BY <1>1 DEF Holds, Level, Clip
  <1>3. ReducedLevel(lv, o, am) = [lv EXCEPT !.total = Clip(lv.total - DisplayCut(o, am)),
                                             !.hidden = Clip(lv.hidden - hiddenCut)]
    BY DEF ReducedLevel, Holds, Level
  <1> HIDE DEF hiddenCut
  <1>4. QED
    BY <1>2, <1>3 DEF Holds, Level

LEMMA ModifyInv ==
  ASSUME EngineInv, NEW oid \in OrderId, NEW am \in Amendments,
         \/ ModifyToNothing(oid, am) \/ ModifyAcross(oid, am)
         \/ ModifyRequote(oid, am) \/ ModifyReduce(oid, am)
  PROVE  EngineInv'
  <1> DEFINE u == book.map[oid]
             o == order[u]
  <1>1. Modifiable(oid) /\ ClockTicks
    BY Zenon DEF ModifyToNothing, ModifyAcross, ModifyRequote, ModifyReduce
  <1>2. /\ u \in 1 .. next_id /\ u \in Uid /\ o \in Order /\ o.filled <= o.quantity
        /\ am \in Amendment /\ am.quantity \in Nat /\ am.price \in Price \cup {NoPrice}
    BY <1>1, ModifiableKnown
  <1>3. clock' \in 0 .. MaxClock /\ clock + 1 \in Nat
    BY <1>1, ClockOK
  <1>4. /\ OrdersOK(order) /\ order \in [Uid -> Order] /\ BookOK(book, order, next_id)
        /\ next_id \in 0 .. MaxOrders
    BY DEF EngineInv, OrdersOK
  <1>5. BookOK(RemoveOrder(book, order, u), order, next_id)
    BY <1>2, <1>4, RemoveOrderOK
  <1>6. ASSUME NEW new, NEW p \in Order, new = [order EXCEPT ![u] = p],
               p.filled <= p.quantity, p.side = o.side
        PROVE  OrdersOK(new) /\ \A v \in Uid : new[v].side = order[v].side
    BY <1>2, <1>4, <1>6 DEF OrdersOK
  <1>7. CASE ModifyToNothing(oid, am)
    <2>1. order' = Marked(order, u, "CANCELED") /\ book' = RemoveOrder(book, order, u)
      BY <1>7 DEF ModifyToNothing
    <2>2. "CANCELED" \in OrderStatus
      BY DEF OrderStatus
    <2> HIDE DEF u, o
    <2>3. OrdersOK(order') /\ \A v \in Uid : order'[v].side = order[v].side
      BY <1>2, <1>4, <2>1, <2>2, StatusChanged
    <2>4. BookOK(book', order', next_id)
      BY <1>4, <1>5, <2>1, <2>3, BookStays
    <2>5. QED
      BY <1>3, <1>7, <2>3, <2>4 DEF EngineInv, ModifyToNothing
  <1>8. CASE ModifyAcross(oid, am)
    <2> DEFINE shown == Least(o.display, am.quantity)
               p == [o EXCEPT !.price = am.price, !.quantity = am.quantity, !.display = shown,
                              !.timestamp = clock + 1, !.status = "REPLACED"]
    <2>1. order' = [order EXCEPT ![u] = p] /\ book' = RemoveOrder(book, order, u)
      BY <1>8 DEF ModifyAcross
    <2>2. shown \in Nat /\ o.filled <= am.quantity
      BY <1>2, <1>8 DEF ModifyAcross, AmendsToNothing, Least, Order
    <2>3. pending' \in Seq(1 .. next_id)
      BY <1>2, <1>8, AppendProperties DEF ModifyAcross, EngineInv
    <2> HIDE DEF u, o, shown
    <2>4. p \in Order /\ p.side = o.side /\ p.filled <= p.quantity
      BY <1>2, <1>3, <2>2 DEF Order, OrderStatus
    <2> HIDE DEF p
    <2>5. OrdersOK(order') /\ \A v \in Uid : order'[v].side = order[v].side
      BY <1>6, <2>1, <2>4
    <2>6. BookOK(book', order', next_id)
      BY <1>4, <1>5, <2>1, <2>5, BookStays
    <2>7. QED
      BY <1>3, <1>8, <2>3, <2>5, <2>6 DEF EngineInv, ModifyAcross
  <1>9. CASE ModifyRequote(oid, am)
    <2> DEFINE p == Requoted(o, am, clock + 1)
    <2>1. /\ order' = [order EXCEPT ![u] = p]
          /\ book' = InsertOrder(RemoveOrder(book, order, u), order', u)
      BY <1>9 DEF ModifyRequote
    <2>2. p \in Order /\ p.side = o.side /\ p.filled <= p.quantity
      BY <1>2, <1>3, <1>9, RequotedType DEF ModifyRequote
    <2> HIDE DEF u, o, p
    <2>3. OrdersOK(order') /\ \A v \in Uid : order'[v].side = order[v].side
      BY <1>6, <2>1, <2>2
    <2>4. BookOK(RemoveOrder(book, order, u), order', next_id)
      BY <1>4, <1>5, <2>3, BookStays
    <2>5. BookOK(book', order', next_id)
      BY Zenon, <1>2, <1>4, <2>1, <2>3, <2>4, InsertOrderOK DEF OrdersOK
    <2>6. QED
      BY <1>3, <1>9, <2>3, <2>5 DEF EngineInv, ModifyRequote
  <1>10. CASE ModifyReduce(oid, am)
    <2> DEFINE p == Reduced(o, am)
               t == TicksOf(o.price)
               lv == ReducedLevel(book.level[o.side][t], o, am)
    <2>1. /\ order' = [order EXCEPT ![u] = p]
          /\ book' = [book EXCEPT !.level[o.side][t] = ReducedLevel(@, o, am)]
          /\ UNCHANGED <<next_id, stops, pending, pc, cur, traded, last, trades, sweep>>
      BY Zenon, <1>10 DEF ModifyReduce
    <2>2. p \in Order /\ p.side = o.side /\ p.filled <= p.quantity /\ DisplayCut(o, am) \in Nat
      BY <1>2, <1>10, ReducedType DEF ModifyReduce
    <2>3. o.side \in Side /\ book \in Book
      BY <1>2, <1>4 DEF Order, BookOK
    <2> HIDE DEF u, o, p, t
    <2>4. OrdersOK(order') /\ \A v \in Uid : order'[v].side = order[v].side
      BY <1>6, <2>1, <2>2
    <2>5. BookOK(book', order, next_id)
      <3>1. CASE t \in Tick
        <4>1. Holds(lv, KnownOrders(order, next_id, o.side))
          BY <1>2, <1>4, <2>2, <2>3, <3>1, LevelsHold, ReducedLevelHolds
        <4>2. book' = [live |-> book.live, level |-> [book.level EXCEPT ![o.side][t] = lv],
                       map |-> book.map]
          BY <2>1, <2>3, <3>1 DEF Book
        <4> HIDE DEF lv
        <4>3. QED
          BY <1>4, <2>3, <3>1, <4>1, <4>2, BookMade, BookParts
      <3>2. CASE t \notin Tick
        <4>1. book' = book
          BY <2>1, <2>3, <3>2 DEF Book
        <4>2. QED
          BY <1>4, <4>1
      <3>3. QED
        BY <3>1, <3>2
    <2>6. BookOK(book', order', next_id)
      BY <1>4, <2>4, <2>5, BookStays
    <2>7. QED
      BY <1>3, <2>1, <2>4, <2>6 DEF EngineInv
  <1>11. QED
    BY Zenon, <1>7, <1>8, <1>9, <1>10

-----------------------------------------------------------------------------
(* The theorems.                                                           *)

LEMMA StepInv == EngineInv /\ [Next]_vars => EngineInv'
  <1> SUFFICES ASSUME EngineInv, [Next]_vars PROVE EngineInv'
    OBVIOUS
  <1>1. CASE Call
    BY <1>1, SubmitInv, CancelInv, SweepInv, ModifyInv DEF Call
  <1>2. CASE Step
    BY <1>2, TakeInv, TriggerInv, StepsAsideInv, MatchInv, ResidualInv, SweepInv DEF Step
  <1>3. CASE UNCHANGED vars
    BY <1>3 DEF vars, EngineInv
  <1>4. QED
    BY <1>1, <1>2, <1>3 DEF Next

(* Whatever participants send, the queues hold only orders that were       *)
(* submitted, each on its own side, and a call that matches has an order   *)
(* to match (_match never takes the incoming order for its own maker).     *)
THEOREM InvariantHolds == Spec => []EngineInv
  BY InitInv, StepInv, PTL DEF Spec

(* Every variable of the engine stays within its type: no volume of a      *)
(* level, and no displayed or hidden part of an order, becomes negative    *)
(* (level.py, book.py), and every trade is made on the tick grid.          *)
THEOREM TypeCorrect == Spec => []TypeOK
  <1>1. EngineInv => TypeOK
    <2> SUFFICES ASSUME EngineInv PROVE TypeOK
      OBVIOUS
    <2>1. next_id \in Nat /\ 1 .. next_id \subseteq Uid
      BY BoundAssumption DEF EngineInv, Uid
    <2>2. pending \in Seq(Uid)
      BY <2>1, SeqMonotonic DEF EngineInv
    <2>3. cur \in Uid \cup {None}
      BY <2>1 DEF EngineInv, None
    <2>4. QED
      BY <2>2, <2>3 DEF EngineInv, OrdersOK, BookOK, StopsOK, TypeOK
  <1>2. QED
    BY <1>1, InvariantHolds, PTL

(* No order ever fills beyond its quantity, however often it is matched,   *)
(* decremented by self-trade prevention, or cut by modify_order between    *)
(* its fills.                                                              *)
THEOREM NeverOverfilled == Spec => []FilledWithinQuantity
  <1>1. EngineInv => FilledWithinQuantity
    BY DEF EngineInv, OrdersOK, FilledWithinQuantity
  <1>2. QED
    BY <1>1, InvariantHolds, PTL

-----------------------------------------------------------------------------
(* Where the orders are.  An Order object is shared by the pending queue,  *)
(* the running call, the book (its queues and order_map) and the stop      *)
(* manager (its heaps and order_map).  That it is in one of them at a time *)
(* is what the other results rest on: a triggered stop is not also         *)
(* resting, an order taken off the book is really off it, an order that    *)
(* has ended is not filled again.                                          *)

(* Who stands in a queue does so once, and at its own side and price.      *)
WellQueued(q, ord, s, t) ==
  /\ IsInjective(q)
  /\ \A u \in ToSet(q) : ord[u].side = s /\ ord[u].price # NoPrice /\ TicksOf(ord[u].price) = t

Placed(b, ord) ==
  \A s \in Side, t \in Tick :
     /\ WellQueued(b.level[s][t].queue, ord, s, t)
     /\ b.level[s][t].queue # << >> => t \in b.live[s]

Mapped(map) == {map[i] : i \in OrderId} \ {None}

(* A map knows an order under its own id.                                  *)
Named(map, ord) == \A i \in OrderId : map[i] # None => ord[map[i]].oid = i

OnBook(b) == Resting(b) \cup Mapped(b.map)

Heaped(st) == st.heap["BUY"] \cup st.heap["SELL"]

StopsPlaced(st, ord) ==
  /\ Named(st.map, ord)
  /\ Mapped(st.map) \subseteq Heaped(st)
  /\ \A s \in Side : \A u \in st.heap[s] : ord[u].side = s

(* The order of the running call, until its residual is dealt with.        *)
InHand == IF pc \in {"match", "residual"} THEN {cur} ELSE {}

Apart(A, B, C, D) ==
  A \cap B = {} /\ A \cap C = {} /\ A \cap D = {} /\ B \cap C = {} /\ B \cap D = {} /\ C \cap D = {}

PlacesInv ==
  /\ EngineInv
  /\ Placed(book, order) /\ Named(book.map, order)
  /\ StopsPlaced(stops, order)
  /\ IsInjective(pending)
  /\ Apart(ToSet(pending), OnBook(book), Heaped(stops), InHand)

-----------------------------------------------------------------------------
(* Queues.                                                                 *)

LEMMA InjectiveUnlink ==
  ASSUME NEW S, NEW q \in Seq(S), IsInjective(q), NEW u \in ToSet(q)
  PROVE  /\ Unlink(q, u) \in Seq(S) /\ IsInjective(Unlink(q, u))
         /\ ToSet(Unlink(q, u)) = ToSet(q) \ {u}
  <1> DEFINE k == PositionOf(q, u)
             w == RemoveAt(q, k)
  <1>1. k \in 1 .. Len(q) /\ q[k] = u
    BY ToSetFacts DEF PositionOf
  <1>2. Unlink(q, u) = w
    BY DEF Unlink, RemoveAt
  <1> HIDE DEF k
  <1>3. /\ w \in Seq(S) /\ Len(w) = Len(q) - 1 /\ Len(q) \in Nat
        /\ \A i \in 1 .. Len(q) - 1 : w[i] = IF i < k THEN q[i] ELSE q[i + 1]
    BY <1>1, RemoveAtFacts, LenProperties
  <1>4. DOMAIN q = 1 .. Len(q) /\ DOMAIN w = 1 .. Len(q) - 1
    BY <1>3, LenProperties
  <1>5. \A x, y \in 1 .. Len(q) : x # y => q[x] # q[y]
    BY <1>4 DEF IsInjective
  <1>6. ToSet(w) = ToSet(q) \ {u}
    <2>1. \A x, y \in 1 .. Len(q) : x < y => q[x] # q[y]
      BY <1>3, <1>5
    <2>2. QED
      BY <1>1, <2>1, RemoveAtSet
  <1> HIDE DEF w
  <1>7. ASSUME NEW x \in 1 .. Len(q) - 1, NEW y \in 1 .. Len(q) - 1, x # y PROVE w[x] # w[y]
    <2> DEFINE at(i) == IF i < k THEN i ELSE i + 1
    <2>1. w[x] = q[at(x)] /\ w[y] = q[at(y)]
      BY <1>3
    <2>2. at(x) \in 1 .. Len(q) /\ at(y) \in 1 .. Len(q) /\ at(x) # at(y)
      BY <1>1, <1>3, <1>7
    <2> HIDE DEF at
    <2>3. QED
      BY <1>5, <2>1, <2>2
  <1>8. IsInjective(w)
    BY <1>4, <1>7 DEF IsInjective
  <1>9. QED
    BY <1>2, <1>3, <1>6, <1>8

(* An order sent to the tail of its queue: the same members.               *)
LEMMA InjectiveRequeue ==
  ASSUME NEW S, NEW q \in Seq(S), IsInjective(q), NEW u \in ToSet(q)
  PROVE  /\ Append(Unlink(q, u), u) \in Seq(S) /\ IsInjective(Append(Unlink(q, u), u))
         /\ ToSet(Append(Unlink(q, u), u)) = ToSet(q)
  <1>1. /\ Unlink(q, u) \in Seq(S) /\ IsInjective(Unlink(q, u))
        /\ ToSet(Unlink(q, u)) = ToSet(q) \ {u}
    BY InjectiveUnlink
  <1>2. u \in S
    BY ToSetFacts
  <1>3. u \notin ToSet(Unlink(q, u))
    BY <1>1
  <1>4. /\ Append(Unlink(q, u), u) \in Seq(S) /\ IsInjective(Append(Unlink(q, u), u))
        /\ ToSet(Append(Unlink(q, u), u)) = ToSet(Unlink(q, u)) \cup {u}
    BY <1>1, <1>2, <1>3, InjectiveAppend
  <1>5. QED
    BY <1>1, <1>4

-----------------------------------------------------------------------------
(* The book.                                                               *)

LEMMA QueueType ==
  ASSUME NEW ord, NEW n \in 0 .. MaxOrders, NEW b, BookOK(b, ord, n), NEW s \in Side, NEW t \in Tick
  PROVE  /\ b.level[s][t] \in Level /\ b.level[s][t].queue \in Seq(Uid)
         /\ b.level[s][t].queue \in Seq(1 .. n)
         /\ ToSet(b.level[s][t].queue) \subseteq 1 .. n
         /\ RestingAt(b, s, t) = ToSet(b.level[s][t].queue)
  <1> DEFINE q == b.level[s][t].queue
  <1>1. b.level[s][t] \in Level /\ q \in Seq(KnownOrders(ord, n, s))
    BY DEF BookOK, Book
  <1>2. q \in Seq(Uid)
    BY <1>1 DEF Level
  <1>3. q \in Seq(1 .. n)
    <2>1. KnownOrders(ord, n, s) \subseteq 1 .. n
      BY DEF KnownOrders
    <2>2. QED
      BY <1>1, <2>1, SeqMonotonic
  <1> HIDE DEF q
  <1>4. ToSet(q) \subseteq 1 .. n /\ ToSet(q) = {q[i] : i \in 1 .. Len(q)}
    BY <1>3, ToSetFacts, ToSetByIndex
  <1>5. RestingAt(b, s, t) = {q[i] : i \in 1 .. Len(q)}
    BY DEF q, RestingAt
  <1>6. /\ b.level[s][t] \in Level /\ q \in Seq(Uid) /\ q \in Seq(1 .. n)
        /\ ToSet(q) \subseteq 1 .. n /\ RestingAt(b, s, t) = ToSet(q)
    BY <1>1, <1>2, <1>3, <1>4, <1>5
  <1>7. QED
    BY <1>6 DEF q

LEMMA WhoRests ==
  ASSUME NEW ord, NEW n \in 0 .. MaxOrders, NEW b, BookOK(b, ord, n)
  PROVE  /\ \A u : u \in Resting(b) <=> \E s \in Side, t \in Tick : u \in ToSet(b.level[s][t].queue)
         /\ OnBook(b) \subseteq 1 .. n
  <1>1. \A s \in Side, t \in Tick : /\ RestingAt(b, s, t) = ToSet(b.level[s][t].queue)
                                    /\ ToSet(b.level[s][t].queue) \subseteq 1 .. n
    <2>1. SUFFICES ASSUME NEW s \in Side, NEW t \in Tick
                   PROVE  /\ RestingAt(b, s, t) = ToSet(b.level[s][t].queue)
                          /\ ToSet(b.level[s][t].queue) \subseteq 1 .. n
      OBVIOUS
    <2>2. QED
      BY QueueType, Zenon
  <1>2. \A u : u \in Resting(b) <=> \E s \in Side, t \in Tick : u \in RestingAt(b, s, t)
    <2>1. ASSUME NEW u, NEW s \in Side, NEW t \in Tick, u \in RestingAt(b, s, t) PROVE u \in Resting(b)
      <3>1. <<s, t>> \in Side \X Tick /\ <<s, t>>[1] = s /\ <<s, t>>[2] = t
        OBVIOUS
      <3>2. QED
        BY <2>1, <3>1, Zenon DEF Resting
    <2>2. ASSUME NEW u, u \in Resting(b) PROVE \E s \in Side, t \in Tick : u \in RestingAt(b, s, t)
      <3>1. PICK x \in Side \X Tick : u \in RestingAt(b, x[1], x[2])
        BY <2>2, Zenon DEF Resting
      <3>2. x[1] \in Side /\ x[2] \in Tick
        OBVIOUS
      <3>3. QED
        BY <3>1, <3>2
    <2>3. QED
      BY <2>1, <2>2
  <1>3. Mapped(b.map) \subseteq 1 .. n
    BY DEF Mapped, BookOK, None
  <1>4. QED
    BY <1>1, <1>2, <1>3 DEF OnBook

LEMMA QueuedIs ==
  ASSUME NEW lv, lv.queue \in Seq(Uid), NEW u
  PROVE  IsQueued(lv, u) <=> u \in ToSet(lv.queue)
  <1>1. ToSet(lv.queue) = {lv.queue[i] : i \in 1 .. Len(lv.queue)}
    BY ToSetByIndex
  <1>2. QED
    BY <1>1 DEF IsQueued

(* Fewer orders at the same places.                                        *)
Thinner(c, b) ==
  /\ \A s \in Side, t \in Tick :
        /\ IsInjective(c.level[s][t].queue)
        /\ ToSet(c.level[s][t].queue) \subseteq ToSet(b.level[s][t].queue)
        /\ c.level[s][t].queue # << >> => t \in c.live[s]
  /\ \A i \in OrderId : c.map[i] \in {b.map[i], None}

LEMMA ThinnerPlaced ==
  ASSUME NEW ord, NEW new, NEW n \in 0 .. MaxOrders, NEW b, BookOK(b, ord, n), NEW c, BookOK(c, new, n),
         Placed(b, ord), Named(b.map, ord), Thinner(c, b)
  PROVE  /\ Placed(c, ord) /\ Named(c.map, ord)
         /\ Resting(c) \subseteq Resting(b) /\ Mapped(c.map) \subseteq Mapped(b.map)
         /\ OnBook(c) \subseteq OnBook(b)
  <1>1. Placed(c, ord)
    BY DEF Placed, WellQueued, Thinner
  <1>2. Named(c.map, ord) /\ Mapped(c.map) \subseteq Mapped(b.map)
    BY DEF Named, Mapped, Thinner
  <1>3. Resting(c) \subseteq Resting(b)
    <2>1. ASSUME NEW u, u \in Resting(c) PROVE u \in Resting(b)
      <3>1. PICK s \in Side, t \in Tick : u \in ToSet(c.level[s][t].queue)
        BY <2>1, WhoRests
      <3>2. u \in ToSet(b.level[s][t].queue)
        BY <3>1 DEF Thinner
      <3>3. QED
        BY <3>2, WhoRests
    <2>2. QED
      BY <2>1
  <1>4. QED
    BY <1>1, <1>2, <1>3 DEF OnBook

LEMMA ThinnerItself == ASSUME NEW b, NEW ord, Placed(b, ord) PROVE Thinner(b, b)
  BY DEF Placed, WellQueued, Thinner

(* Orders with the same names, sides and prices are placed as well.        *)
LEMMA Relabelled ==
  ASSUME NEW ord, NEW new, NEW n \in 0 .. MaxOrders, NEW b, BookOK(b, ord, n),
         Placed(b, ord), Named(b.map, ord),
         \A u \in 1 .. n : new[u].oid = ord[u].oid,
         \A u \in Resting(b) : new[u].side = ord[u].side /\ new[u].price = ord[u].price
  PROVE  Placed(b, new) /\ Named(b.map, new)
  <1>1. Placed(b, new)
    <2>1. \A s \in Side, t \in Tick : \A u \in ToSet(b.level[s][t].queue) : u \in Resting(b)
      BY WhoRests
    <2>2. QED
      BY <2>1 DEF Placed, WellQueued
  <1>2. Named(b.map, new)
    <2>1. \A i \in OrderId : b.map[i] # None => b.map[i] \in 1 .. n
      BY DEF BookOK, None
    <2>2. QED
      BY <2>1 DEF Named
  <1>3. QED
    BY <1>1, <1>2

(* One level with fewer orders, ids dropped from the map.                  *)
StaysLive(live, b, s, t, lv) ==
  \A x \in Side : \A y \in b.live[x] : y \in live[x] \/ (x = s /\ y = t /\ lv.queue = << >>)

Forgets(map, b) == \A i \in OrderId : map[i] \in {b.map[i], None}

BookWith(live, b, s, t, lv, map) ==
  [live |-> live, level |-> [b.level EXCEPT ![s][t] = lv], map |-> map]

Fewer(lv, b, s, t) ==
  /\ IsInjective(lv.queue)
  /\ ToSet(lv.queue) \subseteq ToSet(b.level[s][t].queue)
  /\ b.level[s][t].queue = << >> => lv.queue = << >>

LEMMA LevelThinner ==
  ASSUME NEW ord, NEW n \in 0 .. MaxOrders, NEW b, BookOK(b, ord, n), Placed(b, ord),
         NEW s \in Side, NEW t \in Tick, NEW lv, Fewer(lv, b, s, t),
         NEW live, StaysLive(live, b, s, t, lv), NEW map, Forgets(map, b)
  PROVE  /\ Thinner(BookWith(live, b, s, t, lv, map), b)
         /\ BookWith(live, b, s, t, lv, map).level[s][t] = lv
         /\ BookWith(live, b, s, t, lv, map).map = map
  <1> DEFINE c == BookWith(live, b, s, t, lv, map)
  <1>1. b.level \in [Side -> [Tick -> Level]]
    BY DEF BookOK, Book
  <1>2. /\ c.level[s][t] = lv
        /\ \A x \in Side, y \in Tick : ~(x = s /\ y = t) => c.level[x][y] = b.level[x][y]
        /\ c.live = live /\ c.map = map
    BY <1>1 DEF BookWith
  <1> HIDE DEF c
  <1>3. ASSUME NEW x \in Side, NEW y \in Tick
        PROVE  /\ IsInjective(c.level[x][y].queue)
               /\ ToSet(c.level[x][y].queue) \subseteq ToSet(b.level[x][y].queue)
               /\ c.level[x][y].queue # << >> => y \in c.live[x]
    <2>1. CASE x = s /\ y = t
      BY <1>2, <2>1 DEF Placed, StaysLive, Fewer
    <2>2. CASE ~(x = s /\ y = t)
      BY <1>2, <2>2 DEF Placed, WellQueued, StaysLive
    <2>3. QED
      BY <2>1, <2>2
  <1>4. QED
    BY <1>2, <1>3 DEF Thinner, Forgets, c

LEMMA EmptyQueue == IsInjective(<< >>) /\ ToSet(<< >>) = {}
  <1>1. << >> \in Seq({})
    BY EmptySeq
  <1>2. ToSet(<< >>) = {}
    BY <1>1, ToSetFacts
  <1>3. DOMAIN << >> = {}
    BY <1>1, EmptySeq, LenProperties
  <1>4. QED
    BY <1>2, <1>3 DEF IsInjective

Unmapped(d, b, i) == d = [b EXCEPT !.map[i] = None]

LEMMA StoreThinner ==
  ASSUME NEW ord, NEW n \in 0 .. MaxOrders, NEW b, BookOK(b, ord, n), Placed(b, ord),
         NEW s \in Side, NEW t \in Tick, NEW lv, Fewer(lv, b, s, t),
         NEW i \in OrderId, NEW d, Unmapped(d, b, i) \/ d = b
  PROVE  /\ Thinner(StoreLevel(d, s, t, lv), b)
         /\ ToSet(StoreLevel(d, s, t, lv).level[s][t].queue) = ToSet(lv.queue)
         /\ StoreLevel(d, s, t, lv).map = d.map
  <1>1. b = [live |-> b.live, level |-> b.level, map |-> b.map] /\ b.live \in [Side -> SUBSET Tick]
        /\ b.map \in [OrderId -> Uid \cup {None}]
    BY DEF BookOK, Book
  <1>2. PICK map : d = [live |-> b.live, level |-> b.level, map |-> map]
                   /\ map \in {b.map, [b.map EXCEPT ![i] = None]}
    BY <1>1 DEF Unmapped
  <1>3. Forgets(map, b)
    BY <1>1, <1>2 DEF Forgets
  <1>4. CASE IsEmpty(lv)
    <2> DEFINE live == [b.live EXCEPT ![s] = @ \ {t}]
               c == BookWith(live, b, s, t, NewLevel, map)
    <2>1. StoreLevel(d, s, t, lv) = c /\ d.map = map
      BY <1>1, <1>2, <1>4 DEF StoreLevel, BookWith
    <2>2. Fewer(NewLevel, b, s, t) /\ NewLevel.queue = << >>
      BY EmptyQueue DEF NewLevel, Fewer
    <2>3. StaysLive(live, b, s, t, NewLevel)
      BY <1>1, <2>2 DEF StaysLive
    <2>4. lv.queue = << >>
      BY <1>4 DEF IsEmpty
    <2> HIDE DEF live
    <2>5. Thinner(c, b) /\ c.level[s][t] = NewLevel /\ c.map = map
      BY <1>3, <2>2, <2>3, LevelThinner
    <2>6. QED
      BY <2>1, <2>2, <2>4, <2>5
  <1>5. CASE ~IsEmpty(lv)
    <2> DEFINE c == BookWith(b.live, b, s, t, lv, map)
    <2>1. StoreLevel(d, s, t, lv) = c /\ d.map = map
      BY <1>1, <1>2, <1>5 DEF StoreLevel, BookWith
    <2>2. StaysLive(b.live, b, s, t, lv)
      BY DEF StaysLive
    <2>3. Thinner(c, b) /\ c.level[s][t] = lv /\ c.map = map
      BY <1>3, <2>2, LevelThinner
    <2>4. QED
      BY <2>1, <2>3
  <1>6. QED
    BY <1>4, <1>5

(* remove_order takes the order off the book altogether.                   *)
LEMMA RemovePlaced ==
  ASSUME NEW ord \in [Uid -> Order], NEW n \in 0 .. MaxOrders, NEW b, BookOK(b, ord, n),
         Placed(b, ord), Named(b.map, ord), NEW u \in Uid
  PROVE  Thinner(RemoveOrder(b, ord, u), b) /\ u \notin OnBook(RemoveOrder(b, ord, u))
  <1> DEFINE c == RemoveOrder(b, ord, u)
             o == ord[u]
             t == TicksOf(o.price)
             d == [b EXCEPT !.map[o.oid] = None]
  <1>1. o \in Order /\ o.side \in Side /\ o.oid \in OrderId
    BY DEF Order
  <1>2. b.live \in [Side -> SUBSET Tick] /\ b.map \in [OrderId -> Uid \cup {None}]
        /\ b = [live |-> b.live, level |-> b.level, map |-> b.map]
    BY DEF BookOK, Book
  <1>3. \A i \in OrderId : d.map[i] \in {b.map[i], None} /\ d.map[i] # u
    BY <1>1, <1>2, BoundAssumption DEF Named, None, Uid
  <1>4. BookOK(c, ord, n)
    BY RemoveOrderOK
  <1>5. \A s \in Side, y \in Tick : u \in ToSet(b.level[s][y].queue) =>
           s = o.side /\ y = t /\ o.price # NoPrice /\ t \in b.live[o.side]
    <2>1. ASSUME NEW s \in Side, NEW y \in Tick, u \in ToSet(b.level[s][y].queue)
          PROVE  s = o.side /\ y = t /\ o.price # NoPrice /\ b.level[s][y].queue # << >>
      BY <2>1, EmptyQueue DEF Placed, WellQueued
    <2>2. QED
      BY <2>1 DEF Placed
  <1>6. CASE o.price # NoPrice /\ t \in b.live[o.side]
    <2> DEFINE lv == LevelRemove(b.level[o.side][t], o, u)
               q == b.level[o.side][t].queue
    <2>1. t \in Tick /\ c = StoreLevel(d, o.side, t, lv)
      BY <1>1, <1>2, <1>6 DEF RemoveOrder
    <2>2. q \in Seq(Uid) /\ IsInjective(q) /\ b.level[o.side][t] \in Level
      BY <1>1, <2>1, QueueType DEF Placed, WellQueued
    <2>3. Fewer(lv, b, o.side, t) /\ ToSet(lv.queue) = ToSet(q) \ {u}
      <3> SUFFICES IsInjective(lv.queue) /\ ToSet(lv.queue) = ToSet(q) \ {u} /\ (q = << >> => lv.queue = << >>)
        BY DEF Fewer
      <3>1. CASE u \in ToSet(q)
        <4>1. IsQueued(b.level[o.side][t], u)
          BY <2>2, <3>1, QueuedIs
        <4>2. lv.queue = Unlink(q, u)
          BY <4>1 DEF LevelRemove
        <4>3. q # << >>
          BY <3>1, EmptyQueue
        <4> HIDE DEF lv, q
        <4>4. QED
          BY <2>2, <3>1, <4>2, <4>3, InjectiveUnlink
      <3>2. CASE u \notin ToSet(q)
        <4>1. ~IsQueued(b.level[o.side][t], u)
          BY <2>2, <3>2, QueuedIs
        <4>2. lv.queue = q
          BY <4>1 DEF LevelRemove
        <4>3. QED
          BY <2>2, <3>2, <4>2
      <3>3. QED
        BY <3>1, <3>2
    <2> HIDE DEF lv, t, o
    <2>4. /\ Thinner(StoreLevel(d, o.side, t, lv), b)
          /\ ToSet(StoreLevel(d, o.side, t, lv).level[o.side][t].queue) = ToSet(lv.queue)
          /\ StoreLevel(d, o.side, t, lv).map = d.map
      <3>1. Unmapped(d, b, o.oid)
        BY DEF Unmapped
      <3>2. t \in Tick /\ o.side \in Side /\ o.oid \in OrderId /\ Fewer(lv, b, o.side, t)
        BY <1>1, <2>1, <2>3
      <3> HIDE DEF d, c
      <3>3. ASSUME NEW dd, NEW ss \in Side, NEW ii \in OrderId, NEW tt \in Tick, NEW ll, Unmapped(dd, b, ii), Fewer(ll, b, ss, tt)
            PROVE  /\ Thinner(StoreLevel(dd, ss, tt, ll), b)
                   /\ ToSet(StoreLevel(dd, ss, tt, ll).level[ss][tt].queue) = ToSet(ll.queue)
                   /\ StoreLevel(dd, ss, tt, ll).map = dd.map
        BY <3>3, StoreThinner
      <3>4. QED
        BY <3>1, <3>2, <3>3
    <2> HIDE DEF c, d
    <2>5. Thinner(c, b) /\ ToSet(c.level[o.side][t].queue) = ToSet(q) \ {u} /\ c.map = d.map
      BY <2>1, <2>3, <2>4
    <2>6. u \notin Resting(c)
      <3>1. ASSUME NEW s \in Side, NEW y \in Tick, u \in ToSet(c.level[s][y].queue) PROVE FALSE
        <4>1. u \in ToSet(b.level[s][y].queue)
          BY <2>5, <3>1 DEF Thinner
        <4>2. s = o.side /\ y = t
          BY <1>5, <4>1
        <4>3. QED
          BY <2>5, <3>1, <4>2
      <3>2. QED
        BY <1>4, <3>1, WhoRests
    <2>7. u \notin Mapped(c.map)
      BY <1>3, <2>5 DEF Mapped
    <2>8. QED
      BY <2>5, <2>6, <2>7 DEF OnBook, c
  <1>7. CASE ~(o.price # NoPrice /\ t \in b.live[o.side])
    <2>1. c = d
      BY <1>7 DEF RemoveOrder
    <2>2. d.live = b.live /\ d.level = b.level
      BY <1>2
    <2> HIDE DEF c, d, t, o
    <2>3. Thinner(c, b)
      BY <1>3, <2>1, <2>2 DEF Placed, WellQueued, Thinner
    <2>4. u \notin Resting(c)
      <3>1. \A s \in Side, y \in Tick : u \notin ToSet(c.level[s][y].queue)
        BY <1>5, <1>7, <2>1, <2>2
      <3>2. QED
        BY <1>4, <3>1, WhoRests
    <2>5. u \notin Mapped(c.map)
      BY <1>3, <2>1 DEF Mapped
    <2>6. QED
      BY <2>3, <2>4, <2>5 DEF OnBook, c
  <1>8. QED
    BY <1>6, <1>7

(* insert_order of an order that does not stand in a queue.                *)
LEMMA InsertPlaced ==
  ASSUME NEW ord \in [Uid -> Order], NEW n \in 0 .. MaxOrders, NEW b, BookOK(b, ord, n),
         Placed(b, ord), Named(b.map, ord), NEW u \in 1 .. n, u \notin Resting(b)
  PROVE  /\ Placed(InsertOrder(b, ord, u), ord) /\ Named(InsertOrder(b, ord, u).map, ord)
         /\ Resting(InsertOrder(b, ord, u)) \subseteq Resting(b) \cup {u}
         /\ OnBook(InsertOrder(b, ord, u)) \subseteq OnBook(b) \cup {u}
  <1> DEFINE c == InsertOrder(b, ord, u)
             o == ord[u]
             t == TicksOf(o.price)
             q == b.level[o.side][t].queue
  <1>0. u \in Uid
    BY BoundAssumption DEF Uid
  <1>1. u \in Uid /\ o \in Order /\ o.side \in Side /\ o.oid \in OrderId
        /\ o.price \in Price \cup {NoPrice}
    BY <1>0 DEF Order
  <1>2. CASE o.price = NoPrice
    <2>1. c = b
      BY <1>2 DEF InsertOrder
    <2>2. QED
      BY <2>1
  <1>3. CASE o.price # NoPrice
    <2>1. t \in Tick /\ BookOK(c, ord, n)
      BY <1>1, <1>3, TicksOfType, InsertOrderOK
    <2>2. b.level \in [Side -> [Tick -> Level]] /\ b.live \in [Side -> SUBSET Tick]
          /\ b.map \in [OrderId -> Uid \cup {None}]
      BY DEF BookOK, Book
    <2>3. /\ c.live = [b.live EXCEPT ![o.side] = @ \cup {t}]
          /\ c.level = [b.level EXCEPT ![o.side][t] = LevelAppend(@, o, u)]
          /\ c.map = [b.map EXCEPT ![o.oid] = u]
      BY <1>3 DEF InsertOrder
    <2>4. /\ c.level[o.side][t].queue = Append(q, u)
          /\ \A s \in Side, y \in Tick : ~(s = o.side /\ y = t) => c.level[s][y] = b.level[s][y]
      <3>1. c.level = [b.level EXCEPT ![o.side][t] = LevelAppend(b.level[o.side][t], o, u)]
        BY <2>3
      <3>2. LevelAppend(b.level[o.side][t], o, u).queue = Append(q, u)
        BY DEF LevelAppend
      <3> HIDE DEF c, o, t, q
      <3>3. QED
        BY <1>1, <2>1, <2>2, <3>1, <3>2
    <2>5. /\ t \in c.live[o.side] /\ \A s \in Side : b.live[s] \subseteq c.live[s]
          /\ c.map[o.oid] = u /\ \A i \in OrderId : i # o.oid => c.map[i] = b.map[i]
      BY <1>1, <2>2, <2>3
    <2>6. q \in Seq(Uid) /\ IsInjective(q) /\ u \notin ToSet(q)
      BY <1>1, <2>1, QueueType, WhoRests DEF Placed, WellQueued
    <2>7. IsInjective(Append(q, u)) /\ ToSet(Append(q, u)) = ToSet(q) \cup {u}
      <3> HIDE DEF c, o, t, q
      <3>1. QED
        BY <1>0, <2>6, InjectiveAppend
    <2>8. \A s \in Side, y \in Tick :
             /\ IsInjective(c.level[s][y].queue)
             /\ ToSet(c.level[s][y].queue) = IF s = o.side /\ y = t THEN ToSet(q) \cup {u}
                                             ELSE ToSet(b.level[s][y].queue)
             /\ c.level[s][y].queue # << >> => y \in c.live[s]
      <3>1. ASSUME NEW s \in Side, NEW y \in Tick
            PROVE  /\ IsInjective(c.level[s][y].queue)
                   /\ ToSet(c.level[s][y].queue) = IF s = o.side /\ y = t THEN ToSet(q) \cup {u}
                                                   ELSE ToSet(b.level[s][y].queue)
                   /\ c.level[s][y].queue # << >> => y \in c.live[s]
        <4> HIDE DEF c, t, o, q
        <4>1. CASE s = o.side /\ y = t
          BY <2>4, <2>5, <2>7, <4>1
        <4>2. CASE ~(s = o.side /\ y = t)
          BY <2>4, <2>5, <4>2 DEF Placed, WellQueued
        <4>3. QED
          BY <4>1, <4>2
      <3>2. QED
        BY <3>1
    <2>9. Placed(c, ord)
      <3>1. ASSUME NEW s \in Side, NEW y \in Tick, NEW v \in ToSet(c.level[s][y].queue)
            PROVE  ord[v].side = s /\ ord[v].price # NoPrice /\ TicksOf(ord[v].price) = y
        <4>1. CASE v = u /\ s = o.side /\ y = t
          BY <1>3, <4>1
        <4>2. CASE v \in ToSet(b.level[s][y].queue)
          BY <4>2 DEF Placed, WellQueued
        <4> HIDE DEF c, t, o
        <4>3. QED
          BY <2>8, <3>1, <4>1, <4>2 DEF q
      <3> HIDE DEF c
      <3>2. QED
        BY <2>8, <3>1 DEF Placed, WellQueued
    <2>10. Named(c.map, ord) /\ Mapped(c.map) \subseteq Mapped(b.map) \cup {u}
      BY <1>1, <2>5 DEF Named, Mapped
    <2>11. Resting(c) \subseteq Resting(b) \cup {u}
      <3> HIDE DEF c, t, o
      <3>1. ASSUME NEW v, v \in Resting(c) PROVE v \in Resting(b) \cup {u}
        <4>1. PICK s \in Side, y \in Tick : v \in ToSet(c.level[s][y].queue)
          BY <2>1, <3>1, WhoRests
        <4>2. v \in ToSet(b.level[s][y].queue) \/ v = u
          BY <2>8, <4>1 DEF q
        <4>3. QED
          BY <4>2, WhoRests
      <3>2. QED
        BY <3>1
    <2>12. QED
      BY <2>9, <2>10, <2>11 DEF OnBook
  <1>4. QED
    BY <1>2, <1>3

-----------------------------------------------------------------------------
(* What no step but modify_order and a trigger changes of an order.        *)
Alike(o, p) ==
  /\ o.oid = p.oid /\ o.side = p.side /\ o.price = p.price
  /\ o.owner = p.owner /\ o.stp = p.stp /\ o.tif = p.tif

(* What a fill leaves alone, and a mark.                                   *)
Steady(o, p) ==
  /\ Alike(o, p) /\ o.quantity = p.quantity /\ o.type = p.type
  /\ o.stop_price = p.stop_price /\ o.timestamp = p.timestamp

Unfilled(o, p) == Steady(o, p) /\ o.filled = p.filled

LEMMA MarkedAlike ==
  ASSUME NEW ord \in [Uid -> Order], NEW u \in Uid, NEW st
  PROVE  /\ \A v \in Uid : Unfilled(Marked(ord, u, st)[v], ord[v])
         /\ \A v \in Uid \ {u} : Marked(ord, u, st)[v] = ord[v]
         /\ Marked(ord, u, st)[u].status = st
  <1> DEFINE o == [ord[u] EXCEPT !.status = st]
  <1>1. Marked(ord, u, st) = [ord EXCEPT ![u] = o]
    BY DEF Marked
  <1>2. Unfilled(o, ord[u]) /\ o.status = st
    BY DEF Order, Unfilled, Steady, Alike
  <1>3. \A v \in Uid : Unfilled(ord[v], ord[v])
    BY DEF Unfilled, Steady, Alike
  <1> HIDE DEF o
  <1>4. QED
    BY <1>1, <1>2, <1>3

(* A fill keeps the queue's members, an iceberg's may change their order.  *)
LEMMA FillQueue ==
  ASSUME NEW lv \in Level, IsInjective(lv.queue), NEW o \in Order, NEW u \in ToSet(lv.queue), NEW n \in Nat
  PROVE  /\ IsInjective(UpdateVolumeAfterFill(lv, o, u, n).level.queue)
         /\ UpdateVolumeAfterFill(lv, o, u, n).level.queue \in Seq(Uid)
         /\ UpdateVolumeAfterFill(lv, o, u, n).level.queue # << >>
         /\ ToSet(UpdateVolumeAfterFill(lv, o, u, n).level.queue) = ToSet(lv.queue)
         /\ o.type # "ICEBERG" => UpdateVolumeAfterFill(lv, o, u, n).level.queue = lv.queue
         /\ Unfilled(UpdateVolumeAfterFill(lv, o, u, n).order, o)
         /\ UpdateVolumeAfterFill(lv, o, u, n).order.status = o.status
  <1> DEFINE f == UpdateVolumeAfterFill(lv, o, u, n)
             q == lv.queue
  <1>1. q \in Seq(Uid) /\ IsInjective(Append(Unlink(q, u), u))
        /\ Append(Unlink(q, u), u) \in Seq(Uid) /\ ToSet(Append(Unlink(q, u), u)) = ToSet(q)
    BY InjectiveRequeue DEF Level
  <1>2. q # << >> /\ Append(Unlink(q, u), u) # << >>
    <2>1. ToSet(q) # {} /\ ToSet(Append(Unlink(q, u), u)) # {}
      BY <1>1
    <2>2. QED
      BY <2>1, EmptyQueue
  <1>3. \A d, h : /\ Unfilled([o EXCEPT !.display = d], o) /\ [o EXCEPT !.display = d].status = o.status
                  /\ Unfilled([o EXCEPT !.hidden = h], o) /\ [o EXCEPT !.hidden = h].status = o.status
                  /\ Unfilled([o EXCEPT !.display = d, !.hidden = h], o)
                  /\ [o EXCEPT !.display = d, !.hidden = h].status = o.status
    BY DEF Order, Unfilled, Steady, Alike
  <1>4. \A d, h : [lv EXCEPT !.total = d].queue = q /\ [lv EXCEPT !.hidden = h].queue = q
    BY DEF Level
  <1>5. Unfilled(f.order, o) /\ f.order.status = o.status
    BY <1>3 DEF UpdateVolumeAfterFill, FillIceberg, FillHidden, FillVisible
  <1>6. /\ f.level.queue = q \/ f.level.queue = Append(Unlink(q, u), u)
        /\ o.type # "ICEBERG" => f.level.queue = q
    BY <1>4 DEF UpdateVolumeAfterFill, FillIceberg, FillHidden, FillVisible
  <1> HIDE DEF f
  <1>7. QED
    BY <1>1, <1>2, <1>5, <1>6 DEF f

LEMMA OwnAlike == ASSUME NEW o PROVE Alike(o, o) /\ Unfilled(o, o)
  BY DEF Alike, Steady, Unfilled

-----------------------------------------------------------------------------
(* Steps that only take orders away from where they are.                   *)

LEMMA StopsRelabelled ==
  ASSUME NEW st, NEW n \in 0 .. MaxOrders, StopsOK(st, n), NEW ord, NEW new, StopsPlaced(st, ord),
         \A u \in 1 .. n : new[u].oid = ord[u].oid /\ new[u].side = ord[u].side
  PROVE  StopsPlaced(st, new)
  <1>1. \A i \in OrderId : st.map[i] # None => st.map[i] \in 1 .. n
    BY DEF StopsOK, None
  <1>2. \A s \in Side : st.heap[s] \subseteq 1 .. n
    BY DEF StopsOK
  <1>3. QED
    BY <1>1, <1>2 DEF StopsPlaced, Named

LEMMA HeapedKnown == ASSUME EngineInv PROVE Heaped(stops) \subseteq 1 .. next_id
  BY DEF EngineInv, StopsOK, Heaped, Side

LEMMA Narrows ==
  ASSUME PlacesInv, EngineInv', next_id' = next_id,
         \A u \in 1 .. next_id : Alike(order'[u], order[u]),
         Thinner(book', book),
         StopsPlaced(stops', order), Heaped(stops') \subseteq Heaped(stops),
         IsInjective(pending'), ToSet(pending') \subseteq ToSet(pending), InHand' \subseteq InHand
  PROVE  PlacesInv'
  <1>1. /\ next_id \in 0 .. MaxOrders /\ BookOK(book, order, next_id) /\ BookOK(book', order', next_id)
        /\ StopsOK(stops', next_id) /\ Placed(book, order) /\ Named(book.map, order)
    BY DEF PlacesInv, EngineInv
  <1>2. Placed(book', order) /\ Named(book'.map, order) /\ OnBook(book') \subseteq OnBook(book)
        /\ Resting(book') \subseteq Resting(book)
    BY <1>1, ThinnerPlaced
  <1>3. Placed(book', order') /\ Named(book'.map, order')
    <2>1. Resting(book) \subseteq 1 .. next_id
      BY <1>1, WhoRests DEF OnBook
    <2>2. \A u \in 1 .. next_id : order'[u].oid = order[u].oid /\ order'[u].side = order[u].side
                                  /\ order'[u].price = order[u].price
      BY DEF Alike
    <2>3. BookOK(book', order, next_id)
      BY <1>1, <2>2, BookGrows
    <2>4. QED
      BY <1>1, <1>2, <2>1, <2>2, <2>3, Relabelled
  <1>4. StopsPlaced(stops', order')
    <2>1. \A u \in 1 .. next_id : order'[u].oid = order[u].oid /\ order'[u].side = order[u].side
      BY DEF Alike
    <2>2. QED
      BY <1>1, <2>1, StopsRelabelled
  <1>5. Apart(ToSet(pending'), OnBook(book'), Heaped(stops'), InHand')
    BY <1>2 DEF PlacesInv, Apart
  <1>6. QED
    BY <1>3, <1>4, <1>5 DEF PlacesInv

LEMMA AsideKeeps ==
  ASSUME PlacesInv, EngineInv',
         \/ \E w \in Owner : CancelAll(w)
         \/ SweepStops \/ SweepDone \/ Drained \/ MatchDone \/ NoProgress \/ TriggersDone
         \/ UNCHANGED vars
  PROVE  PlacesInv' /\ UNCHANGED <<order, book, stops, pending, next_id>> /\ InHand' \subseteq InHand
  <1>1. UNCHANGED <<order, book, stops, pending, next_id>> /\ InHand' \subseteq InHand
    BY DEF CancelAll, SweepStops, SweepDone, Drained, MatchDone, NoProgress, TriggersDone, vars, InHand
  <1>2. \A u \in 1 .. next_id : Alike(order'[u], order[u])
    BY <1>1, OwnAlike
  <1>3. Thinner(book', book)
    BY <1>1, ThinnerItself DEF PlacesInv
  <1>4. QED
    BY <1>1, <1>2, <1>3, Narrows DEF PlacesInv

(* Taking the first of the pending orders.                                 *)
LEMMA TakenFacts ==
  ASSUME PlacesInv, NEW u, Taking(u)
  PROVE  /\ u \in 1 .. next_id /\ u \in Uid /\ u \in ToSet(pending)
         /\ IsInjective(Tail(pending)) /\ ToSet(Tail(pending)) = ToSet(pending) \ {u}
         /\ InHand = {}
  <1>1. pending \in Seq(1 .. next_id) /\ pending # << >> /\ u = Head(pending) /\ IsInjective(pending)
    BY DEF PlacesInv, EngineInv, Taking
  <1>2. /\ IsInjective(Tail(pending)) /\ ToSet(Tail(pending)) = ToSet(pending) \ {Head(pending)}
        /\ Head(pending) \in ToSet(pending)
    BY <1>1, InjectiveTail
  <1>3. u \in 1 .. next_id /\ u \in Uid
    BY TakingKnown DEF PlacesInv
  <1>4. InHand = {}
    BY DEF Taking, InHand
  <1>5. QED
    BY <1>1, <1>2, <1>3, <1>4

LEMMA KnownUids == ASSUME EngineInv PROVE 1 .. next_id \subseteq Uid /\ order \in [Uid -> Order]
  BY BoundAssumption DEF EngineInv, OrdersOK, Uid

LEMMA RejectKeeps ==
  ASSUME PlacesInv, EngineInv', NEW u, Taking(u), Reject(u) PROVE PlacesInv'
  <1>1. /\ order' = Marked(order, u, "REJECTED") /\ pending' = Tail(pending)
        /\ UNCHANGED <<next_id, book, stops, pc, cur>>
    BY DEF Reject
  <1>2. /\ u \in Uid /\ u \in ToSet(pending)
        /\ IsInjective(Tail(pending)) /\ ToSet(Tail(pending)) = ToSet(pending) \ {u}
    BY TakenFacts
  <1>3. \A v \in 1 .. next_id : Alike(order'[v], order[v])
    BY <1>1, <1>2, KnownUids, MarkedAlike DEF PlacesInv, Unfilled, Steady
  <1>4. Thinner(book', book)
    BY <1>1, ThinnerItself DEF PlacesInv
  <1>5. InHand' = InHand
    BY <1>1 DEF InHand
  <1>6. QED
    BY <1>1, <1>2, <1>3, <1>4, <1>5, Narrows DEF PlacesInv

(* An order known to the book's map: on the book, and nowhere else.        *)
LEMMA OnMap ==
  ASSUME PlacesInv, NEW oid \in OrderId, book.map[oid] # None
  PROVE  /\ book.map[oid] \in 1 .. next_id /\ book.map[oid] \in Uid
         /\ order[book.map[oid]].oid = oid /\ book.map[oid] \in OnBook(book)
         /\ book.map[oid] \notin ToSet(pending) /\ book.map[oid] \notin Heaped(stops)
         /\ book.map[oid] \notin InHand
         /\ Thinner(RemoveOrder(book, order, book.map[oid]), book)
         /\ book.map[oid] \notin OnBook(RemoveOrder(book, order, book.map[oid]))
  <1> DEFINE u == book.map[oid]
  <1>1. u \in 1 .. next_id
    BY DEF PlacesInv, EngineInv, BookOK, None
  <1>2. u \in Uid
    BY <1>1, KnownUids DEF PlacesInv
  <1>3. order[u].oid = oid
    BY DEF PlacesInv, Named
  <1>4. u \in OnBook(book)
    BY DEF OnBook, Mapped
  <1> HIDE DEF u
  <1>5. u \notin ToSet(pending) /\ u \notin Heaped(stops) /\ u \notin InHand
    BY <1>4 DEF PlacesInv, Apart
  <1>6. Thinner(RemoveOrder(book, order, u), book) /\ u \notin OnBook(RemoveOrder(book, order, u))
    BY <1>2, RemovePlaced DEF PlacesInv, EngineInv, OrdersOK
  <1>7. QED
    BY <1>1, <1>2, <1>3, <1>4, <1>5, <1>6 DEF u

LEMMA StopForgotten ==
  ASSUME PlacesInv, NEW oid \in OrderId
  PROVE  /\ StopsPlaced(ForgetStop(stops, oid), order)
         /\ Heaped(ForgetStop(stops, oid)) = Heaped(stops)
         /\ Mapped(ForgetStop(stops, oid).map) \subseteq Mapped(stops.map)
         /\ stops.map[oid] \notin Mapped(ForgetStop(stops, oid).map)
  <1> DEFINE st == ForgetStop(stops, oid)
  <1>1. stops.map \in [OrderId -> Uid \cup {None}]
    BY DEF PlacesInv, EngineInv, StopsOK, Stops
  <1>2. st.heap = stops.heap /\ st.map = [stops.map EXCEPT ![oid] = None]
    BY DEF ForgetStop, PlacesInv, EngineInv, StopsOK, Stops
  <1>3. st.map[oid] = None /\ \A i \in OrderId : i # oid => st.map[i] = stops.map[i]
    BY <1>1, <1>2
  <1> HIDE DEF st
  <1>4. Heaped(st) = Heaped(stops) /\ Mapped(st.map) \subseteq Mapped(stops.map)
    BY <1>2, <1>3 DEF Heaped, Mapped
  <1>5. Named(stops.map, order) /\ Mapped(stops.map) \subseteq Heaped(stops)
        /\ \A s \in Side : \A u \in stops.heap[s] : order[u].side = s
    BY DEF PlacesInv, StopsPlaced
  <1>6. StopsPlaced(st, order)
    BY <1>2, <1>3, <1>4, <1>5 DEF StopsPlaced, Named
  <1>7. stops.map[oid] \notin Mapped(st.map)
    BY <1>3, <1>5 DEF Named, Mapped
  <1>8. QED
    BY <1>4, <1>6, <1>7 DEF st

LEMMA CancelEffectPlaces ==
  ASSUME PlacesInv, EngineInv', NEW oid \in OrderId, CancelEffect(oid),
         UNCHANGED <<next_id, pending>>, InHand' = InHand
  PROVE  PlacesInv'
  <1>1. order \in [Uid -> Order] /\ 1 .. next_id \subseteq Uid
    BY KnownUids DEF PlacesInv
  <1>2. StopsPlaced(stops, order) /\ IsInjective(pending) /\ Thinner(book, book)
    BY ThinnerItself DEF PlacesInv
  <1>3. CASE CancelResting(oid)
    <2>1. book' = RemoveOrder(book, order, book.map[oid]) /\ order' = Marked(order, book.map[oid], "CANCELED")
          /\ stops' = stops /\ book.map[oid] # None
      BY <1>3 DEF CancelResting
    <2>2. book.map[oid] \in Uid /\ Thinner(book', book)
      BY <2>1, OnMap
    <2>3. \A v \in 1 .. next_id : Alike(order'[v], order[v])
      BY <1>1, <2>1, <2>2, MarkedAlike DEF Unfilled, Steady
    <2>4. QED
      BY <1>2, <2>1, <2>2, <2>3, Narrows
  <1>4. CASE CancelStop(oid)
    <2>1. stops' = ForgetStop(stops, oid) /\ order' = Marked(order, stops.map[oid], "CANCELED")
          /\ book' = book /\ stops.map[oid] # None
      BY <1>4 DEF CancelStop
    <2>2. stops.map[oid] \in Uid
      BY <2>1 DEF PlacesInv, EngineInv, StopsOK, Stops
    <2>3. \A v \in 1 .. next_id : Alike(order'[v], order[v])
      BY <1>1, <2>1, <2>2, MarkedAlike DEF Unfilled, Steady
    <2>4. StopsPlaced(stops', order) /\ Heaped(stops') = Heaped(stops)
      BY <2>1, StopForgotten
    <2>5. QED
      BY <1>2, <2>1, <2>3, <2>4, Narrows
  <1>5. CASE CancelUnknown(oid)
    <2>1. \A v \in 1 .. next_id : Alike(order'[v], order[v])
      BY <1>5, OwnAlike DEF CancelUnknown
    <2>2. QED
      BY <1>2, <1>5, <2>1, Narrows DEF CancelUnknown
  <1>6. QED
    BY <1>3, <1>4, <1>5 DEF CancelEffect

LEMMA CancelKeeps ==
  ASSUME PlacesInv, EngineInv', NEW oid \in OrderId, Cancel(oid) \/ SweepOne(oid) PROVE PlacesInv'
  <1>1. CancelEffect(oid) /\ UNCHANGED <<next_id, pending, pc, cur>>
    BY DEF Cancel, SweepOne
  <1>2. InHand' = InHand
    BY <1>1 DEF InHand
  <1>3. QED
    BY <1>1, <1>2, CancelEffectPlaces

LEMMA ModifyToNothingKeeps ==
  ASSUME PlacesInv, EngineInv', NEW oid \in OrderId, NEW am \in Amendments, ModifyToNothing(oid, am)
  PROVE  PlacesInv'
  <1>1. CancelEffect(oid) /\ UNCHANGED <<next_id, pending, pc, cur>>
    BY DEF ModifyToNothing, CancelEffect, CancelResting, Modifiable
  <1>2. InHand' = InHand
    BY <1>1 DEF InHand
  <1>3. QED
    BY <1>1, <1>2, CancelEffectPlaces

LEMMA ModifyReduceKeeps ==
  ASSUME PlacesInv, EngineInv', NEW oid \in OrderId, NEW am \in Amendments, ModifyReduce(oid, am)
  PROVE  /\ PlacesInv' /\ \A v \in 1 .. next_id : Alike(order'[v], order[v])
         /\ \A v \in Uid : v # book.map[oid] => order'[v] = order[v]
         /\ order'[book.map[oid]].type = order[book.map[oid]].type
         /\ order'[book.map[oid]].filled = order[book.map[oid]].filled
         /\ order'[book.map[oid]].status = "REPLACED" /\ Thinner(book', book)
  <1> DEFINE u == book.map[oid]
             o == order[u]
             t == TicksOf(o.price)
  <1>1. /\ order' = [order EXCEPT ![u] = Reduced(o, am)]
        /\ book' = [book EXCEPT !.level[o.side][t] = ReducedLevel(@, o, am)]
        /\ UNCHANGED <<next_id, stops, pending, pc, cur>> /\ book.map[oid] # None
    BY Zenon DEF ModifyReduce, Modifiable
  <1>2. u \in Uid /\ order \in [Uid -> Order] /\ 1 .. next_id \subseteq Uid
    BY <1>1, OnMap, KnownUids DEF PlacesInv
  <1>3. \A v \in 1 .. next_id : Alike(order'[v], order[v])
    <2>1. Alike(Reduced(o, am), o)
      BY <1>2 DEF Reduced, Order, Alike
    <2> HIDE DEF u, o
    <2>2. QED
      BY <1>1, <1>2, <2>1, OwnAlike DEF o
  <1>4. \A s \in Side, x \in Tick : book'.level[s][x].queue = book.level[s][x].queue
    <2>1. book.level \in [Side -> [Tick -> Level]] /\ book = [live |-> book.live, level |-> book.level, map |-> book.map]
      BY DEF PlacesInv, EngineInv, BookOK, Book
    <2>2. ReducedLevel(book.level[o.side][t], o, am).queue = book.level[o.side][t].queue
      BY DEF ReducedLevel
    <2>3. book'.level = [book.level EXCEPT ![o.side][t] = ReducedLevel(book.level[o.side][t], o, am)]
      BY <1>1, <2>1
    <2> HIDE DEF o, t
    <2>4. QED
      BY <2>1, <2>2, <2>3
  <1>5. book'.live = book.live /\ book'.map = book.map
    BY <1>1 DEF PlacesInv, EngineInv, BookOK, Book
  <1>6. Thinner(book', book)
    BY <1>4, <1>5 DEF PlacesInv, Placed, WellQueued, Thinner
  <1>7. InHand' = InHand
    BY <1>1 DEF InHand
  <1>8. PlacesInv'
    BY <1>1, <1>3, <1>6, <1>7, Narrows DEF PlacesInv
  <1>9. Reduced(o, am).type = o.type /\ Reduced(o, am).filled = o.filled /\ Reduced(o, am).status = "REPLACED"
    BY <1>2 DEF Reduced, Order
  <1>10. order'[u] = Reduced(o, am) /\ \A v \in Uid : v # u => order'[v] = order[v]
    <2> HIDE DEF u, o
    <2>1. QED
      BY <1>1, <1>2
  <1>11. QED
    BY <1>3, <1>6, <1>8, <1>9, <1>10

LEMMA ResidualKeeps == ASSUME PlacesInv, EngineInv', Complete \/ Expire PROVE PlacesInv'
  <1>1. PICK st : order' = Marked(order, cur, st)
    BY DEF Complete, Expire
  <1>2. UNCHANGED <<next_id, book, stops, pending>> /\ InHand' = {} /\ cur \in Uid
    BY CurKnown DEF Complete, Expire, AfterResidual, InHand, PlacesInv
  <1>3. \A v \in 1 .. next_id : Alike(order'[v], order[v])
    BY <1>1, <1>2, KnownUids, MarkedAlike DEF PlacesInv, Unfilled, Steady
  <1>4. Thinner(book', book)
    BY <1>2, ThinnerItself DEF PlacesInv
  <1>5. QED
    BY <1>2, <1>3, <1>4, Narrows DEF PlacesInv

LEMMA StopPopped ==
  ASSUME PlacesInv, NEW u \in Uid, u \in stops.heap[order[u].side]
  PROVE  /\ StopsPlaced(PopStop(stops, order[u], u), order)
         /\ Heaped(PopStop(stops, order[u], u)) = Heaped(stops) \ {u}
         /\ u \in Heaped(stops) /\ u \in 1 .. next_id
         /\ Mapped(PopStop(stops, order[u], u).map) \subseteq Mapped(stops.map) \ {u}
  <1> DEFINE st == PopStop(stops, order[u], u)
  <1>1. /\ stops.map \in [OrderId -> Uid \cup {None}] /\ stops.heap \in [Side -> SUBSET Uid]
        /\ order[u] \in Order
    BY KnownUids DEF PlacesInv, EngineInv, StopsOK, Stops
  <1>2. order[u].side \in Side /\ order[u].oid \in OrderId
    BY <1>1 DEF Order
  <1>3. Named(stops.map, order) /\ Mapped(stops.map) \subseteq Heaped(stops)
        /\ \A s \in Side : \A v \in stops.heap[s] : order[v].side = s
    BY DEF PlacesInv, StopsPlaced
  <1>4. /\ st.heap[order[u].side] = stops.heap[order[u].side] \ {u}
        /\ \A s \in Side : s # order[u].side => st.heap[s] = stops.heap[s]
        /\ st.map[order[u].oid] = None
        /\ \A i \in OrderId : i # order[u].oid => st.map[i] = stops.map[i]
    BY <1>1, <1>2 DEF PopStop
  <1> HIDE DEF st
  <1>5. \A s \in Side : st.heap[s] = stops.heap[s] \ {u}
    BY <1>2, <1>3, <1>4
  <1>6. Heaped(st) = Heaped(stops) \ {u}
    BY <1>5 DEF Heaped, Side
  <1>7. u \in Heaped(stops) /\ u \in 1 .. next_id
    <2>1. u \in Heaped(stops)
      BY <1>2 DEF Heaped, Side
    <2>2. QED
      BY <2>1, HeapedKnown DEF PlacesInv
  <1>8. Mapped(st.map) \subseteq Mapped(stops.map) \ {u}
    BY <1>3, <1>4 DEF Named, Mapped
  <1>9. StopsPlaced(st, order)
    <2>1. Named(st.map, order)
      BY <1>3, <1>4 DEF Named
    <2>2. QED
      BY <1>3, <1>5, <1>6, <1>8, <2>1 DEF StopsPlaced
  <1>10. QED
    BY <1>6, <1>7, <1>8, <1>9 DEF st

LEMMA SkipKeeps == ASSUME PlacesInv, EngineInv', NEW u \in Uid, SkipCanceled(u) PROVE PlacesInv'
  <1>1. /\ stops' = PopStop(stops, order[u], u) /\ u \in stops.heap[order[u].side]
        /\ UNCHANGED <<order, next_id, book, pending, pc, cur>>
    BY DEF SkipCanceled, NextDue, IsHeapTop
  <1>2. StopsPlaced(stops', order) /\ Heaped(stops') \subseteq Heaped(stops)
    BY <1>1, StopPopped
  <1>3. \A v \in 1 .. next_id : Alike(order'[v], order[v])
    BY <1>1, OwnAlike
  <1>4. Thinner(book', book) /\ InHand' = InHand
    BY <1>1, ThinnerItself DEF PlacesInv, InHand
  <1>5. QED
    BY <1>1, <1>2, <1>3, <1>4, Narrows DEF PlacesInv

-----------------------------------------------------------------------------
(* The matching loop: the level of the maker.                              *)

LEMMA TopFacts ==
  ASSUME PlacesInv, pc = "match", HasSide(book, Contra)
  PROVE  /\ Contra \in Side /\ Top \in Tick /\ TopLevel \in Level /\ TopLevel.queue \in Seq(Uid)
         /\ IsInjective(TopLevel.queue) /\ book.level[Contra][Top] = TopLevel
         /\ ToSet(TopLevel.queue) \subseteq Resting(book)
         /\ BookOK(book, order, next_id) /\ next_id \in 0 .. MaxOrders /\ Placed(book, order)
         /\ Top \in book.live[Contra]
  <1>1. Contra \in Side /\ Top \in Tick /\ TopLevel \in Level
    BY TopKnown DEF PlacesInv
  <1>2. BookOK(book, order, next_id) /\ next_id \in 0 .. MaxOrders /\ Placed(book, order)
    BY DEF PlacesInv, EngineInv
  <1>3. IsInjective(TopLevel.queue)
    BY <1>1, <1>2 DEF Placed, WellQueued, TopLevel
  <1>4. ToSet(TopLevel.queue) \subseteq Resting(book)
    BY <1>1, <1>2, WhoRests DEF TopLevel
  <1>5. Top \in book.live[Contra]
    BY <1>1, <1>2, BestType DEF Top, BookOK
  <1>6. QED
    BY <1>1, <1>2, <1>3, <1>4, <1>5 DEF TopLevel, Level

LEMMA MakerFacts ==
  ASSUME PlacesInv, Matching, TopLevel.queue # << >>
  PROVE  /\ Maker \in ToSet(TopLevel.queue) /\ Maker \in Resting(book) /\ Maker \in OnBook(book)
         /\ Maker \in Uid /\ Maker \in 1 .. next_id /\ cur \in Uid /\ cur \in 1 .. next_id /\ Maker # cur
         /\ Overlap \in Nat /\ order[Maker] \in Order /\ order[cur] \in Order
         /\ ToSet(Tail(TopLevel.queue)) = ToSet(TopLevel.queue) \ {Maker}
         /\ IsInjective(Tail(TopLevel.queue))
         /\ pc = "match" /\ HasSide(book, Contra)
  <1>1. pc = "match" /\ HasSide(book, Contra) /\ EngineInv
    BY DEF Matching, Crosses, PlacesInv
  <1>2. TopLevel.queue \in Seq(Uid) /\ IsInjective(TopLevel.queue)
        /\ ToSet(TopLevel.queue) \subseteq Resting(book)
    BY <1>1, TopFacts
  <1>3. /\ Maker \in ToSet(TopLevel.queue)
        /\ ToSet(Tail(TopLevel.queue)) = ToSet(TopLevel.queue) \ {Maker}
        /\ IsInjective(Tail(TopLevel.queue))
    BY <1>2, InjectiveTail DEF Maker
  <1>4. Maker \in Uid /\ Maker \in 1 .. next_id /\ Maker # cur /\ order[Maker] \in Order
    BY <1>1, MakerKnown
  <1>5. Overlap \in Nat
    BY <1>1, OverlapFits
  <1>6. cur \in Uid /\ cur \in 1 .. next_id /\ order[cur] \in Order
    BY <1>1, CurKnown
  <1>7. QED
    BY <1>1, <1>2, <1>3, <1>4, <1>5, <1>6 DEF OnBook

(* A matching step leaves the other places alone.                          *)
LEMMA MatchNarrows ==
  ASSUME PlacesInv, EngineInv', UNCHANGED <<next_id, stops, pending, cur>>,
         pc' = pc \/ pc' = "residual", pc = "match",
         \A u \in 1 .. next_id : Alike(order'[u], order[u]), Thinner(book', book)
  PROVE  PlacesInv'
  <1>1. InHand' = InHand
    BY DEF InHand
  <1>2. QED
    BY <1>1, Narrows DEF PlacesInv

LEMMA DropKeeps ==
  ASSUME PlacesInv, EngineInv', DropDrained
  PROVE  PlacesInv' /\ Thinner(book', book)
  <1>1. /\ pc = "match" /\ HasSide(book, Contra) /\ book' = StoreLevel(book, Contra, Top, TopLevel)
        /\ UNCHANGED <<order, next_id, stops, pending, pc, cur>>
    BY DEF DropDrained, LevelDrained, CleanEmptyLevel, TopLevel
  <1>2. Fewer(TopLevel, book, Contra, Top)
    BY <1>1, TopFacts DEF Fewer
  <1>3. \E i : i \in OrderId
    BY PartyAssumption
  <1>4. Thinner(book', book)
    BY <1>1, <1>2, <1>3, TopFacts, StoreThinner
  <1>5. \A u \in 1 .. next_id : Alike(order'[u], order[u])
    BY <1>1, OwnAlike
  <1>6. QED
    BY <1>1, <1>4, <1>5, MatchNarrows

LEMMA CancelNewestKeeps ==
  ASSUME PlacesInv, EngineInv', StpCancelNewest PROVE PlacesInv'
  <1>1. /\ order' = Marked(order, cur, "CANCELED") /\ pc' = "residual" /\ pc = "match"
        /\ UNCHANGED <<next_id, book, stops, pending, cur>>
    BY DEF StpCancelNewest, Matching
  <1>2. \A u \in 1 .. next_id : Alike(order'[u], order[u])
    BY <1>1, CurKnown, KnownUids, MarkedAlike DEF PlacesInv, Unfilled, Steady
  <1>3. Thinner(book', book)
    BY <1>1, ThinnerItself DEF PlacesInv
  <1>4. QED
    BY <1>1, <1>2, <1>3, MatchNarrows

LEMMA CancelOldestKeeps ==
  ASSUME PlacesInv, EngineInv', StpCancelOldest
  PROVE  PlacesInv' /\ Thinner(book', book) /\ Maker \notin Resting(book')
  <1>1. /\ order' = Marked(order, Maker, "CANCELED") /\ pc' = pc /\ pc = "match"
        /\ book' = [live |-> book.live,
                    level |-> [book.level EXCEPT ![Contra][Top] = PopHead(TopLevel, order)],
                    map |-> [book.map EXCEPT ![order[Maker].oid] = None]]
        /\ UNCHANGED <<next_id, stops, pending, cur>>
        /\ Matching /\ TopLevel.queue # << >>
    BY DEF StpCancelOldest, Matching, Prevents
  <1>2. \A u \in 1 .. next_id : Alike(order'[u], order[u])
    BY <1>1, MakerFacts, KnownUids, MarkedAlike DEF PlacesInv, Unfilled, Steady
  <1>3. PopHead(TopLevel, order).queue = Tail(TopLevel.queue)
    BY DEF PopHead
  <1>4. Fewer(PopHead(TopLevel, order), book, Contra, Top)
    BY <1>1, <1>3, MakerFacts, TopFacts DEF Fewer
  <1>5. StaysLive(book.live, book, Contra, Top, PopHead(TopLevel, order))
    BY DEF StaysLive
  <1>6. Forgets([book.map EXCEPT ![order[Maker].oid] = None], book)
    BY DEF Forgets, PlacesInv, EngineInv, BookOK, Book
  <1>7. /\ Thinner(book', book) /\ book'.level[Contra][Top] = PopHead(TopLevel, order)
    <2>1. book' = BookWith(book.live, book, Contra, Top, PopHead(TopLevel, order),
                           [book.map EXCEPT ![order[Maker].oid] = None])
      BY <1>1 DEF BookWith
    <2>2. Contra \in Side /\ Top \in Tick /\ BookOK(book, order, next_id)
          /\ next_id \in 0 .. MaxOrders /\ Placed(book, order)
      BY <1>1, MakerFacts, TopFacts
    <2>3. QED
      BY <1>4, <1>5, <1>6, <2>1, <2>2, LevelThinner
  <1>8. PlacesInv'
    BY <1>1, <1>2, <1>7, MatchNarrows
  <1>9. Maker \notin Resting(book')
    <2>1. Maker \notin ToSet(book'.level[Contra][Top].queue)
      BY <1>1, <1>3, <1>7, MakerFacts
    <2>2. ASSUME NEW s \in Side, NEW t \in Tick, Maker \in ToSet(book'.level[s][t].queue) PROVE FALSE
      <3>1. Maker \in ToSet(book.level[s][t].queue)
        BY <1>7, <2>2 DEF Thinner
      <3>2. Maker \in ToSet(book.level[Contra][Top].queue) /\ Contra \in Side /\ Top \in Tick
        BY <1>1, MakerFacts, TopFacts
      <3>3. s = Contra /\ t = Top
        BY <3>1, <3>2 DEF PlacesInv, Placed, WellQueued
      <3>4. QED
        BY <2>1, <2>2, <3>3
    <2>3. BookOK(book', order', next_id') /\ next_id' \in 0 .. MaxOrders
      BY DEF EngineInv
    <2>4. QED
      BY <2>2, <2>3, WhoRests
  <1>10. QED
    BY <1>7, <1>8, <1>9

(* A charge to the maker and the taker: o is the maker's record after it.  *)
LEMMA ConsumePlaces ==
  ASSUME PlacesInv, EngineInv', Matching, TopLevel.queue # << >>, NEW o \in Order, Alike(o, order[Maker]),
         NEW final \in OrderStatus, Consume(o, Overlap, final),
         UNCHANGED <<next_id, stops, pending, pc, cur>>
  PROVE  /\ PlacesInv' /\ Thinner(book', book)
         /\ \A u \in 1 .. next_id : Alike(order'[u], order[u])
         /\ \A u \in Uid : u \notin {cur, Maker} => order'[u] = order[u]
         /\ order'[cur] = [order[cur] EXCEPT !.filled = @ + Overlap]
         /\ Unfilled(order'[Maker], o)
         /\ order'[Maker].status = IF Remaining(o) = 0 THEN final ELSE o.status
  <1> DEFINE m == Maker
             f == UpdateVolumeAfterFill(TopLevel, o, m, Overlap)
             gone == Remaining(o) = 0
             maker == IF gone THEN [f.order EXCEPT !.status = final] ELSE f.order
             after == [order EXCEPT ![m] = maker, ![cur].filled = @ + Overlap]
             lv == IF gone THEN PopHead(f.level, after) ELSE f.level
             map == IF gone THEN [book.map EXCEPT ![o.oid] = None] ELSE book.map
  <1>1. order' = after /\ book' = BookWith(book.live, book, Contra, Top, lv, map)
    BY DEF Consume, BookWith
  <1>2. /\ m \in Uid /\ cur \in Uid /\ m # cur /\ Overlap \in Nat /\ m \in ToSet(TopLevel.queue)
        /\ order \in [Uid -> Order] /\ 1 .. next_id \subseteq Uid
    BY MakerFacts, KnownUids DEF PlacesInv
  <1>3. /\ Contra \in Side /\ Top \in Tick /\ TopLevel \in Level /\ IsInjective(TopLevel.queue)
        /\ BookOK(book, order, next_id) /\ next_id \in 0 .. MaxOrders /\ Placed(book, order)
        /\ book.level[Contra][Top] = TopLevel
    BY MakerFacts, TopFacts
  <1>4. /\ IsInjective(f.level.queue) /\ f.level.queue \in Seq(Uid) /\ f.level.queue # << >>
        /\ ToSet(f.level.queue) = ToSet(TopLevel.queue)
        /\ Unfilled(f.order, o) /\ f.order.status = o.status
    BY <1>2, <1>3, FillQueue
  <1>5. f.order \in Order
    BY <1>2, <1>3, FillHolds, MakerKnown DEF Holds, PlacesInv, Level
  <1> HIDE DEF f
  <1>6. Unfilled(maker, o) /\ maker.status = IF gone THEN final ELSE o.status
    <2>1. Unfilled([f.order EXCEPT !.status = final], f.order) /\ [f.order EXCEPT !.status = final].status = final
      BY <1>5 DEF Order, Unfilled, Steady, Alike
    <2>2. QED
      BY <1>4, <2>1 DEF Unfilled, Steady, Alike
  <1>7. IsInjective(lv.queue) /\ ToSet(lv.queue) \subseteq ToSet(TopLevel.queue)
    <2>1. CASE gone
      <3>1. lv.queue = Tail(f.level.queue)
        BY <2>1 DEF PopHead
      <3> HIDE DEF lv
      <3>2. QED
        BY <1>4, <3>1, InjectiveTail
    <2>2. CASE ~gone
      BY <1>4, <2>2
    <2>3. QED
      BY <2>1, <2>2
  <1>8. Fewer(lv, book, Contra, Top)
    <2>1. TopLevel.queue # << >>
      OBVIOUS
    <2> HIDE DEF lv
    <2>2. QED
      BY <1>3, <1>7, <2>1 DEF Fewer
  <1>9. Forgets(map, book)
    BY DEF Forgets, PlacesInv, EngineInv, BookOK, Book
  <1>10. /\ order'[m] = maker
         /\ order'[cur] = [order[cur] EXCEPT !.filled = @ + Overlap]
         /\ \A u \in Uid : u \notin {cur, m} => order'[u] = order[u]
    <2> HIDE DEF maker, m
    <2>1. QED
      BY <1>1, <1>2
  <1> HIDE DEF lv, map, maker, after, gone
  <1>11. Thinner(book', book)
    <2>1. StaysLive(book.live, book, Contra, Top, lv)
      BY DEF StaysLive
    <2>2. QED
      BY <1>1, <1>3, <1>8, <1>9, <2>1, LevelThinner
  <1>12. \A u \in 1 .. next_id : Alike(order'[u], order[u])
    <2>1. Alike(order'[cur], order[cur])
      BY <1>2, <1>10 DEF Alike, Order
    <2>2. Alike(order'[m], order[m])
      BY <1>6, <1>10 DEF Unfilled, Steady, Alike
    <2>3. QED
      BY <1>2, <1>10, <2>1, <2>2, OwnAlike
  <1>13. PlacesInv'
    BY <1>11, <1>12, MatchNarrows DEF Matching
  <1>14. QED
    BY <1>6, <1>10, <1>11, <1>12, <1>13 DEF gone

(* The maker's record after an execution, and after a decrement.           *)
Executed == [order[Maker] EXCEPT !.filled = @ + Overlap,
                                 !.status = IF @ = "NEW" THEN "PARTIALLY_FILLED" ELSE @]

Decremented == [order[Maker] EXCEPT !.filled = @ + Overlap]

LEMMA ChargedFacts ==
  ASSUME PlacesInv, Matching, TopLevel.queue # << >>
  PROVE  /\ Executed \in Order /\ Alike(Executed, order[Maker])
         /\ Decremented \in Order /\ Alike(Decremented, order[Maker])
         /\ Executed.filled = order[Maker].filled + Overlap
         /\ Decremented.filled = order[Maker].filled + Overlap
         /\ Executed.quantity = order[Maker].quantity /\ Decremented.quantity = order[Maker].quantity
         /\ Executed.status = IF order[Maker].status = "NEW" THEN "PARTIALLY_FILLED" ELSE order[Maker].status
         /\ Decremented.status = order[Maker].status
         /\ Executed.type = order[Maker].type /\ Decremented.type = order[Maker].type
         /\ Steady(Executed, order[Maker]) /\ Steady(Decremented, order[Maker])
  <1>1. order[Maker] \in Order /\ Overlap \in Nat
    BY MakerFacts
  <1>2. Decremented \in Order /\ Alike(Decremented, order[Maker])
        /\ Decremented.filled = order[Maker].filled + Overlap /\ Decremented.quantity = order[Maker].quantity
        /\ Decremented.status = order[Maker].status /\ Decremented.type = order[Maker].type
        /\ Steady(Decremented, order[Maker])
    <2> DEFINE m == order[Maker]
    <2>1. m \in Order /\ Overlap \in Nat /\ Decremented = [m EXCEPT !.filled = m.filled + Overlap]
      BY <1>1 DEF Decremented
    <2> HIDE DEF m
    <2>2. m.filled \in Nat
      BY <2>1 DEF Order
    <2>3. Decremented \in Order
      BY <2>1, <2>2 DEF Order
    <2>4. Alike(Decremented, m)
      BY <2>1 DEF Order, Alike
    <2>5. /\ Decremented.filled = m.filled + Overlap /\ Decremented.quantity = m.quantity
          /\ Decremented.status = m.status /\ Decremented.type = m.type
          /\ Decremented.stop_price = m.stop_price /\ Decremented.timestamp = m.timestamp
      BY <2>1 DEF Order
    <2>6. QED
      BY <2>3, <2>4, <2>5 DEF m, Steady
  <1> DEFINE st == IF order[Maker].status = "NEW" THEN "PARTIALLY_FILLED" ELSE order[Maker].status
  <1>3. Executed = [Decremented EXCEPT !.status = st] /\ st \in OrderStatus
    BY <1>1 DEF Executed, Decremented, Order, OrderStatus
  <1> HIDE DEF st
  <1>4. /\ Executed \in Order /\ Alike(Executed, Decremented) /\ Executed.status = st
        /\ Executed.filled = Decremented.filled /\ Executed.quantity = Decremented.quantity
        /\ Executed.type = Decremented.type /\ Executed.stop_price = Decremented.stop_price
        /\ Executed.timestamp = Decremented.timestamp
    BY <1>2, <1>3 DEF Order, Alike
  <1>5. QED
    BY <1>2, <1>4 DEF Alike, Steady, st

LEMMA ExecutePlaces ==
  ASSUME PlacesInv, EngineInv', Execute
  PROVE  /\ PlacesInv' /\ Thinner(book', book)
         /\ \A u \in 1 .. next_id : Alike(order'[u], order[u])
         /\ \A u \in Uid : u \notin {cur, Maker} => order'[u] = order[u]
         /\ order'[cur] = [order[cur] EXCEPT !.filled = @ + Overlap]
         /\ Unfilled(order'[Maker], Executed)
         /\ order'[Maker].status = IF Remaining(Executed) = 0 THEN "FILLED" ELSE Executed.status
  <1>1. Matching /\ TopLevel.queue # << >> /\ UNCHANGED <<next_id, stops, pending, pc, cur>>
    BY DEF Execute, Prevents
  <1>2. Consume(Executed, Overlap, "FILLED") /\ "FILLED" \in OrderStatus
    BY DEF Execute, Executed, OrderStatus
  <1>3. QED
    BY <1>1, <1>2, ChargedFacts, ConsumePlaces

LEMMA DecrementPlaces ==
  ASSUME PlacesInv, EngineInv', StpDecrement
  PROVE  /\ PlacesInv' /\ Thinner(book', book)
         /\ \A u \in 1 .. next_id : Alike(order'[u], order[u])
         /\ \A u \in Uid : u \notin {cur, Maker} => order'[u] = order[u]
         /\ order'[cur] = [order[cur] EXCEPT !.filled = @ + Overlap]
         /\ Unfilled(order'[Maker], Decremented)
         /\ order'[Maker].status = IF Remaining(Decremented) = 0 THEN "CANCELED" ELSE Decremented.status
  <1>1. Matching /\ TopLevel.queue # << >> /\ UNCHANGED <<next_id, stops, pending, pc, cur>>
    BY DEF StpDecrement, Prevents
  <1>2. Consume(Decremented, Overlap, "CANCELED") /\ "CANCELED" \in OrderStatus
    BY DEF StpDecrement, Decremented, OrderStatus
  <1>3. QED
    BY <1>1, <1>2, ChargedFacts, ConsumePlaces

-----------------------------------------------------------------------------
(* Steps that carry an order from one place to the next.                   *)

LEMMA PlaceFacts ==
  ASSUME PlacesInv
  PROVE  /\ next_id \in 0 .. MaxOrders /\ next_id \in Nat /\ order \in [Uid -> Order] /\ 1 .. next_id \subseteq Uid
         /\ BookOK(book, order, next_id) /\ Placed(book, order) /\ Named(book.map, order)
         /\ StopsOK(stops, next_id) /\ StopsPlaced(stops, order)
         /\ pending \in Seq(1 .. next_id) /\ IsInjective(pending)
         /\ ToSet(pending) \subseteq 1 .. next_id /\ OnBook(book) \subseteq 1 .. next_id
         /\ Heaped(stops) \subseteq 1 .. next_id /\ Resting(book) \subseteq OnBook(book)
         /\ Apart(ToSet(pending), OnBook(book), Heaped(stops), InHand)
  <1>1. /\ next_id \in 0 .. MaxOrders /\ BookOK(book, order, next_id) /\ StopsOK(stops, next_id)
        /\ pending \in Seq(1 .. next_id)
    BY DEF PlacesInv, EngineInv
  <1>2. order \in [Uid -> Order] /\ 1 .. next_id \subseteq Uid
    BY KnownUids DEF PlacesInv
  <1>3. ToSet(pending) \subseteq 1 .. next_id
    BY <1>1, ToSetFacts
  <1>4. OnBook(book) \subseteq 1 .. next_id
    BY <1>1, WhoRests
  <1>5. Heaped(stops) \subseteq 1 .. next_id
    BY HeapedKnown DEF PlacesInv
  <1>6. QED
    BY <1>1, <1>2, <1>3, <1>4, <1>5, BoundAssumption DEF PlacesInv, OnBook

LEMMA SubmitPlaces == ASSUME PlacesInv, EngineInv', NEW tk \in Tickets, Submit(tk) PROVE PlacesInv'
  <1> DEFINE u == next_id + 1
             o == NewOrder(tk, IdOf[u], clock + 1)
  <1>1. /\ order' = [order EXCEPT ![u] = o] /\ pending' = Append(pending, u) /\ next_id' = u
        /\ UNCHANGED <<book, stops>> /\ InHand = {} /\ InHand' = {}
    BY DEF Submit, InHand
  <1>2. u \in 1 .. u /\ u \notin 1 .. next_id /\ 1 .. next_id \subseteq 1 .. u
    BY PlaceFacts
  <1>3. \A v \in 1 .. next_id : order'[v] = order[v]
    BY <1>1, <1>2, PlaceFacts
  <1> HIDE DEF u, o
  <1>4. Placed(book, order') /\ Named(book.map, order')
    BY <1>3, PlaceFacts, Relabelled
  <1>5. StopsPlaced(stops, order')
    <2>1. /\ next_id \in 0 .. MaxOrders /\ StopsOK(stops, next_id) /\ StopsPlaced(stops, order)
      BY PlaceFacts
    <2>2. QED
      BY <1>3, <2>1, StopsRelabelled
  <1>6. pending \in Seq(1 .. u) /\ u \notin ToSet(pending)
    BY <1>2, PlaceFacts, SeqMonotonic
  <1>7. IsInjective(pending') /\ ToSet(pending') = ToSet(pending) \cup {u}
    <2> DEFINE S == 1 .. u
    <2>1. /\ IsInjective(pending) /\ pending \in Seq(S)
          /\ u \in S /\ u \notin ToSet(pending)
      BY <1>2, <1>6 DEF PlacesInv
    <2> HIDE DEF S
    <2>2. IsInjective(Append(pending, u)) /\ ToSet(Append(pending, u)) = ToSet(pending) \cup {u}
      BY <2>1, InjectiveAppend
    <2>3. QED
      BY <1>1, <2>2
  <1>8. Apart(ToSet(pending'), OnBook(book'), Heaped(stops'), InHand')
    BY <1>1, <1>2, <1>7, PlaceFacts DEF Apart
  <1>9. QED
    BY <1>1, <1>4, <1>5, <1>7, <1>8 DEF PlacesInv

LEMMA StopAdded ==
  ASSUME PlacesInv, NEW u \in 1 .. next_id
  PROVE  /\ StopsPlaced(AddStop(stops, order[u], u), order)
         /\ Heaped(AddStop(stops, order[u], u)) = Heaped(stops) \cup {u}
         /\ Mapped(AddStop(stops, order[u], u).map) \subseteq Mapped(stops.map) \cup {u}
  <1> DEFINE st == AddStop(stops, order[u], u)
  <1>1. /\ stops.map \in [OrderId -> Uid \cup {None}] /\ stops.heap \in [Side -> SUBSET Uid]
        /\ order[u] \in Order
    BY PlaceFacts DEF StopsOK, Stops
  <1>2. order[u].side \in Side /\ order[u].oid \in OrderId
    BY <1>1 DEF Order
  <1>3. Named(stops.map, order) /\ Mapped(stops.map) \subseteq Heaped(stops)
        /\ \A s \in Side : \A v \in stops.heap[s] : order[v].side = s
    BY DEF PlacesInv, StopsPlaced
  <1>4. /\ st.heap[order[u].side] = stops.heap[order[u].side] \cup {u}
        /\ \A s \in Side : s # order[u].side => st.heap[s] = stops.heap[s]
        /\ st.map[order[u].oid] = u
        /\ \A i \in OrderId : i # order[u].oid => st.map[i] = stops.map[i]
    BY <1>1, <1>2 DEF AddStop
  <1> HIDE DEF st
  <1>5. Heaped(st) = Heaped(stops) \cup {u}
    BY <1>2, <1>4 DEF Heaped, Side
  <1>6. Mapped(st.map) \subseteq Mapped(stops.map) \cup {u}
    BY <1>4 DEF Mapped
  <1>7. Named(st.map, order)
    BY <1>3, <1>4 DEF Named
  <1>8. \A s \in Side : \A v \in st.heap[s] : order[v].side = s
    BY <1>3, <1>4
  <1>9. QED
    BY <1>3, <1>5, <1>6, <1>7, <1>8 DEF StopsPlaced, st

LEMMA ParkPlaces == ASSUME PlacesInv, EngineInv', NEW u, ParkStop(u) PROVE PlacesInv'
  <1>1. /\ stops' = AddStop(stops, order[u], u) /\ pending' = Tail(pending) /\ Taking(u)
        /\ UNCHANGED <<order, next_id, book, pc, cur>>
    BY DEF ParkStop
  <1>2. /\ u \in 1 .. next_id /\ u \in ToSet(pending) /\ InHand = {} /\ IsInjective(Tail(pending))
        /\ ToSet(Tail(pending)) = ToSet(pending) \ {u}
    BY <1>1, TakenFacts
  <1>3. StopsPlaced(stops', order) /\ Heaped(stops') = Heaped(stops) \cup {u}
    BY <1>1, <1>2, StopAdded
  <1>4. InHand' = {}
    BY <1>1, <1>2 DEF InHand
  <1>5. Apart(ToSet(pending'), OnBook(book'), Heaped(stops'), InHand')
    BY <1>1, <1>2, <1>3, <1>4, PlaceFacts DEF Apart
  <1>6. QED
    BY <1>1, <1>2, <1>3, <1>5, PlaceFacts DEF PlacesInv

LEMMA StartPlaces == ASSUME PlacesInv, EngineInv', NEW u, StartMatch(u) PROVE PlacesInv'
  <1>1. /\ pending' = Tail(pending) /\ Taking(u) /\ InHand' = {u}
        /\ UNCHANGED <<order, next_id, book, stops>>
    BY DEF StartMatch, InHand
  <1>2. /\ u \in ToSet(pending) /\ IsInjective(Tail(pending))
        /\ ToSet(Tail(pending)) = ToSet(pending) \ {u}
    BY <1>1, TakenFacts
  <1>3. Apart(ToSet(pending'), OnBook(book'), Heaped(stops'), InHand')
    BY <1>1, <1>2, PlaceFacts DEF Apart
  <1>4. QED
    BY <1>1, <1>2, <1>3, PlaceFacts DEF PlacesInv

LEMMA RestPlaces ==
  ASSUME PlacesInv, EngineInv', Rest
  PROVE  /\ PlacesInv' /\ OnBook(book') \subseteq OnBook(book) \cup {cur}
         /\ Resting(book') \subseteq Resting(book) \cup {cur}
  <1>1. PICK st : order' = Marked(order, cur, st)
    BY DEF Rest
  <1>2. /\ book' = InsertOrder(book, order, cur) /\ UNCHANGED <<next_id, stops, pending, cur>>
        /\ InHand = {cur} /\ InHand' = {} /\ cur \in 1 .. next_id /\ cur \in Uid
    BY CurKnown DEF Rest, AfterResidual, InHand, PlacesInv
  <1>3. cur \notin OnBook(book) /\ cur \notin Resting(book)
    BY <1>2, PlaceFacts DEF Apart
  <1>4. /\ Placed(book', order) /\ Named(book'.map, order)
        /\ OnBook(book') \subseteq OnBook(book) \cup {cur}
        /\ Resting(book') \subseteq Resting(book) \cup {cur}
    BY <1>2, <1>3, PlaceFacts, InsertPlaced
  <1>5. BookOK(book', order, next_id)
    BY <1>2, PlaceFacts, InsertOrderOK
  <1>6. \A v \in Uid : Alike(order'[v], order[v])
    BY <1>1, <1>2, PlaceFacts, MarkedAlike DEF Unfilled, Steady
  <1>7. Placed(book', order') /\ Named(book'.map, order')
    <2>1. Resting(book') \subseteq Uid
      BY <1>4, <1>2, PlaceFacts DEF OnBook
    <2>2. \A v \in 1 .. next_id : order'[v].oid = order[v].oid
      BY <1>6, PlaceFacts DEF Alike
    <2>3. \A v \in Resting(book') : order'[v].side = order[v].side /\ order'[v].price = order[v].price
      BY <1>6, <2>1 DEF Alike
    <2>4. QED
      BY <1>4, <1>5, <2>2, <2>3, PlaceFacts, Relabelled
  <1>8. StopsPlaced(stops, order')
    <2>1. \A v \in 1 .. next_id : order'[v].oid = order[v].oid /\ order'[v].side = order[v].side
      BY <1>6, PlaceFacts DEF Alike
    <2>2. next_id \in 0 .. MaxOrders /\ StopsOK(stops, next_id) /\ StopsPlaced(stops, order)
      BY PlaceFacts
    <2>3. QED
      BY <2>1, <2>2, StopsRelabelled
  <1>9. Apart(ToSet(pending'), OnBook(book'), Heaped(stops'), InHand')
    BY <1>2, <1>4, PlaceFacts DEF Apart
  <1>10. QED
    BY <1>2, <1>4, <1>7, <1>8, <1>9, PlaceFacts DEF PlacesInv

LEMMA TriggerPlaces ==
  ASSUME PlacesInv, EngineInv', NEW u \in Uid, Trigger(u)
  PROVE  /\ PlacesInv' /\ \A v \in 1 .. next_id : Alike(order'[v], order[v])
         /\ \A v \in Uid \ {u} : order'[v] = order[v]
         /\ u \in Heaped(stops) /\ u \in 1 .. next_id /\ order'[u].filled = order[u].filled
         /\ order'[u].quantity = order[u].quantity /\ order'[u].status = "TRIGGERED"
         /\ order[u].type \in {"MARKET", "IOC"} => order'[u].type = order[u].type
         /\ order[u].oid \in OrderId /\ stops.map[order[u].oid] # None
         /\ ToSet(pending') = ToSet(pending) \cup {u} /\ InHand' = InHand
  <1> DEFINE o == Triggered(order[u], order[cur].timestamp)
  <1>1. /\ order' = [order EXCEPT ![u] = o] /\ stops' = PopStop(stops, order[u], u)
        /\ pending' = Append(pending, u) /\ u \in stops.heap[order[u].side]
        /\ UNCHANGED <<next_id, book, pc, cur>> /\ stops.map[order[u].oid] # None
    BY DEF Trigger, NextDue, IsHeapTop
  <1>2. /\ StopsPlaced(PopStop(stops, order[u], u), order) /\ Heaped(stops') = Heaped(stops) \ {u}
        /\ u \in Heaped(stops) /\ u \in 1 .. next_id
    BY <1>1, StopPopped
  <1>3. order[u] \in Order /\ order[u].oid \in OrderId
    BY PlaceFacts DEF Order
  <1>4. Unfilled(order[u], order[u]) /\ o.oid = order[u].oid /\ o.side = order[u].side
        /\ o.price = order[u].price /\ o.owner = order[u].owner /\ o.stp = order[u].stp
        /\ o.tif = order[u].tif /\ o.filled = order[u].filled /\ o.quantity = order[u].quantity
        /\ o.status = "TRIGGERED"
    BY <1>3 DEF Triggered, Order, Unfilled, Steady, Alike
  <1>17. order[u].type \in {"MARKET", "IOC"} => o.type = order[u].type
    BY <1>3 DEF Triggered, Order
  <1> HIDE DEF o
  <1>5. \A v \in Uid \ {u} : order'[v] = order[v]
    BY <1>1, PlaceFacts
  <1>6. order'[u] = o
    BY <1>1, PlaceFacts
  <1>7. \A v \in Uid : Alike(order'[v], order[v])
    BY <1>4, <1>5, <1>6, OwnAlike DEF Alike
  <1>8. /\ \A v \in 1 .. next_id : order'[v].oid = order[v].oid /\ order'[v].side = order[v].side
        /\ \A v \in 1 .. next_id : order'[v].oid = order[v].oid
        /\ \A v \in Resting(book) : order'[v].side = order[v].side /\ order'[v].price = order[v].price
    BY <1>7, PlaceFacts DEF Alike
  <1>9. Placed(book, order') /\ Named(book.map, order')
    BY <1>8, PlaceFacts, Relabelled
  <1>10. StopsPlaced(stops', order')
    <2>1. next_id' = next_id /\ StopsOK(stops', next_id) /\ next_id \in 0 .. MaxOrders
      BY <1>1, PlaceFacts DEF EngineInv
    <2>2. StopsPlaced(stops', order)
      BY <1>1, <1>2
    <2>3. QED
      BY <1>8, <2>1, <2>2, StopsRelabelled
  <1>11. u \notin ToSet(pending)
    BY <1>2, PlaceFacts DEF Apart
  <1>12. IsInjective(pending') /\ ToSet(pending') = ToSet(pending) \cup {u}
    BY <1>1, <1>2, <1>11, PlaceFacts, InjectiveAppend
  <1>13. InHand' = InHand
    BY <1>1 DEF InHand
  <1>14. Apart(ToSet(pending'), OnBook(book'), Heaped(stops'), InHand')
    BY <1>1, <1>2, <1>12, <1>13, PlaceFacts DEF Apart
  <1>15. PlacesInv'
    BY <1>1, <1>9, <1>10, <1>12, <1>14 DEF PlacesInv
  <1>16. QED
    BY <1>1, <1>2, <1>3, <1>4, <1>5, <1>6, <1>7, <1>12, <1>13, <1>15, <1>17, PlaceFacts

(* What modify_order never changes of the order it modifies.               *)
SameParty(o, p) ==
  /\ o.oid = p.oid /\ o.side = p.side /\ o.type = p.type
  /\ o.owner = p.owner /\ o.stp = p.stp /\ o.tif = p.tif

Changed(new, ord, u, p) == new = [ord EXCEPT ![u] = p]
Removed(c, b, ord, u) == c = RemoveOrder(b, ord, u)

LEMMA AmendedPlaces ==
  ASSUME PlacesInv, NEW oid \in OrderId, book.map[oid] # None,
         NEW p \in Order, SameParty(p, order[book.map[oid]]),
         NEW new, Changed(new, order, book.map[oid], p),
         NEW c, Removed(c, book, order, book.map[oid])
  PROVE  /\ new \in [Uid -> Order] /\ BookOK(c, new, next_id) /\ Placed(c, new) /\ Named(c.map, new)
         /\ StopsPlaced(stops, new) /\ OnBook(c) \subseteq OnBook(book) /\ Resting(c) \subseteq Resting(book)
         /\ book.map[oid] \notin OnBook(c)
         /\ \A v \in Uid : v # book.map[oid] => new[v] = order[v]
         /\ new[book.map[oid]] = p
  <1> DEFINE u == book.map[oid]
  <1>0. /\ next_id \in 0 .. MaxOrders /\ order \in [Uid -> Order] /\ StopsOK(stops, next_id)
        /\ BookOK(book, order, next_id) /\ Placed(book, order) /\ Named(book.map, order)
        /\ StopsPlaced(stops, order)
    BY PlaceFacts
  <1>1. u \in 1 .. next_id /\ u \in Uid /\ Thinner(c, book) /\ u \notin OnBook(c)
        /\ c = RemoveOrder(book, order, u)
    BY OnMap DEF Removed
  <1>2. BookOK(c, order, next_id)
    BY <1>0, <1>1, RemoveOrderOK DEF Removed
  <1>3. Placed(c, order) /\ Named(c.map, order) /\ OnBook(c) \subseteq OnBook(book)
        /\ Resting(c) \subseteq Resting(book)
    <2>1. /\ next_id \in 0 .. MaxOrders /\ BookOK(book, order, next_id) /\ BookOK(c, order, next_id)
          /\ Placed(book, order) /\ Named(book.map, order) /\ Thinner(c, book)
      BY <1>0, <1>1, <1>2
    <2>2. QED
      BY <2>1, ThinnerPlaced
  <1> HIDE DEF u
  <1>4. Changed(new, order, u, p) /\ SameParty(p, order[u])
    BY DEF u
  <1>5. /\ new \in [Uid -> Order] /\ new[u] = p /\ \A v \in Uid : v # u => new[v] = order[v]
    BY <1>0, <1>1, <1>4 DEF Changed
  <1>6. /\ \A v \in 1 .. next_id : new[v].oid = order[v].oid /\ new[v].side = order[v].side
        /\ \A v \in 1 .. next_id : new[v].oid = order[v].oid
        /\ \A v \in 1 .. next_id : new[v].side = order[v].side
    BY <1>4, <1>5, PlaceFacts DEF SameParty
  <1>7. u \notin Resting(c) /\ Resting(c) \subseteq Uid
    BY <1>1, <1>3, PlaceFacts DEF OnBook
  <1>8. \A v \in Resting(c) : new[v].side = order[v].side /\ new[v].price = order[v].price
    BY <1>5, <1>7
  <1>9. Placed(c, new) /\ Named(c.map, new)
    BY <1>0, <1>2, <1>3, <1>6, <1>8, Relabelled
  <1>10. StopsPlaced(stops, new)
    BY <1>0, <1>6, StopsRelabelled
  <1>11. BookOK(c, new, next_id)
    <2>1. next_id \in next_id .. MaxOrders /\ next_id \in 0 .. MaxOrders
      BY PlaceFacts, BoundAssumption
    <2>2. QED
      BY <1>2, <1>6, <2>1, BookGrows
  <1>12. QED
    BY <1>1, <1>3, <1>5, <1>9, <1>10, <1>11 DEF u

LEMMA AcrossPlaces ==
  ASSUME PlacesInv, EngineInv', NEW oid \in OrderId, NEW am \in Amendments, ModifyAcross(oid, am)
  PROVE  /\ PlacesInv' /\ \A v \in Uid : v # book.map[oid] => order'[v] = order[v]
         /\ SameParty(order'[book.map[oid]], order[book.map[oid]])
         /\ order'[book.map[oid]].filled = order[book.map[oid]].filled
         /\ order'[book.map[oid]].quantity = am.quantity
         /\ order'[book.map[oid]].status = "REPLACED" /\ OnBook(book') \subseteq OnBook(book) \ {book.map[oid]}
         /\ Resting(book') \subseteq Resting(book)
  <1> DEFINE u == book.map[oid]
             o == order[u]
             p == [o EXCEPT !.price = am.price, !.quantity = am.quantity,
                            !.display = Least(o.display, am.quantity),
                            !.timestamp = clock + 1, !.status = "REPLACED"]
  <1>1. /\ order' = [order EXCEPT ![u] = p] /\ book' = RemoveOrder(book, order, u)
        /\ pending' = Append(pending, u) /\ UNCHANGED <<next_id, stops>> /\ book.map[oid] # None
        /\ InHand = {} /\ InHand' = {}
    BY DEF ModifyAcross, Modifiable, InHand
  <1>2. u \in Uid /\ o \in Order /\ u \in 1 .. next_id /\ u \in OnBook(book) /\ am \in Amendment
    BY <1>1, OnMap, PlaceFacts, InputAssumption
  <1>3. SameParty(p, o) /\ p.filled = o.filled /\ p.quantity = am.quantity /\ p.status = "REPLACED"
    BY <1>2 DEF SameParty, Order
  <1> HIDE DEF p
  <1>4. p \in Order
    <2>1. order' \in [Uid -> Order] /\ order'[u] = p
      BY <1>1, <1>2, PlaceFacts DEF EngineInv, OrdersOK
    <2>2. QED
      BY <1>2, <2>1
  <1>a. Changed(order', order, book.map[oid], p) /\ Removed(book', book, order, book.map[oid])
        /\ book.map[oid] # None /\ SameParty(p, order[book.map[oid]])
    BY <1>1, <1>3 DEF Changed, Removed
  <1>5. /\ Placed(book', order') /\ Named(book'.map, order')
        /\ StopsPlaced(stops, order') /\ OnBook(book') \subseteq OnBook(book)
        /\ Resting(book') \subseteq Resting(book)
        /\ u \notin OnBook(book')
        /\ \A v \in Uid : v # u => order'[v] = order[v]
        /\ order'[u] = p
    BY <1>4, <1>a, AmendedPlaces
  <1> HIDE DEF u, o
  <1>6. u \notin ToSet(pending)
    BY <1>2, PlaceFacts DEF Apart
  <1>7. IsInjective(pending') /\ ToSet(pending') = ToSet(pending) \cup {u}
    <2> DEFINE S == 1 .. next_id
    <2>1. /\ IsInjective(pending) /\ pending \in Seq(S)
          /\ u \in S /\ u \notin ToSet(pending)
      BY <1>2, <1>6, PlaceFacts DEF PlacesInv
    <2> HIDE DEF S
    <2>2. IsInjective(Append(pending, u)) /\ ToSet(Append(pending, u)) = ToSet(pending) \cup {u}
      BY <2>1, InjectiveAppend
    <2>3. QED
      BY <1>1, <2>2
  <1>8. Apart(ToSet(pending'), OnBook(book'), Heaped(stops'), InHand')
    BY <1>1, <1>2, <1>5, <1>7, PlaceFacts DEF Apart
  <1>9. PlacesInv'
    BY <1>1, <1>5, <1>7, <1>8 DEF PlacesInv
  <1>10. QED
    BY <1>3, <1>5, <1>9 DEF u, o

LEMMA RequotePlaces ==
  ASSUME PlacesInv, EngineInv', NEW oid \in OrderId, NEW am \in Amendments, ModifyRequote(oid, am)
  PROVE  /\ PlacesInv' /\ \A v \in Uid : v # book.map[oid] => order'[v] = order[v]
         /\ SameParty(order'[book.map[oid]], order[book.map[oid]])
         /\ order'[book.map[oid]].filled = order[book.map[oid]].filled
         /\ order'[book.map[oid]].quantity = am.quantity
         /\ order'[book.map[oid]].status = "REPLACED" /\ OnBook(book') \subseteq OnBook(book)
         /\ Resting(book') \subseteq Resting(book) \cup {book.map[oid]}
  <1> DEFINE u == book.map[oid]
             o == order[u]
             p == Requoted(o, am, clock + 1)
             c == RemoveOrder(book, order, u)
  <1>1. /\ order' = [order EXCEPT ![u] = p] /\ book' = InsertOrder(c, order', u)
        /\ UNCHANGED <<next_id, stops, pending, pc, cur>> /\ book.map[oid] # None
    BY DEF ModifyRequote, Modifiable
  <1>2. u \in Uid /\ o \in Order /\ u \in 1 .. next_id /\ u \in OnBook(book) /\ am \in Amendment
    BY <1>1, OnMap, PlaceFacts, InputAssumption
  <1>3. SameParty(p, o) /\ p.filled = o.filled /\ p.quantity = am.quantity /\ p.status = "REPLACED"
    BY <1>2 DEF SameParty, Order, Requoted
  <1> HIDE DEF p
  <1>4. p \in Order
    <2>1. order' \in [Uid -> Order] /\ order'[u] = p
      BY <1>1, <1>2, PlaceFacts DEF EngineInv, OrdersOK
    <2>2. QED
      BY <1>2, <2>1
  <1>a. Changed(order', order, book.map[oid], p) /\ Removed(c, book, order, book.map[oid])
        /\ book.map[oid] # None /\ SameParty(p, order[book.map[oid]])
    BY <1>1, <1>3 DEF Changed, Removed
  <1> HIDE DEF c
  <1>5. /\ order' \in [Uid -> Order] /\ BookOK(c, order', next_id)
        /\ Placed(c, order') /\ Named(c.map, order')
        /\ StopsPlaced(stops, order') /\ OnBook(c) \subseteq OnBook(book)
        /\ Resting(c) \subseteq Resting(book)
        /\ u \notin OnBook(c)
        /\ \A v \in Uid : v # u => order'[v] = order[v]
        /\ order'[u] = p
    BY <1>4, <1>a, AmendedPlaces DEF c
  <1> HIDE DEF u, o
  <1>6. u \notin Resting(c)
    BY <1>5 DEF OnBook
  <1>7. /\ Placed(book', order') /\ Named(book'.map, order')
        /\ OnBook(book') \subseteq OnBook(c) \cup {u} /\ Resting(book') \subseteq Resting(c) \cup {u}
    BY <1>1, <1>2, <1>5, <1>6, PlaceFacts, InsertPlaced
  <1>8. OnBook(book') \subseteq OnBook(book)
    BY <1>2, <1>5, <1>7
  <1>9. InHand' = InHand
    BY <1>1 DEF InHand
  <1>10. Apart(ToSet(pending'), OnBook(book'), Heaped(stops'), InHand')
    BY <1>1, <1>8, <1>9, PlaceFacts DEF Apart
  <1>11. PlacesInv'
    BY <1>1, <1>5, <1>7, <1>10, PlaceFacts DEF PlacesInv
  <1>12. QED
    BY <1>3, <1>5, <1>7, <1>8, <1>11 DEF u, o

-----------------------------------------------------------------------------
(* The invariant holds, and what it says of the places.                    *)

LEMMA InitPlaces == ASSUME Init PROVE PlacesInv
  <1>1. EngineInv /\ next_id = 0 /\ book = EmptyBook /\ stops = NoStops /\ pending = << >> /\ InHand = {}
    BY InitInv DEF Init, InHand
  <1>2. \A s \in Side, t \in Tick : book.level[s][t].queue = << >>
    BY <1>1 DEF EmptyBook, NewLevel
  <1>3. Placed(book, order) /\ Resting(book) = {}
    <2>1. Placed(book, order)
      BY <1>2, EmptyQueue DEF Placed, WellQueued
    <2>2. BookOK(book, order, 0) /\ 0 \in 0 .. MaxOrders
      BY <1>1, BoundAssumption DEF EngineInv
    <2>3. \A u : u \notin Resting(book)
      <3>1. \A s \in Side, t \in Tick : ToSet(book.level[s][t].queue) = {}
        BY <1>2, EmptyQueue
      <3>2. \A u : u \in Resting(book)
                   => \E s \in Side, t \in Tick : u \in ToSet(book.level[s][t].queue)
        BY <2>2, WhoRests
      <3>3. QED
        BY <3>1, <3>2
    <2>4. QED
      BY <2>1, <2>3
  <1>4. Named(book.map, order) /\ Mapped(book.map) = {}
    BY <1>1 DEF EmptyBook, Named, Mapped
  <1>5. StopsPlaced(stops, order) /\ Heaped(stops) = {}
    BY <1>1 DEF NoStops, StopsPlaced, Named, Mapped, Heaped, Side
  <1>6. IsInjective(pending) /\ ToSet(pending) = {}
    BY <1>1, EmptyQueue
  <1>7. QED
    BY <1>1, <1>3, <1>4, <1>5, <1>6 DEF PlacesInv, OnBook, Apart

LEMMA StepPlaces == PlacesInv /\ [Next]_vars => PlacesInv'
  <1> SUFFICES ASSUME PlacesInv, [Next]_vars PROVE PlacesInv'
    OBVIOUS
  <1>1. EngineInv'
    BY StepInv DEF PlacesInv
  <1>2. CASE Call
    <2>1. ASSUME NEW oid \in OrderId, NEW am \in Amendments,
                 \/ ModifyToNothing(oid, am) \/ ModifyAcross(oid, am)
                 \/ ModifyRequote(oid, am) \/ ModifyReduce(oid, am)
          PROVE  PlacesInv'
      BY <1>1, <2>1, ModifyToNothingKeeps, AcrossPlaces, RequotePlaces, ModifyReduceKeeps
    <2>2. ASSUME NEW oid \in OrderId, Cancel(oid) PROVE PlacesInv'
      BY <1>1, <2>2, CancelKeeps
    <2>3. ASSUME NEW tk \in Tickets, Submit(tk) PROVE PlacesInv'
      BY <1>1, <2>3, SubmitPlaces
    <2>4. ASSUME NEW w \in Owner, CancelAll(w) PROVE PlacesInv'
      BY <1>1, <2>4, AsideKeeps
    <2>5. QED
      BY <1>2, <2>1, <2>2, <2>3, <2>4 DEF Call
  <1>3. CASE Step
    <2>1. ASSUME NEW u \in Uid,
                 \/ RejectInvalid(u) \/ RejectStop(u) \/ RejectUnfillable(u) \/ RejectTaker(u)
          PROVE  PlacesInv'
      <3>1. Taking(u) /\ Reject(u)
        BY <2>1 DEF RejectInvalid, RejectStop, RejectUnfillable, RejectTaker
      <3>2. QED
        BY <1>1, <3>1, RejectKeeps
    <2>2. ASSUME NEW u \in Uid, ParkStop(u) \/ StartMatch(u) \/ SkipCanceled(u) \/ Trigger(u)
          PROVE  PlacesInv'
      BY <1>1, <2>2, ParkPlaces, StartPlaces, SkipKeeps, TriggerPlaces
    <2>3. CASE DropDrained \/ StpCancelNewest \/ StpCancelOldest \/ StpDecrement \/ Execute
      BY <1>1, <2>3, DropKeeps, CancelNewestKeeps, CancelOldestKeeps, DecrementPlaces, ExecutePlaces
    <2>4. CASE Complete \/ Expire \/ Rest
      BY <1>1, <2>4, ResidualKeeps, RestPlaces
    <2>5. CASE Drained \/ MatchDone \/ NoProgress \/ TriggersDone \/ SweepStops \/ SweepDone
      BY <1>1, <2>5, AsideKeeps
    <2>6. ASSUME NEW oid \in OrderId, SweepOne(oid) PROVE PlacesInv'
      BY <1>1, <2>6, CancelKeeps
    <2>7. QED
      BY <1>3, <2>1, <2>2, <2>3, <2>4, <2>5, <2>6 DEF Step
  <1>4. CASE UNCHANGED vars
    BY <1>1, <1>4, AsideKeeps
  <1>5. QED
    BY <1>2, <1>3, <1>4 DEF Next

(* An Order object is pending, in the hands of the running call, on the    *)
(* book (in a queue or in order_map) or on a stop heap, and never in two   *)
(* of them; in a queue it stands once, under its own side and price        *)
(* (process_order, check_triggers, insert_order, modify_order).            *)
THEOREM PlacesHold == Spec => []PlacesInv
  BY InitPlaces, StepPlaces, PTL DEF Spec

(* Pending, matching, resting and waiting exclude one another: no order is *)
(* processed twice, and a triggered stop is not waiting any more.          *)
THEOREM PlacesExclude == Spec => []OnePlace
  <1>1. PlacesInv => OnePlace
    <2> SUFFICES ASSUME PlacesInv PROVE OnePlace
      OBVIOUS
    <2>1. Waiting \subseteq Heaped(stops)
      BY PlaceFacts DEF StopsPlaced, Waiting, Mapped
    <2>2. pc = "match" => cur \in InHand
      BY DEF InHand
    <2>3. QED
      BY <2>1, <2>2, PlaceFacts DEF OnePlace, Apart
  <1>2. QED
    BY <1>1, PlacesHold, PTL

=============================================================================
