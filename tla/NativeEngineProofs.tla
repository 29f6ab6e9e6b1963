------------------------- MODULE NativeEngineProofs -------------------------
(***************************************************************************)
(* The C++ core (module NativeEngine), for every tick range, arena, set of *)
(* orders and amendments, chunk size and number of calls.                  *)
(***************************************************************************)
EXTENDS NativeEngine, CommonLemmas

-----------------------------------------------------------------------------
(* The inductive invariant, in parts.                                      *)
OrderRecord ==
  [id : Nat, side : Side, type : OrderType, price : Int, quantity : Int, filled : Int, since : Nat]

Shaped(q) == q \in [Side -> [Tick -> Seq(Nat)]]

TypeOK ==
  /\ slot \in Seq(OrderRecord) /\ free \in Seq(Nat) /\ Shaped(queue)
  /\ keys \in [Side -> SUBSET Tick] /\ best \in [Side -> Tick \cup {None}]
  /\ index \in [Id -> Nat] /\ incoming \in Nat
  /\ pc \in {"idle", "match", "level", "place"}
  /\ calls \in 0 .. MaxCalls /\ executions \in Nat /\ strayed \in BOOLEAN

(* Along a level orders have stood for ever shorter.                       *)
Arranged(level, sl) == \A a, b \in 1 .. Len(level) : a < b => sl[level[a]].since < sl[level[b]].since

QueuesArranged == \A s \in Side : \A t \in Tick : Arranged(queue[s][t], slot)

(* Who stands in a level belongs there, is indexed, and came before the    *)
(* order that is being processed.                                          *)
Filed(r, s, t) ==
  /\ r \in 1 .. Len(slot) /\ slot[r].side = s /\ slot[r].price = t
  /\ slot[r].id \in Id /\ index[slot[r].id] = r
  /\ slot[r].since <= calls /\ (pc # "idle" => slot[r].since < calls)

QueuedAreFiled == \A s \in Side : \A t \in Tick : \A r \in ToSet(queue[s][t]) : Filed(r, s, t)

Found(i) ==
  /\ index[i] \in 1 .. Len(slot) /\ slot[index[i]].id = i /\ i <= calls
  /\ slot[index[i]].price \in Tick
  /\ index[i] \in ToSet(queue[slot[index[i]].side][slot[index[i]].price])

IndexedAreFound == \A i \in Id : index[i] # Null => Found(i)

(* Free slots are distinct and nobody's; there are no others.              *)
FreeAreFree ==
  /\ IsInjective(free)
  /\ \A r \in ToSet(free) : r \in 1 .. Len(slot) /\ r # incoming /\ \A i \in Id : index[i] # r

SlotsUsed == \A r \in 1 .. Len(slot) : r \in ToSet(free) \/ r = incoming \/ \E i \in Id : index[i] = r

HandHeld ==
  /\ pc = "idle" <=> incoming = Null
  /\ pc # "idle" =>
       /\ incoming \in 1 .. Len(slot) /\ calls \in Id /\ index[calls] = Null
       /\ Taker.id = calls /\ Taker.since = calls
       /\ Taker.type # "MARKET" => Taker.price \in Tick
       /\ \A i \in Id : index[i] # incoming
  /\ pc = "level" => Touch # None

(* The cached best tick of a side bounds its occupied ticks, all of them   *)
(* in the arena, and is occupied itself; only while its level is being     *)
(* matched may it have run empty.                                          *)
Bounds(q, ks, b, s) ==
  /\ ks[s] = {}
  /\ \A t \in Tick : q[s][t] # <<>> => t \in Arena /\ b[s] # None /\ ~Better(s, t, b[s])
  /\ b[s] # None => b[s] \in Arena

Stands(q, b, s) == b[s] # None => q[s][b[s]] # <<>>

CacheHolds ==
  ~strayed => \A s \in Side : Bounds(queue, keys, best, s) /\ (Stands(queue, best, s) \/ (pc = "level" /\ s = Facing))

NativeInv ==
  /\ TypeOK /\ QueuesArranged /\ QueuedAreFiled /\ IndexedAreFound
  /\ FreeAreFree /\ SlotsUsed /\ HandHeld /\ CacheHolds

-----------------------------------------------------------------------------
(* Extrema.                                                                *)
LEMMA MinOfTwo ==
  ASSUME NEW a \in Int, NEW b \in Int
  PROVE  /\ Min({a, b}) \in {a, b} /\ Min({a, b}) \in Int
         /\ Min({a, b}) <= a /\ Min({a, b}) <= b
<1>1. \E x \in {a, b} : \A y \in {a, b} : x <= y
  <2>1. CASE a <= b
    BY <2>1
  <2>2. CASE b <= a
    BY <2>2
  <2>3. QED
    BY <2>1, <2>2
<1>2. Min({a, b}) \in {a, b} /\ \A y \in {a, b} : Min({a, b}) <= y
  BY <1>1 DEF Min
<1>3. QED
  BY <1>2

LEMMA TicksAreNat == Tick \subseteq Nat /\ None \notin Tick
BY NativeAssumption DEF None

(* BestOf picks a tick of its set that none of the others betters.         *)
LEMMA BestOfFacts ==
  ASSUME NEW s \in Side, NEW T \in SUBSET Tick, T # {}
  PROVE  /\ BestOf(s, T) \in T
         /\ \A u \in T : ~Better(s, u, BestOf(s, T))
<1>1. T \subseteq Nat /\ \A t \in T : t <= LastTick
  BY NativeAssumption
<1>2. \E t \in T : \A u \in T \ {t} : Better(s, t, u)
  <2>1. CASE s = "SELL"
    <3>1. PICK t \in T : \A u \in T : t <= u
      BY <1>1, LeastNat
    <3>2. \A u \in T \ {t} : t < u
      BY <3>1, <1>1
    <3>3. QED
      BY <2>1, <3>2 DEF Better
  <2>2. CASE s = "BUY"
    <3> DEFINE D == {LastTick - t : t \in T}
    <3>0. LastTick \in Nat
      BY NativeAssumption
    <3>a. \A t \in T : LastTick - t \in Nat
      BY <1>1, <3>0
    <3>1. D \in SUBSET Nat /\ D # {}
      BY <3>a
    <3>2. PICK d \in D : \A e \in D : d <= e
      BY <3>1, LeastNat
    <3>3. PICK t \in T : d = LastTick - t
      BY <3>2
    <3>4. \A u \in T : LastTick - t <= LastTick - u
      BY <3>2, <3>3
    <3>5. \A u \in T \ {t} : t > u
      BY <3>4, <1>1, NativeAssumption
    <3>6. QED
      BY <2>2, <3>5 DEF Better
  <2>3. QED
    BY <2>1, <2>2 DEF Side
<1>3. BestOf(s, T) \in T /\ \A u \in T \ {BestOf(s, T)} : Better(s, BestOf(s, T), u)
  BY <1>2 DEF BestOf
<1>4. ASSUME NEW u \in T PROVE ~Better(s, u, BestOf(s, T))
  <2>1. u \in Nat /\ BestOf(s, T) \in Nat
    BY <1>1, <1>3
  <2>2. QED
    BY <1>3, <2>1 DEF Better
<1>5. QED
  BY <1>3, <1>4

-----------------------------------------------------------------------------
(* Levels.                                                                 *)
LEMMA ArrangedDistinct ==
  ASSUME NEW level \in Seq(Nat), NEW sl, Arranged(level, sl),
         \A r \in ToSet(level) : sl[r].since \in Int
  PROVE  \A a, b \in 1 .. Len(level) : a < b => level[a] # level[b]
<1>1. SUFFICES ASSUME NEW a \in 1 .. Len(level), NEW b \in 1 .. Len(level), a < b, level[a] = level[b]
               PROVE  FALSE
  OBVIOUS
<1>2. sl[level[a]].since \in Int
  BY ToSetFacts
<1>3. sl[level[a]].since < sl[level[b]].since
  BY <1>1 DEF Arranged
<1>4. QED
  BY <1>1, <1>2, <1>3

(* Removing somebody keeps the others in their order.                      *)
LEMMA RemovalArranged ==
  ASSUME NEW level \in Seq(Nat), NEW sl, Arranged(level, sl),
         \A r \in ToSet(level) : sl[r].since \in Int,
         NEW k \in 1 .. Len(level)
  PROVE  /\ RemoveAt(level, k) \in Seq(Nat) /\ Arranged(RemoveAt(level, k), sl)
         /\ ToSet(RemoveAt(level, k)) = ToSet(level) \ {level[k]}
<1> DEFINE w == RemoveAt(level, k)
           at(i) == IF i < k THEN i ELSE i + 1
<1>1. /\ w \in Seq(Nat) /\ Len(w) = Len(level) - 1 /\ Len(level) \in Nat
      /\ \A i \in 1 .. Len(level) - 1 : w[i] = IF i < k THEN level[i] ELSE level[i + 1]
  BY RemoveAtFacts, LenProperties
<1>2. ToSet(w) = ToSet(level) \ {level[k]}
  BY ArrangedDistinct, RemoveAtSet
<1> HIDE DEF w
<1>3. ASSUME NEW a \in 1 .. Len(w), NEW b \in 1 .. Len(w), a < b
      PROVE  sl[w[a]].since < sl[w[b]].since
  <2>1. at(a) \in 1 .. Len(level) /\ at(b) \in 1 .. Len(level) /\ at(a) < at(b)
    BY <1>1, <1>3
  <2>2. w[a] = level[at(a)] /\ w[b] = level[at(b)]
    BY <1>1
  <2>3. QED
    BY <2>1, <2>2 DEF Arranged
<1>4. Arranged(w, sl)
  BY <1>3 DEF Arranged
<1>5. QED
  BY <1>1, <1>2, <1>4 DEF w

LEMMA WithoutArranged ==
  ASSUME NEW level \in Seq(Nat), NEW sl, Arranged(level, sl),
         \A r \in ToSet(level) : sl[r].since \in Int,
         NEW s \in ToSet(level)
  PROVE  /\ Without(level, s) \in Seq(Nat) /\ Arranged(Without(level, s), sl)
         /\ ToSet(Without(level, s)) = ToSet(level) \ {s}
<1> DEFINE k == CHOOSE i \in DOMAIN level : level[i] = s
<1>1. DOMAIN level = 1 .. Len(level) /\ \E i \in 1 .. Len(level) : level[i] = s
  BY LenProperties, ToSetFacts
<1>2. k \in 1 .. Len(level) /\ level[k] = s
  BY <1>1
<1>3. Without(level, s) = RemoveAt(level, k)
  BY DEF Without
<1> HIDE DEF k
<1>4. QED
  BY <1>2, <1>3, RemovalArranged

LEMMA TailArranged ==
  ASSUME NEW level \in Seq(Nat), NEW sl, Arranged(level, sl), level # <<>>,
         \A r \in ToSet(level) : sl[r].since \in Int
  PROVE  /\ Tail(level) \in Seq(Nat) /\ Arranged(Tail(level), sl)
         /\ ToSet(Tail(level)) = ToSet(level) \ {Head(level)}
         /\ Head(level) \in ToSet(level)
<1>1. Tail(level) = RemoveAt(level, 1) /\ Head(level) = level[1] /\ 1 \in 1 .. Len(level)
  BY TailIsRemoveAt
<1>2. /\ RemoveAt(level, 1) \in Seq(Nat) /\ Arranged(RemoveAt(level, 1), sl)
      /\ ToSet(RemoveAt(level, 1)) = ToSet(level) \ {level[1]}
  BY <1>1, RemovalArranged
<1>3. level[1] \in ToSet(level)
  BY <1>1, ToSetFacts
<1>4. QED
  BY <1>1, <1>2, <1>3

(* Who is last to come joins the tail.                                     *)
LEMMA AppendArranged ==
  ASSUME NEW level \in Seq(Nat), NEW sl, Arranged(level, sl), NEW s \in Nat,
         \A r \in ToSet(level) : sl[r].since < sl[s].since
  PROVE  Arranged(Append(level, s), sl)
<1>1. /\ Len(Append(level, s)) = Len(level) + 1 /\ Len(level) \in Nat
      /\ \A i \in 1 .. Len(level) : Append(level, s)[i] = level[i]
      /\ Append(level, s)[Len(level) + 1] = s
  BY AppendFacts, LenProperties
<1>2. \A i \in 1 .. Len(level) : level[i] \in ToSet(level)
  BY ToSetFacts
<1>3. ASSUME NEW a \in 1 .. Len(level) + 1, NEW b \in 1 .. Len(level) + 1, a < b
      PROVE  sl[Append(level, s)[a]].since < sl[Append(level, s)[b]].since
  <2>1. a \in 1 .. Len(level) /\ Append(level, s)[a] = level[a]
    BY <1>1, <1>3
  <2>2. CASE b = Len(level) + 1
    BY <2>1, <2>2, <1>1, <1>2
  <2>3. CASE b \in 1 .. Len(level)
    BY <2>1, <2>3, <1>1, <1>3 DEF Arranged
  <2>4. QED
    BY <2>2, <2>3, <1>1
<1>4. QED
  BY <1>1, <1>3 DEF Arranged

(* Only the times of who stands in a level matter to it.                   *)
LEMMA ArrangedAgree ==
  ASSUME NEW level \in Seq(Nat), NEW sl, NEW sm, Arranged(level, sl),
         \A r \in ToSet(level) : sm[r].since = sl[r].since
  PROVE  Arranged(level, sm)
<1>1. \A i \in 1 .. Len(level) : sm[level[i]].since = sl[level[i]].since
  BY ToSetFacts
<1>2. QED
  BY <1>1 DEF Arranged

-----------------------------------------------------------------------------
(* Taking an order out of its level.                                       *)
Removes(q, s) ==
  /\ Shaped(q)
  /\ \A sd \in Side : \A t \in Tick :
        Arranged(q[sd][t], slot) /\ ToSet(q[sd][t]) = ToSet(queue[sd][t]) \ {s}

LEMMA ContraSide == ASSUME NEW s \in Side PROVE Contra(s) \in Side /\ Contra(s) # s
BY DEF Side, Contra

LEMMA SlotType ==
  ASSUME TypeOK, NEW r \in 1 .. Len(slot)
  PROVE  /\ slot[r] \in OrderRecord /\ slot[r].since \in Nat /\ slot[r].id \in Nat /\ slot[r].side \in Side
         /\ slot[r].price \in Int /\ Remaining(slot[r]) \in Int /\ r # Null /\ r \in Nat
<1>1. slot[r] \in OrderRecord /\ Len(slot) \in Nat
  BY ElementOfSeq, LenProperties DEF TypeOK
<1>2. QED
  BY <1>1 DEF OrderRecord, Remaining, Null

LEMMA LevelType ==
  ASSUME NEW q, Shaped(q), NEW s \in Side, NEW t \in Tick
  PROVE  q[s][t] \in Seq(Nat)
BY DEF Shaped

LEMMA StandingTimes ==
  ASSUME NativeInv, NEW s \in Side, NEW t \in Tick
  PROVE  /\ queue[s][t] \in Seq(Nat) /\ Arranged(queue[s][t], slot)
         /\ \A r \in ToSet(queue[s][t]) : slot[r].since \in Int
<1>1. queue[s][t] \in Seq(Nat) /\ Arranged(queue[s][t], slot)
  BY LevelType DEF NativeInv, TypeOK, QueuesArranged
<1>2. ASSUME NEW r \in ToSet(queue[s][t]) PROVE slot[r].since \in Int
  <2>1. r \in 1 .. Len(slot)
    BY DEF NativeInv, QueuedAreFiled, Filed
  <2>2. QED
    BY <2>1, SlotType DEF NativeInv
<1>3. QED
  BY <1>1, <1>2

(* A level that loses s, and the others, which never held it.              *)
LEMMA LevelRemoves ==
  ASSUME NativeInv, NEW sd \in Side, NEW t \in Tick, NEW s \in ToSet(queue[sd][t]),
         NEW w \in Seq(Nat), Arranged(w, slot), ToSet(w) = ToSet(queue[sd][t]) \ {s}
  PROVE  Removes([queue EXCEPT ![sd][t] = w], s)
<1> DEFINE q == [queue EXCEPT ![sd][t] = w]
<1>1. Shaped(queue)
  BY DEF NativeInv, TypeOK
<1>2. \A u \in Side : \A v \in Tick : q[u][v] = IF u = sd /\ v = t THEN w ELSE queue[u][v]
  BY <1>1 DEF Shaped
<1>3. Shaped(q)
  BY <1>1 DEF Shaped
<1> HIDE DEF q
<1>4. ASSUME NEW u \in Side, NEW v \in Tick
      PROVE  Arranged(q[u][v], slot) /\ ToSet(q[u][v]) = ToSet(queue[u][v]) \ {s}
  <2>1. CASE u = sd /\ v = t
    BY <2>1, <1>2
  <2>2. CASE ~(u = sd /\ v = t)
    <3>1. q[u][v] = queue[u][v]
      BY <2>2, <1>2
    <3>2. s \notin ToSet(queue[u][v])
      <4>1. slot[s].side = sd /\ slot[s].price = t
        BY DEF NativeInv, QueuedAreFiled, Filed
      <4>2. s \in ToSet(queue[u][v]) => slot[s].side = u /\ slot[s].price = v
        BY DEF NativeInv, QueuedAreFiled, Filed
      <4>3. QED
        BY <4>1, <4>2, <2>2
    <3>3. QED
      BY <3>1, <3>2, StandingTimes
  <2>3. QED
    BY <2>1, <2>2
<1>5. QED
  BY <1>3, <1>4 DEF Removes, q

LEMMA FoundFacts ==
  ASSUME NativeInv, NEW i \in Id, index[i] # Null
  PROVE  /\ index[i] \in 1 .. Len(slot) /\ slot[index[i]].id = i
         /\ slot[index[i]].side \in Side /\ slot[index[i]].price \in Tick
         /\ index[i] \in ToSet(queue[slot[index[i]].side][slot[index[i]].price])
<1>1. Found(i)
  BY DEF NativeInv, IndexedAreFound
<1>2. QED
  BY <1>1, SlotType DEF Found, NativeInv

LEMMA UnlinkedRemoves ==
  ASSUME NativeInv, NEW i \in Id, index[i] # Null
  PROVE  Removes(Unlinked(index[i]), index[i])
<1> DEFINE s == index[i]
           sd == slot[s].side
           t == slot[s].price
           w == Without(queue[sd][t], s)
<1>1. sd \in Side /\ t \in Tick /\ s \in ToSet(queue[sd][t])
  BY FoundFacts
<1>2. w \in Seq(Nat) /\ Arranged(w, slot) /\ ToSet(w) = ToSet(queue[sd][t]) \ {s}
  BY <1>1, StandingTimes, WithoutArranged
<1>3. Unlinked(s) = [queue EXCEPT ![sd][t] = w]
  BY DEF Unlinked
<1> HIDE DEF s, sd, t, w
<1>4. Removes([queue EXCEPT ![sd][t] = w], s)
  BY <1>1, <1>2, LevelRemoves
<1>5. QED
  BY <1>3, <1>4 DEF s

(* The head of the level that is being matched.                            *)
LEMMA HeadFacts ==
  ASSUME NativeInv, pc = "level", TouchQueue # <<>>
  PROVE  /\ Facing \in Side /\ Touch \in Tick
         /\ Head(TouchQueue) \in ToSet(TouchQueue) /\ Filed(Head(TouchQueue), Facing, Touch)
         /\ Removes([queue EXCEPT ![Facing][Touch] = Tail(@)], Head(TouchQueue))
         /\ Head(TouchQueue) # incoming
<1>1. incoming \in 1 .. Len(slot) /\ Touch # None
  BY DEF NativeInv, HandHeld
<1>2. Facing \in Side
  BY <1>1, SlotType, ContraSide DEF NativeInv, Facing, Taker
<1>3. Touch \in Tick
  BY <1>1, <1>2 DEF NativeInv, TypeOK, Touch
<1>4. /\ TouchQueue \in Seq(Nat) /\ Arranged(TouchQueue, slot)
      /\ \A r \in ToSet(TouchQueue) : slot[r].since \in Int
  BY <1>2, <1>3, StandingTimes DEF TouchQueue
<1>5. /\ Tail(TouchQueue) \in Seq(Nat) /\ Arranged(Tail(TouchQueue), slot)
      /\ ToSet(Tail(TouchQueue)) = ToSet(TouchQueue) \ {Head(TouchQueue)}
      /\ Head(TouchQueue) \in ToSet(TouchQueue)
  BY <1>4, TailArranged
<1>6. Filed(Head(TouchQueue), Facing, Touch)
  BY <1>2, <1>3, <1>5 DEF NativeInv, QueuedAreFiled, TouchQueue
<1>7. Removes([queue EXCEPT ![Facing][Touch] = Tail(TouchQueue)], Head(TouchQueue))
  BY <1>2, <1>3, <1>5, LevelRemoves DEF TouchQueue
<1>8. Head(TouchQueue) # incoming
  BY <1>6 DEF Filed, NativeInv, HandHeld
<1>9. [queue EXCEPT ![Facing][Touch] = Tail(@)] = [queue EXCEPT ![Facing][Touch] = Tail(TouchQueue)]
  BY DEF TouchQueue
<1>10. QED
  BY <1>2, <1>3, <1>5, <1>6, <1>7, <1>8, <1>9

-----------------------------------------------------------------------------
(* The cached best ticks.                                                  *)
LEMMA OccupiedTicks ==
  ASSUME NEW q, NEW s, NEW T
  PROVE  Occupied(q, s, T) \subseteq T /\ \A t \in T : t \in Occupied(q, s, T) <=> q[s][t] # <<>>
BY DEF Occupied

(* Whatever the book, the search ends at a tick or at none.                *)
LEMMA NextBestType ==
  ASSUME NEW s \in Side, NEW q, NEW ks, ks[s] \in SUBSET Tick
  PROVE  NextBest(q, ks, s) \in Tick \cup {None}
<1> DEFINE found == {t \in Occupied(q, s, Arena) : ~Better(s, t, best[s])}
<1>1. found \in SUBSET Tick
  BY OccupiedTicks, NativeAssumption
<1>2. found # {} => BestOf(s, found) \in Tick
  BY <1>1, BestOfFacts
<1>3. ks[s] # {} => BestOf(s, ks[s]) \in Tick
  BY BestOfFacts
<1>4. NextBest(q, ks, s) = IF best[s] \in Arena /\ found # {} THEN BestOf(s, found)
                           ELSE IF ks[s] = {} THEN None ELSE BestOf(s, ks[s])
  BY DEF NextBest
<1> HIDE DEF found
<1>5. QED
  BY <1>2, <1>3, <1>4

(* Within the arena it ends at the best occupied tick.                     *)
LEMMA NextBestFacts ==
  ASSUME TypeOK, NEW s \in Side, NEW q, NEW ks, NEW b, Bounds(q, ks, best, s),
         b = [best EXCEPT ![s] = NextBest(q, ks, s)], best[s] # None
  PROVE  Bounds(q, ks, b, s) /\ Stands(q, b, s)
<1> DEFINE found == {t \in Occupied(q, s, Arena) : ~Better(s, t, best[s])}
<1>1. found \in SUBSET Tick /\ found \subseteq Arena
  BY OccupiedTicks, NativeAssumption
<1>2. \A t \in Tick : t \in found <=> q[s][t] # <<>>
  BY OccupiedTicks DEF Bounds
<1>3. best[s] \in Arena /\ ks[s] = {}
  BY DEF Bounds
<1>4. b[s] = IF found # {} THEN BestOf(s, found) ELSE None
  BY <1>3 DEF NextBest, TypeOK
<1> HIDE DEF found
<1>5. CASE found = {}
  BY <1>5, <1>2, <1>3, <1>4 DEF Bounds, Stands
<1>6. CASE found # {}
  <2>1. BestOf(s, found) \in found /\ \A u \in found : ~Better(s, u, BestOf(s, found))
    BY <1>1, <1>6, BestOfFacts
  <2>2. b[s] \in Tick /\ b[s] # None /\ b[s] \in Arena /\ q[s][b[s]] # <<>>
    BY <2>1, <1>1, <1>2, <1>4, <1>6, TicksAreNat
  <2>3. \A t \in Tick : q[s][t] # <<>> => t \in Arena /\ ~Better(s, t, b[s])
    BY <2>1, <1>1, <1>2, <1>4, <1>6
  <2>4. QED
    BY <2>2, <2>3, <1>3 DEF Bounds, Stands
<1>7. QED
  BY <1>5, <1>6

(* update_best_* after a level may have run empty.                         *)
LEMMA UpdatedFacts ==
  ASSUME TypeOK, NEW s \in Side, NEW t, NEW q, NEW ks, ks[s] \in SUBSET Tick
  PROVE  /\ Updated(q, ks, s, t) \in [Side -> Tick \cup {None}]
         /\ \A u \in Side \ {s} : Updated(q, ks, s, t)[u] = best[u]
         /\ Bounds(q, ks, best, s) /\ t # None /\ (best[s] # t => Stands(q, best, s))
              => Bounds(q, ks, Updated(q, ks, s, t), s) /\ Stands(q, Updated(q, ks, s, t), s)
<1> DEFINE b == [best EXCEPT ![s] = NextBest(q, ks, s)]
<1>1. CASE best[s] = t /\ q[s][t] = <<>>
  <2>1. Updated(q, ks, s, t) = b
    BY <1>1 DEF Updated
  <2>2. NextBest(q, ks, s) \in Tick \cup {None}
    BY NextBestType
  <2>3. b \in [Side -> Tick \cup {None}] /\ \A u \in Side \ {s} : b[u] = best[u]
    BY <2>2 DEF TypeOK
  <2>4. Bounds(q, ks, best, s) /\ t # None => Bounds(q, ks, b, s) /\ Stands(q, b, s)
    BY <1>1, NextBestFacts
  <2> HIDE DEF b
  <2>5. QED
    BY <2>1, <2>3, <2>4
<1>2. CASE ~(best[s] = t /\ q[s][t] = <<>>)
  <2>1. Updated(q, ks, s, t) = best
    BY <1>2 DEF Updated
  <2>2. (best[s] # t => Stands(q, best, s)) => Stands(q, best, s)
    BY <1>2 DEF Stands
  <2>3. QED
    BY <2>1, <2>2 DEF TypeOK
<1>3. QED
  BY <1>1, <1>2

(* insert_order: the new tick becomes the best one if it betters it.       *)
LEMMA RaisedFacts ==
  ASSUME NEW s \in Side, NEW t \in Tick, NEW b \in [Side -> Tick \cup {None}]
  PROVE  /\ Raised(b, s, t) \in [Side -> Tick \cup {None}]
         /\ \A u \in Side \ {s} : Raised(b, s, t)[u] = b[u]
         /\ \A q, q2, ks :
              /\ Bounds(q, ks, b, s) /\ Stands(q, b, s) /\ t \in Arena
              /\ q2[s][t] # <<>> /\ \A v \in Tick \ {t} : q2[s][v] = q[s][v]
              => Bounds(q2, KeysWith(ks, s, t), Raised(b, s, t), s) /\ Stands(q2, Raised(b, s, t), s)
<1>1. /\ Raised(b, s, t) \in [Side -> Tick \cup {None}]
      /\ \A u \in Side \ {s} : Raised(b, s, t)[u] = b[u]
  BY DEF Raised
<1>2. ASSUME NEW q, NEW q2, NEW ks,
             Bounds(q, ks, b, s), Stands(q, b, s), t \in Arena,
             q2[s][t] # <<>>, \A v \in Tick \ {t} : q2[s][v] = q[s][v]
      PROVE  Bounds(q2, KeysWith(ks, s, t), Raised(b, s, t), s) /\ Stands(q2, Raised(b, s, t), s)
  <2>1. KeysWith(ks, s, t)[s] = {}
    BY <1>2 DEF KeysWith, Bounds
  <2>2. Tick \subseteq Nat /\ t # None /\ b[s] \in Tick \cup {None}
    BY TicksAreNat
  <2>3. CASE b[s] = None \/ Better(s, t, b[s])
    <3>1. Raised(b, s, t)[s] = t
      BY <2>3 DEF Raised
    <3>2. \A v \in Tick : q2[s][v] # <<>> => v \in Arena /\ ~Better(s, v, t)
      <4>1. SUFFICES ASSUME NEW v \in Tick, q2[s][v] # <<>> PROVE v \in Arena /\ ~Better(s, v, t)
        OBVIOUS
      <4>2. CASE v = t
        BY <4>2, <1>2, <2>2 DEF Better
      <4>3. CASE v # t
        <5>1. v \in Arena /\ b[s] # None /\ ~Better(s, v, b[s])
          BY <4>1, <4>3, <1>2 DEF Bounds
        <5>2. v \in Nat /\ t \in Nat /\ b[s] \in Nat
          BY <5>1, <2>2
        <5>3. QED
          BY <5>1, <5>2, <2>3 DEF Better
      <4>4. QED
        BY <4>2, <4>3
    <3>3. QED
      BY <3>1, <3>2, <2>1, <2>2, <1>2 DEF Bounds, Stands
  <2>4. CASE ~(b[s] = None \/ Better(s, t, b[s]))
    <3>1. Raised(b, s, t) = b
      BY <2>4 DEF Raised
    <3>2. b[s] \in Arena /\ b[s] # None /\ q2[s][b[s]] # <<>>
      BY <2>4, <2>2, <1>2 DEF Bounds, Stands
    <3>3. \A v \in Tick : q2[s][v] # <<>> => v \in Arena /\ ~Better(s, v, b[s])
      BY <2>4, <1>2 DEF Bounds
    <3>4. QED
      BY <3>1, <3>2, <3>3, <2>1 DEF Bounds, Stands
  <2>5. QED
    BY <2>3, <2>4
<1>3. QED
  BY <1>1, <1>2

-----------------------------------------------------------------------------
(* What the steps do to the parts of the invariant.  Orders that stay what *)
(* they are but for their lots are alike.                                  *)
Alike ==
  /\ slot' \in Seq(OrderRecord) /\ Len(slot') = Len(slot)
  /\ \A r \in 1 .. Len(slot) :
       /\ slot'[r].id = slot[r].id /\ slot'[r].side = slot[r].side /\ slot'[r].type = slot[r].type
       /\ slot'[r].price = slot[r].price /\ slot'[r].since = slot[r].since

BookHolds == QueuesArranged /\ QueuedAreFiled /\ IndexedAreFound

LEMMA SameIsAlike == ASSUME TypeOK, UNCHANGED slot PROVE Alike
BY DEF TypeOK, Alike

LEMMA BookKept ==
  ASSUME NativeInv, Alike, UNCHANGED <<queue, index, calls>>, pc' # "idle" => pc # "idle"
  PROVE  BookHolds'
<1>1. QueuesArranged'
  <2>1. SUFFICES ASSUME NEW s \in Side, NEW t \in Tick PROVE Arranged(queue[s][t], slot')
    BY DEF QueuesArranged
  <2>2. \A r \in ToSet(queue[s][t]) : slot'[r].since = slot[r].since
    BY DEF NativeInv, QueuedAreFiled, Filed, Alike
  <2>3. queue[s][t] \in Seq(Nat) /\ Arranged(queue[s][t], slot)
    BY StandingTimes
  <2>4. QED
    BY <2>2, <2>3, ArrangedAgree
<1>2. QueuedAreFiled'
  <2>1. SUFFICES ASSUME NEW s \in Side, NEW t \in Tick, NEW r \in ToSet(queue'[s][t]) PROVE Filed(r, s, t)'
    BY DEF QueuedAreFiled
  <2>2. Filed(r, s, t)
    BY DEF NativeInv, QueuedAreFiled
  <2>3. QED
    BY <2>2 DEF Filed, Alike
<1>3. IndexedAreFound'
  BY DEF NativeInv, IndexedAreFound, Found, Alike
<1>4. QED
  BY <1>1, <1>2, <1>3 DEF BookHolds

LEMMA BookLess ==
  ASSUME NativeInv, Alike, NEW i \in Id, index[i] # Null, Removes(queue', index[i]),
         index' = [index EXCEPT ![i] = Null], calls' = calls, pc' # "idle" => pc # "idle"
  PROVE  BookHolds'
<1>1. /\ \A s \in Side : \A t \in Tick :
             Arranged(queue'[s][t], slot) /\ ToSet(queue'[s][t]) = ToSet(queue[s][t]) \ {index[i]}
      /\ Shaped(queue')
  BY DEF Removes
<1>2. index'[i] = Null /\ \A j \in Id \ {i} : index'[j] = index[j]
  BY DEF NativeInv, TypeOK
<1>3. QueuesArranged'
  <2>1. SUFFICES ASSUME NEW s \in Side, NEW t \in Tick PROVE Arranged(queue'[s][t], slot')
    BY DEF QueuesArranged
  <2>2. \A r \in ToSet(queue'[s][t]) : slot'[r].since = slot[r].since
    BY <1>1 DEF NativeInv, QueuedAreFiled, Filed, Alike
  <2>3. queue'[s][t] \in Seq(Nat)
    BY <1>1 DEF Shaped
  <2>4. QED
    BY <1>1, <2>2, <2>3, ArrangedAgree
<1>4. QueuedAreFiled'
  <2>1. SUFFICES ASSUME NEW s \in Side, NEW t \in Tick, NEW r \in ToSet(queue'[s][t]) PROVE Filed(r, s, t)'
    BY DEF QueuedAreFiled
  <2>2. Filed(r, s, t) /\ r # index[i]
    BY <1>1 DEF NativeInv, QueuedAreFiled
  <2>3. slot[r].id # i
    BY <2>2 DEF Filed
  <2>4. QED
    BY <2>2, <2>3, <1>2 DEF Filed, Alike
<1>5. IndexedAreFound'
  <2>1. SUFFICES ASSUME NEW j \in Id, index'[j] # Null PROVE Found(j)'
    BY DEF IndexedAreFound
  <2>2. j # i /\ index'[j] = index[j] /\ index[j] # Null
    BY <2>1, <1>2
  <2>3. Found(j) /\ Found(i)
    BY <2>2 DEF NativeInv, IndexedAreFound
  <2>4. index[j] # index[i]
    BY <2>2, <2>3 DEF Found
  <2>5. slot[index[j]].side \in Side /\ slot[index[j]].price \in Tick
    BY <2>2, FoundFacts
  <2>6. index[j] \in ToSet(queue'[slot[index[j]].side][slot[index[j]].price])
    BY <1>1, <2>3, <2>4, <2>5 DEF Found
  <2>7. QED
    BY <2>2, <2>3, <2>6 DEF Found, Alike
<1>6. QED
  BY <1>3, <1>4, <1>5 DEF BookHolds

LEMMA FreeKept ==
  ASSUME NativeInv, UNCHANGED <<free, index, incoming>>, Len(slot') = Len(slot)
  PROVE  FreeAreFree' /\ SlotsUsed'
BY DEF NativeInv, FreeAreFree, SlotsUsed

LEMMA DeallocateFacts ==
  ASSUME NEW list \in Seq(Nat), NEW s \in Nat
  PROVE  /\ Deallocate(s, list) \in Seq(Nat)
         /\ ToSet(Deallocate(s, list)) = ToSet(list) \cup {s}
         /\ IsInjective(list) /\ s \notin ToSet(list) => IsInjective(Deallocate(s, list))
<1> DEFINE d == <<s>> \o list
<1>1. <<s>> \in Seq(Nat) /\ Len(<<s>>) = 1 /\ <<s>>[1] = s
  OBVIOUS
<1>2. /\ d \in Seq(Nat) /\ Len(d) = 1 + Len(list) /\ Len(list) \in Nat
      /\ \A k \in 1 .. 1 + Len(list) : d[k] = IF k <= 1 THEN <<s>>[k] ELSE list[k - 1]
  BY <1>1, ConcatProperties, LenProperties
<1> HIDE DEF d
<1>3. d[1] = s /\ \A k \in 1 .. Len(list) : d[k + 1] = list[k]
  BY <1>1, <1>2
<1>4. DOMAIN d = 1 .. Len(d) /\ DOMAIN list = 1 .. Len(list)
  BY <1>2, LenProperties
<1>5. ToSet(d) = ToSet(list) \cup {s}
  <2>1. ASSUME NEW x \in ToSet(d) PROVE x \in ToSet(list) \cup {s}
    <3>1. PICK k \in 1 .. Len(d) : d[k] = x
      BY <1>2, ToSetFacts
    <3>2. CASE k = 1
      BY <3>1, <3>2, <1>3
    <3>3. CASE k # 1
      <4>1. k - 1 \in 1 .. Len(list) /\ list[k - 1] = x
        BY <3>1, <3>3, <1>2
      <4>2. QED
        BY <4>1, ToSetFacts
    <3>4. QED
      BY <3>2, <3>3
  <2>2. ASSUME NEW x \in ToSet(list) PROVE x \in ToSet(d)
    <3>1. PICK k \in 1 .. Len(list) : list[k] = x
      BY ToSetFacts
    <3>2. k + 1 \in 1 .. Len(d) /\ d[k + 1] = x
      BY <3>1, <1>2, <1>3
    <3>3. QED
      BY <3>2, <1>2, ToSetFacts
  <2>3. s \in ToSet(d)
    <3>1. 1 \in 1 .. Len(d)
      BY <1>2
    <3>2. QED
      BY <3>1, <1>2, <1>3, ToSetFacts
  <2>4. QED
    BY <2>1, <2>2, <2>3
<1>6. ASSUME IsInjective(list), s \notin ToSet(list)
      PROVE  IsInjective(d)
  <2>1. SUFFICES ASSUME NEW a \in 1 .. Len(d), NEW b \in 1 .. Len(d), a # b PROVE d[a] # d[b]
    BY <1>4 DEF IsInjective
  <2>2. \A k \in 1 .. Len(list) : list[k] # s
    BY <1>6, ToSetFacts
  <2>3. \A k \in 2 .. Len(d) : k - 1 \in 1 .. Len(list) /\ d[k] = list[k - 1]
    BY <1>2
  <2>4. CASE a = 1
    BY <2>1, <2>2, <2>3, <2>4, <1>2, <1>3
  <2>5. CASE b = 1
    BY <2>1, <2>2, <2>3, <2>5, <1>2, <1>3
  <2>6. CASE a # 1 /\ b # 1
    <3>1. a - 1 \in DOMAIN list /\ b - 1 \in DOMAIN list /\ a - 1 # b - 1
      BY <2>1, <2>3, <2>6, <1>2, <1>4
    <3>2. list[a - 1] # list[b - 1]
      BY <3>1, <1>6 DEF IsInjective
    <3>3. QED
      BY <3>2, <2>3, <2>6, <1>2
  <2>7. QED
    BY <2>4, <2>5, <2>6
<1>7. QED
  BY <1>2, <1>5, <1>6 DEF Deallocate, d

(* The slot of an order that leaves the index is free from then on.        *)
LEMMA FreeGains ==
  ASSUME NativeInv, NEW i \in Id, index[i] # Null,
         free' = Deallocate(index[i], free), index' = [index EXCEPT ![i] = Null],
         incoming' = incoming, Len(slot') = Len(slot)
  PROVE  free' \in Seq(Nat) /\ FreeAreFree' /\ SlotsUsed'
<1> DEFINE s == index[i]
<1>1. s \in 1 .. Len(slot) /\ s \in Nat /\ slot[s].id = i
  BY FoundFacts, SlotType DEF NativeInv
<1>2. s # incoming
  BY <1>1 DEF NativeInv, HandHeld
<1>3. s \notin ToSet(free)
  BY DEF NativeInv, FreeAreFree
<1>4. index'[i] = Null /\ \A j \in Id \ {i} : index'[j] = index[j] /\ index[j] # s
  <2>1. ASSUME NEW j \in Id \ {i} PROVE index[j] # s
    <3>1. index[j] # Null => slot[index[j]].id = j
      BY FoundFacts
    <3>2. QED
      BY <3>1, <1>1
  <2>2. QED
    BY <2>1 DEF NativeInv, TypeOK
<1>5. /\ free' \in Seq(Nat) /\ ToSet(free') = ToSet(free) \cup {s} /\ IsInjective(free')
  BY <1>1, <1>3, DeallocateFacts DEF NativeInv, TypeOK, FreeAreFree
<1> HIDE DEF s
<1>6. FreeAreFree'
  <2>1. SUFFICES ASSUME NEW r \in ToSet(free')
                 PROVE  r \in 1 .. Len(slot') /\ r # incoming' /\ \A j \in Id : index'[j] # r
    BY <1>5 DEF FreeAreFree
  <2>2. r \in 1 .. Len(slot) /\ r # incoming
    BY <1>1, <1>2, <1>5 DEF NativeInv, FreeAreFree
  <2>3. \A j \in Id \ {i} : index[j] # r
    BY <1>4, <1>5 DEF NativeInv, FreeAreFree
  <2>4. r # Null
    BY <2>2, SlotType DEF NativeInv
  <2>5. QED
    BY <2>2, <2>3, <2>4, <1>4
<1>7. SlotsUsed'
  BY <1>4, <1>5 DEF NativeInv, SlotsUsed, s
<1>8. QED
  BY <1>5, <1>6, <1>7

(* The order in hand stays the same while it is matched.                   *)
LEMMA HandKept ==
  ASSUME NativeInv, Alike, UNCHANGED <<incoming, calls>>, pc # "idle",
         \A i \in Id : index'[i] \in {index[i], Null},
         pc' # "idle", pc' = "level" => Touch' # None
  PROVE  HandHeld' /\ Facing' = Facing
<1>1. /\ incoming \in 1 .. Len(slot) /\ calls \in Id /\ index[calls] = Null
      /\ Taker.id = calls /\ Taker.since = calls
      /\ Taker.type # "MARKET" => Taker.price \in Tick
      /\ \A i \in Id : index[i] # incoming
      /\ incoming # Null
  BY DEF NativeInv, HandHeld
<1>2. /\ Taker'.id = Taker.id /\ Taker'.since = Taker.since /\ Taker'.side = Taker.side
      /\ Taker'.type = Taker.type /\ Taker'.price = Taker.price
  BY <1>1 DEF Alike, Taker
<1>3. index'[calls'] = Null /\ \A i \in Id : index'[i] # incoming'
  BY <1>1
<1>4. Facing' = Facing
  BY <1>2 DEF Facing
<1>5. Len(slot') = Len(slot)
  BY DEF Alike
<1>6. QED
  BY <1>1, <1>2, <1>3, <1>4, <1>5 DEF HandHeld

(* Taking an order out empties at most its own level.                      *)
LEMMA RemovesEmptiness ==
  ASSUME NativeInv, NEW q, NEW r, Removes(q, r), NEW s \in Side, NEW t \in Tick
  PROVE  /\ q[s][t] # <<>> => queue[s][t] # <<>>
         /\ queue[s][t] # <<>> /\ r \notin ToSet(queue[s][t]) => q[s][t] # <<>>
<1>1. q[s][t] \in Seq(Nat) /\ queue[s][t] \in Seq(Nat)
  BY LevelType DEF Removes, NativeInv, TypeOK
<1>2. ToSet(q[s][t]) = ToSet(queue[s][t]) \ {r}
  BY DEF Removes
<1>3. \A w \in Seq(Nat) : ToSet(w) = {} <=> w = <<>>
  BY ToSetFacts
<1>4. QED
  BY <1>1, <1>2, <1>3

LEMMA RemovesBounds ==
  ASSUME NativeInv, NEW q, NEW r, Removes(q, r), NEW s \in Side, NEW ks, NEW b, Bounds(queue, ks, b, s)
  PROVE  Bounds(q, ks, b, s)
BY RemovesEmptiness DEF Bounds

LEMMA RemovesStands ==
  ASSUME NativeInv, NEW q, NEW r, Removes(q, r), NEW s \in Side, NEW b,
         b[s] \in Tick \cup {None}, b[s] \in Tick => r \notin ToSet(queue[s][b[s]]), Stands(queue, b, s)
  PROVE  Stands(q, b, s)
BY RemovesEmptiness DEF Stands

-----------------------------------------------------------------------------
(* The steps of the matching loops.                                        *)
LEMMA HandFacts ==
  ASSUME NativeInv, pc # "idle"
  PROVE  /\ incoming \in 1 .. Len(slot) /\ incoming \in Nat /\ incoming # Null /\ calls \in Id
         /\ Taker \in OrderRecord /\ Remaining(Taker) \in Int
         /\ Facing \in Side /\ Touch \in Tick \cup {None}
         /\ \A i \in Id : index[i] # incoming
<1>1. incoming \in 1 .. Len(slot) /\ calls \in Id /\ \A i \in Id : index[i] # incoming
  BY DEF NativeInv, HandHeld
<1>2. /\ slot[incoming] \in OrderRecord /\ slot[incoming].side \in Side /\ Remaining(slot[incoming]) \in Int
      /\ incoming \in Nat /\ incoming # Null
  BY <1>1, SlotType DEF NativeInv
<1>3. Facing \in Side
  BY <1>2, ContraSide DEF Facing, Taker
<1>4. Touch \in Tick \cup {None}
  BY <1>3 DEF Touch, NativeInv, TypeOK
<1>5. QED
  BY <1>1, <1>2, <1>3, <1>4 DEF Taker

(* Steps that touch neither orders nor queues.                             *)
LEMMA QuietStep ==
  ASSUME NativeInv, pc # "idle", pc' \in {"match", "level", "place"},
         UNCHANGED <<slot, free, queue, keys, index, incoming, calls, executions, strayed>>,
         best' \in [Side -> Tick \cup {None}], pc' = "level" => Touch' # None, CacheHolds'
  PROVE  NativeInv'
<1>1. Alike
  BY SameIsAlike DEF NativeInv
<1>2. TypeOK'
  BY DEF NativeInv, TypeOK
<1>3. BookHolds'
  BY <1>1, BookKept
<1>4. FreeAreFree' /\ SlotsUsed'
  BY FreeKept
<1>5. HandHeld'
  BY <1>1, HandKept
<1>6. QED
  BY <1>2, <1>3, <1>4, <1>5 DEF NativeInv, BookHolds

LEMMA BoundsAgree ==
  ASSUME NEW q, NEW ks, NEW b, NEW c, NEW s, b[s] = c[s]
  PROVE  /\ Bounds(q, ks, b, s) => Bounds(q, ks, c, s)
         /\ Stands(q, b, s) => Stands(q, c, s)
BY DEF Bounds, Stands

LEMMA StartLevelStep == ASSUME NativeInv, StartLevel PROVE NativeInv'
<1>1. /\ pc # "idle" /\ pc # "level" /\ pc' = "level" /\ Touch # None
      /\ UNCHANGED <<slot, free, queue, keys, best, index, incoming, calls, executions, strayed>>
  BY DEF StartLevel, Crosses
<1>2. Touch' = Touch
  BY <1>1 DEF Touch, Facing, Taker
<1>3. CacheHolds'
  BY <1>1 DEF NativeInv, CacheHolds, Bounds, Stands
<1>4. best' \in [Side -> Tick \cup {None}]
  BY <1>1 DEF NativeInv, TypeOK
<1>5. QED
  BY <1>1, <1>2, <1>3, <1>4, QuietStep

LEMMA MatchOverStep == ASSUME NativeInv, MatchOver PROVE NativeInv'
<1>1. /\ pc = "match" /\ pc' = "place"
      /\ UNCHANGED <<slot, free, queue, keys, best, index, incoming, calls, executions, strayed>>
  BY DEF MatchOver
<1>2. CacheHolds'
  BY <1>1 DEF NativeInv, CacheHolds, Bounds, Stands
<1>3. best' \in [Side -> Tick \cup {None}]
  BY <1>1 DEF NativeInv, TypeOK
<1>4. QED
  BY <1>1, <1>2, <1>3, QuietStep

(* The best tick of the opposite side is looked for again.                 *)
LEMMA Refreshed ==
  ASSUME NativeInv, pc # "idle", Touch # None, pc' \in {"match", "place"},
         best' = Updated(queue, keys, Facing, Touch),
         UNCHANGED <<slot, free, queue, keys, index, incoming, calls, executions, strayed>>
  PROVE  NativeInv'
<1>1. Facing \in Side /\ Touch \in Tick
  BY HandFacts
<1>2. /\ best' \in [Side -> Tick \cup {None}]
      /\ \A u \in Side \ {Facing} : best'[u] = best[u]
      /\ Bounds(queue, keys, best, Facing) =>
           Bounds(queue, keys, best', Facing) /\ Stands(queue, best', Facing)
  <2>1. keys[Facing] \in SUBSET Tick
    BY <1>1 DEF NativeInv, TypeOK
  <2>2. best[Facing] = Touch
    BY DEF Touch
  <2>3. TypeOK
    BY DEF NativeInv
  <2> DEFINE b == Updated(queue, keys, Facing, Touch)
  <2>4. /\ b \in [Side -> Tick \cup {None}]
        /\ \A u \in Side \ {Facing} : b[u] = best[u]
        /\ Bounds(queue, keys, best, Facing) /\ Touch # None /\ (best[Facing] # Touch => Stands(queue, best, Facing))
             => Bounds(queue, keys, b, Facing) /\ Stands(queue, b, Facing)
    BY <1>1, <2>1, <2>3, UpdatedFacts
  <2> HIDE DEF b
  <2>5. QED
    BY <2>2, <2>4 DEF b
<1>3. CacheHolds'
  <2>1. SUFFICES ASSUME ~strayed, NEW s \in Side
                 PROVE  Bounds(queue, keys, best', s) /\ Stands(queue, best', s)
    BY DEF CacheHolds, Bounds, Stands
  <2>2. Bounds(queue, keys, best, s) /\ (s = Facing \/ Stands(queue, best, s))
    BY <2>1 DEF NativeInv, CacheHolds
  <2>3. CASE s = Facing
    BY <2>2, <2>3, <1>2
  <2>4. CASE s # Facing
    BY <2>2, <2>4, <1>2, BoundsAgree
  <2>5. QED
    BY <2>3, <2>4
<1>4. QED
  BY <1>2, <1>3, QuietStep

LEMMA SkipLevelStep == ASSUME NativeInv, SkipLevel PROVE NativeInv'
<1>1. /\ pc = "match" /\ pc' = "match" /\ Touch # None /\ best' = Updated(queue, keys, Facing, Touch)
      /\ UNCHANGED <<slot, free, queue, keys, index, incoming, calls, executions, strayed>>
  BY DEF SkipLevel, Crosses
<1>2. QED
  BY <1>1, Refreshed

LEMMA LevelOverStep == ASSUME NativeInv, LevelOver PROVE NativeInv'
<1>1. /\ pc = "level" /\ pc' \in {"match", "place"} /\ best' = Updated(queue, keys, Facing, Touch)
      /\ UNCHANGED <<slot, free, queue, keys, index, incoming, calls, executions, strayed>>
  BY DEF LevelOver
<1>2. Touch # None
  BY <1>1 DEF NativeInv, HandHeld
<1>3. QED
  BY <1>1, <1>2, Refreshed

(* An order at the head of the best level leaves the book.                 *)
LEMMA PopStep ==
  ASSUME NativeInv, pc = "level", TouchQueue # <<>>, Pop(Head(TouchQueue)), Alike,
         executions' \in Nat, UNCHANGED <<keys, best, incoming, pc, calls, strayed>>
  PROVE  NativeInv'
<1> DEFINE m == Head(TouchQueue)
<1>1. /\ Facing \in Side /\ Touch \in Tick /\ m \in ToSet(TouchQueue) /\ Filed(m, Facing, Touch)
      /\ Removes([queue EXCEPT ![Facing][Touch] = Tail(@)], m)
  BY HeadFacts
<1>2. /\ queue' = [queue EXCEPT ![Facing][Touch] = Tail(@)]
      /\ index' = [index EXCEPT ![slot[m].id] = Null]
      /\ free' = Deallocate(m, free)
  BY DEF Pop
<1> HIDE DEF m
<1> DEFINE i == slot[m].id
<1>3. i \in Id /\ index[i] = m /\ m # Null
  <2>1. i \in Id /\ index[i] = m /\ m \in 1 .. Len(slot)
    BY <1>1 DEF Filed
  <2>2. QED
    BY <2>1, SlotType DEF NativeInv
<1> HIDE DEF i
<1>4. Removes(queue', index[i]) /\ index' = [index EXCEPT ![i] = Null] /\ free' = Deallocate(index[i], free)
  BY <1>1, <1>2, <1>3 DEF i
<1>5. BookHolds'
  BY <1>3, <1>4, BookLess
<1>6. free' \in Seq(Nat) /\ FreeAreFree' /\ SlotsUsed'
  BY <1>3, <1>4, FreeGains DEF Alike
<1>7. \A j \in Id : index'[j] \in {index[j], Null}
  BY <1>4 DEF NativeInv, TypeOK
<1>8. Touch # None
  BY DEF NativeInv, HandHeld
<1>9. HandHeld' /\ Facing' = Facing
  <2>1. /\ incoming \in 1 .. Len(slot)
    BY HandFacts
  <2>2. Facing' = Facing
    BY <2>1 DEF Facing, Taker, Alike
  <2>3. Touch' = Touch
    BY <2>2 DEF Touch
  <2>4. QED
    BY <2>2, <2>3, <1>7, <1>8, HandKept
<1>10. TypeOK'
  <2>1. Shaped(queue')
    BY <1>4 DEF Removes
  <2>2. index' \in [Id -> Nat]
    BY <1>4 DEF NativeInv, TypeOK, Null
  <2>3. QED
    BY <2>1, <2>2, <1>6 DEF NativeInv, TypeOK, Alike
<1>11. CacheHolds'
  <2>1. SUFFICES ASSUME ~strayed, NEW s \in Side
                 PROVE  Bounds(queue', keys, best, s) /\ (Stands(queue', best, s) \/ s = Facing)
    BY <1>9 DEF CacheHolds, Bounds, Stands
  <2>2. Bounds(queue, keys, best, s) /\ (Stands(queue, best, s) \/ s = Facing)
    BY <2>1 DEF NativeInv, CacheHolds
  <2>3. Bounds(queue', keys, best, s)
    BY <2>2, <1>4, RemovesBounds
  <2>4. s # Facing => Stands(queue', best, s)
    <3>1. SUFFICES ASSUME s # Facing PROVE Stands(queue', best, s)
      OBVIOUS
    <3>2. slot[m].side = Facing /\ index[i] = m
      BY <1>1, <1>3 DEF Filed
    <3>3. \A t \in Tick : m \notin ToSet(queue[s][t])
      BY <3>1, <3>2 DEF NativeInv, QueuedAreFiled, Filed
    <3>4. best[s] \in Tick \cup {None}
      BY DEF NativeInv, TypeOK
    <3>5. QED
      BY <3>1, <3>2, <3>3, <3>4, <2>2, <1>4, RemovesStands
  <2>5. QED
    BY <2>3, <2>4
<1>12. QED
  BY <1>5, <1>6, <1>9, <1>10, <1>11 DEF NativeInv, BookHolds

LEMMA DropSpentStep == ASSUME NativeInv, DropSpent PROVE NativeInv'
<1>1. /\ pc = "level" /\ TouchQueue # <<>> /\ Pop(Head(TouchQueue))
      /\ UNCHANGED <<slot, keys, best, incoming, pc, calls, executions, strayed>>
  BY DEF DropSpent
<1>2. Alike /\ executions' \in Nat
  BY <1>1, SameIsAlike DEF NativeInv, TypeOK
<1>3. QED
  BY <1>1, <1>2, PopStep

LEMMA FilledMore ==
  ASSUME NEW o \in OrderRecord, NEW q \in Int
  PROVE  LET p == [o EXCEPT !.filled = @ + q] IN
         /\ p \in OrderRecord /\ p.filled = o.filled + q
         /\ p.id = o.id /\ p.side = o.side /\ p.type = o.type /\ p.price = o.price
         /\ p.quantity = o.quantity /\ p.since = o.since
BY DEF OrderRecord

(* Both sides of an execution book the same lots, no more than either has. *)
LEMMA ExecuteFacts ==
  ASSUME NativeInv, Execute
  PROVE  \E q \in Int : LET m == Head(TouchQueue) IN
           /\ 0 < q /\ q <= Remaining(slot[m]) /\ Remaining(slot[m]) > 0
           /\ m \in 1 .. Len(slot) /\ m # incoming
           /\ q = Remaining(slot[m]) => Pop(m)
           /\ q # Remaining(slot[m]) => UNCHANGED <<queue, index, free>>
           /\ Alike
           /\ \A r \in 1 .. Len(slot) : slot'[r].quantity = slot[r].quantity
           /\ \A r \in 1 .. Len(slot) \ {incoming, m} : slot'[r].filled = slot[r].filled
           /\ slot'[m].filled = slot[m].filled + q
<1> DEFINE m == Head(TouchQueue)
           q == Min({Remaining(Taker), Remaining(slot[m])})
           one == [slot EXCEPT ![incoming].filled = @ + q]
           two == [one EXCEPT ![m].filled = @ + q]
<1>1. /\ pc = "level" /\ TouchQueue # <<>> /\ Remaining(Taker) > 0 /\ Remaining(slot[m]) > 0
      /\ slot' = two
      /\ q = Remaining(slot[m]) => Pop(m)
      /\ q # Remaining(slot[m]) => UNCHANGED <<queue, index, free>>
  BY DEF Execute
<1>2. m \in 1 .. Len(slot) /\ m # incoming
  BY <1>1, HeadFacts DEF Filed
<1>3. incoming \in 1 .. Len(slot) /\ Remaining(Taker) \in Int /\ Remaining(slot[m]) \in Int
  BY <1>1, <1>2, HandFacts, SlotType DEF NativeInv
<1>4. q \in Int /\ 0 < q /\ q <= Remaining(slot[m])
  BY <1>1, <1>3, MinOfTwo
<1> HIDE DEF q, m
<1>5. slot \in Seq(OrderRecord) /\ \A r \in 1 .. Len(slot) : slot[r] \in OrderRecord
  BY SlotType DEF NativeInv, TypeOK
<1>6. /\ one \in Seq(OrderRecord) /\ Len(one) = Len(slot)
      /\ one[incoming] = [slot[incoming] EXCEPT !.filled = @ + q]
      /\ \A r \in 1 .. Len(slot) \ {incoming} : one[r] = slot[r]
  <2>1. [slot[incoming] EXCEPT !.filled = @ + q] \in OrderRecord
    BY <1>3, <1>4, <1>5, FilledMore
  <2>2. QED
    BY <2>1, <1>3, <1>5, ExceptSeq
<1> HIDE DEF one
<1>7. /\ two \in Seq(OrderRecord) /\ Len(two) = Len(slot)
      /\ two[m] = [slot[m] EXCEPT !.filled = @ + q]
      /\ two[incoming] = one[incoming]
      /\ \A r \in 1 .. Len(slot) \ {incoming, m} : two[r] = slot[r]
  <2>1. one[m] = slot[m]
    BY <1>2, <1>6
  <2>2. [slot[m] EXCEPT !.filled = @ + q] \in OrderRecord
    BY <1>2, <1>4, <1>5, FilledMore
  <2>3. /\ [one EXCEPT ![m] = [slot[m] EXCEPT !.filled = @ + q]] \in Seq(OrderRecord)
        /\ Len([one EXCEPT ![m] = [slot[m] EXCEPT !.filled = @ + q]]) = Len(one)
        /\ \A r \in 1 .. Len(one) : [one EXCEPT ![m] = [slot[m] EXCEPT !.filled = @ + q]][r]
                                      = IF r = m THEN [slot[m] EXCEPT !.filled = @ + q] ELSE one[r]
    BY <2>2, <1>2, <1>6, ExceptSeq
  <2>4. two = [one EXCEPT ![m] = [slot[m] EXCEPT !.filled = @ + q]]
    BY <2>1
  <2> HIDE DEF two
  <2>5. QED
    BY <2>3, <2>4, <1>2, <1>3, <1>6
<1> HIDE DEF two
<1>8. /\ \A r \in 1 .. Len(slot) \ {incoming, m} : slot'[r] = slot[r]
      /\ slot'[m] = [slot[m] EXCEPT !.filled = @ + q]
      /\ slot'[incoming] = [slot[incoming] EXCEPT !.filled = @ + q]
      /\ slot' \in Seq(OrderRecord) /\ Len(slot') = Len(slot)
  BY <1>1, <1>6, <1>7
<1>9. Alike /\ \A r \in 1 .. Len(slot) : slot'[r].quantity = slot[r].quantity
  <2>1. \A r \in 1 .. Len(slot) :
          /\ slot'[r].id = slot[r].id /\ slot'[r].side = slot[r].side /\ slot'[r].type = slot[r].type
          /\ slot'[r].price = slot[r].price /\ slot'[r].since = slot[r].since
          /\ slot'[r].quantity = slot[r].quantity
    <3>1. SUFFICES ASSUME NEW r \in 1 .. Len(slot)
                   PROVE  /\ slot'[r].id = slot[r].id /\ slot'[r].side = slot[r].side
                          /\ slot'[r].type = slot[r].type /\ slot'[r].price = slot[r].price
                          /\ slot'[r].since = slot[r].since /\ slot'[r].quantity = slot[r].quantity
      OBVIOUS
    <3>2. CASE r \notin {incoming, m}
      BY <3>2, <1>8
    <3>3. CASE r \in {incoming, m}
      <4>1. slot'[r] = [slot[r] EXCEPT !.filled = @ + q]
        BY <3>3, <1>8
      <4>2. QED
        BY <4>1, <1>4, <1>5, FilledMore
    <3>4. QED
      BY <3>2, <3>3
  <2>2. QED
    BY <2>1, <1>8 DEF Alike
<1>10. slot'[m].filled = slot[m].filled + q
  BY <1>8, <1>5, <1>2, <1>4, FilledMore
<1>11. QED
  BY <1>1, <1>2, <1>4, <1>8, <1>9, <1>10 DEF m

LEMMA ExecuteStep == ASSUME NativeInv, Execute PROVE NativeInv'
<1> DEFINE m == Head(TouchQueue)
<1>1. PICK q \in Int :
           /\ q = Remaining(slot[m]) => Pop(m)
           /\ q # Remaining(slot[m]) => UNCHANGED <<queue, index, free>>
           /\ Alike
  BY ExecuteFacts
<1>2. /\ pc = "level" /\ TouchQueue # <<>> /\ executions' = executions + 1
      /\ UNCHANGED <<keys, best, incoming, pc, calls, strayed>>
  BY DEF Execute
<1>3. executions' \in Nat
  BY <1>2 DEF NativeInv, TypeOK
<1>4. CASE q = Remaining(slot[m])
  BY <1>1, <1>2, <1>3, <1>4, PopStep
<1>5. CASE q # Remaining(slot[m])
  <2>1. UNCHANGED <<queue, index, free>> /\ Len(slot') = Len(slot)
    BY <1>1, <1>5 DEF Alike
  <2>2. BookHolds'
    BY <2>1, <1>1, <1>2, BookKept
  <2>3. FreeAreFree' /\ SlotsUsed'
    BY <2>1, <1>2, FreeKept
  <2>4. Facing' = Facing /\ Touch' = Touch /\ Touch # None
    BY <1>1, <1>2, HandFacts DEF Facing, Taker, Alike, Touch, NativeInv, HandHeld
  <2>5. HandHeld'
    BY <2>1, <2>4, <1>1, <1>2, HandKept
  <2>6. TypeOK'
    BY <2>1, <1>1, <1>2, <1>3 DEF NativeInv, TypeOK, Alike
  <2>7. CacheHolds'
    BY <2>1, <2>4, <1>2 DEF NativeInv, CacheHolds, Bounds, Stands
  <2>8. QED
    BY <2>2, <2>3, <2>5, <2>6, <2>7 DEF NativeInv, BookHolds
<1>6. QED
  BY <1>4, <1>5

-----------------------------------------------------------------------------
(* The end of a call: what is left of the order rests, or its slot is      *)
(* free again.                                                             *)
LEMMA LinkedFacts ==
  ASSUME NEW q, Shaped(q), NEW s \in Side, NEW t \in Tick, NEW r \in Nat
  PROVE  /\ Shaped(Linked(q, s, t, r)) /\ Linked(q, s, t, r)[s][t] = Append(q[s][t], r)
         /\ Linked(q, s, t, r)[s][t] # <<>>
         /\ ToSet(Linked(q, s, t, r)[s][t]) = ToSet(q[s][t]) \cup {r}
         /\ \A u \in Side : \A v \in Tick : u # s \/ v # t => Linked(q, s, t, r)[u][v] = q[u][v]
<1> DEFINE w == Append(q[s][t], r)
<1>1. q[s][t] \in Seq(Nat)
  BY LevelType
<1>2. w \in Seq(Nat) /\ w # <<>> /\ ToSet(w) = ToSet(q[s][t]) \cup {r}
  BY <1>1, AppendFacts
<1>3. Linked(q, s, t, r) = [q EXCEPT ![s][t] = w]
  BY DEF Linked
<1> HIDE DEF w
<1>4. Shaped([q EXCEPT ![s][t] = w])
  BY <1>2 DEF Shaped
<1>5. \A u \in Side : \A v \in Tick : [q EXCEPT ![s][t] = w][u][v] = IF u = s /\ v = t THEN w ELSE q[u][v]
  BY DEF Shaped
<1>6. QED
  BY <1>2, <1>3, <1>4, <1>5 DEF w

(* Whoever came last may be put at the tail of any level.                  *)
LEMMA LinkedArranged ==
  ASSUME NEW q, Shaped(q), NEW sl, NEW s \in Side, NEW t \in Tick, NEW r \in Nat,
         \A u \in Side : \A v \in Tick : Arranged(q[u][v], sl),
         \A p \in ToSet(q[s][t]) : sl[p].since < sl[r].since
  PROVE  \A u \in Side : \A v \in Tick : Arranged(Linked(q, s, t, r)[u][v], sl)
<1>1. SUFFICES ASSUME NEW u \in Side, NEW v \in Tick PROVE Arranged(Linked(q, s, t, r)[u][v], sl)
  OBVIOUS
<1>2. CASE u = s /\ v = t
  <2>1. q[s][t] \in Seq(Nat)
    BY LevelType
  <2>2. Linked(q, s, t, r)[s][t] = Append(q[s][t], r)
    BY LinkedFacts
  <2>3. Arranged(q[s][t], sl)
    OBVIOUS
  <2>4. Arranged(Append(q[s][t], r), sl)
    BY <2>1, <2>3, AppendArranged
  <2>5. QED
    BY <1>2, <2>2, <2>4
<1>3. CASE ~(u = s /\ v = t)
  BY <1>3, LinkedFacts
<1>4. QED
  BY <1>2, <1>3

LEMMA KeysWithType ==
  ASSUME NEW ks \in [Side -> SUBSET Tick], NEW s \in Side, NEW t \in Tick
  PROVE  /\ KeysWith(ks, s, t) \in [Side -> SUBSET Tick]
         /\ \A u \in Side \ {s} : KeysWith(ks, s, t)[u] = ks[u]
BY DEF KeysWith

LEMMA PlaceRests ==
  ASSUME NativeInv, Place, Remaining(Taker) > 0, Taker.type \notin {"MARKET", "IOC"}
  PROVE  NativeInv'
<1> DEFINE s == Taker.side
           t == Taker.price
<1>1. /\ pc = "place" /\ pc' = "idle" /\ incoming' = Null
      /\ queue' = Linked(queue, s, t, incoming) /\ keys' = KeysWith(keys, s, t) /\ best' = Raised(best, s, t)
      /\ index' = [index EXCEPT ![Taker.id] = incoming]
      /\ strayed' = (strayed \/ t \notin Arena)
      /\ UNCHANGED <<free, slot, calls, executions>>
  BY DEF Place, InsertOrder
<1>2. /\ incoming \in 1 .. Len(slot) /\ incoming \in Nat /\ incoming # Null
      /\ Taker.id = calls /\ Taker.since = calls /\ calls \in Id /\ index[calls] = Null
      /\ t \in Tick /\ \A i \in Id : index[i] # incoming
  BY <1>1, HandFacts DEF NativeInv, HandHeld
<1>3. s \in Side /\ calls \in Int
  BY <1>2, SlotType DEF NativeInv, Taker, TypeOK, Id
<1>4. TypeOK
  BY DEF NativeInv
<1>5. /\ index' \in [Id -> Nat] /\ index'[calls] = incoming
      /\ \A i \in Id \ {calls} : index'[i] = index[i]
  BY <1>1, <1>2, <1>4 DEF TypeOK
<1>6. slot[incoming].side = s /\ slot[incoming].price = t /\ slot[incoming].id = calls /\ slot[incoming].since = calls
  BY <1>2 DEF Taker
<1> HIDE DEF s, t
<1>7. /\ Shaped(queue') /\ queue'[s][t] # <<>> /\ ToSet(queue'[s][t]) = ToSet(queue[s][t]) \cup {incoming}
      /\ \A u \in Side : \A v \in Tick : u # s \/ v # t => queue'[u][v] = queue[u][v]
  <2> DEFINE q == Linked(queue, s, t, incoming)
  <2>1. Shaped(queue)
    BY <1>4 DEF TypeOK
  <2>2. /\ Shaped(q) /\ q[s][t] # <<>> /\ ToSet(q[s][t]) = ToSet(queue[s][t]) \cup {incoming}
        /\ \A u \in Side : \A v \in Tick : u # s \/ v # t => q[u][v] = queue[u][v]
    <3>0. s \in Side /\ t \in Tick /\ incoming \in Nat
      BY <1>2, <1>3
    <3>1. Shaped(q)
      BY <2>1, <3>0, LinkedFacts
    <3>2. q[s][t] # <<>>
      BY <2>1, <3>0, LinkedFacts
    <3>3. ToSet(q[s][t]) = ToSet(queue[s][t]) \cup {incoming}
      <4>1. q[s][t] = Append(queue[s][t], incoming)
        BY <2>1, <3>0, LinkedFacts
      <4>2. queue[s][t] \in Seq(Nat)
        BY <2>1, <3>0, LevelType
      <4>3. QED
        BY <4>1, <4>2, <3>0, AppendFacts
    <3>4. \A u \in Side : \A v \in Tick : u # s \/ v # t => q[u][v] = queue[u][v]
      BY <2>1, <3>0, LinkedFacts
    <3>5. QED
      BY <3>1, <3>2, <3>3, <3>4
  <2>3. queue' = q
    BY <1>1
  <2> HIDE DEF q
  <2>4. QED
    BY <2>2, <2>3
<1>8. TypeOK'
  <2>1. keys' \in [Side -> SUBSET Tick] /\ best' \in [Side -> Tick \cup {None}]
    BY <1>1, <1>2, <1>3, <1>4, KeysWithType, RaisedFacts DEF TypeOK
  <2>2. strayed' \in BOOLEAN /\ incoming' \in Nat
    BY <1>1 DEF Null
  <2>3. QED
    BY <2>1, <2>2, <1>1, <1>4, <1>5, <1>7 DEF TypeOK
<1>9. QueuesArranged'
  <2>1. \A u \in Side : \A v \in Tick : Arranged(queue[u][v], slot)
    BY StandingTimes
  <2>2. \A p \in ToSet(queue[s][t]) : slot[p].since < slot[incoming].since
    BY <1>1, <1>2, <1>3, <1>6 DEF NativeInv, QueuedAreFiled, Filed
  <2>3. \A u \in Side : \A v \in Tick : Arranged(Linked(queue, s, t, incoming)[u][v], slot)
    BY <2>1, <2>2, <1>2, <1>3, <1>4, LinkedArranged DEF TypeOK
  <2>4. QED
    BY <2>3, <1>1 DEF QueuesArranged
<1>10. QueuedAreFiled'
  <2>1. SUFFICES ASSUME NEW u \in Side, NEW v \in Tick, NEW r \in ToSet(queue'[u][v]) PROVE Filed(r, u, v)'
    BY DEF QueuedAreFiled
  <2>2. CASE r = incoming /\ u = s /\ v = t
    BY <2>2, <1>1, <1>2, <1>3, <1>5, <1>6 DEF Filed
  <2>3. CASE r \in ToSet(queue[u][v])
    <3>1. Filed(r, u, v)
      BY <2>3 DEF NativeInv, QueuedAreFiled
    <3>2. r # Null
      BY <3>1, <1>4, SlotType DEF Filed
    <3>3. slot[r].id # calls
      BY <3>1, <3>2, <1>2 DEF Filed
    <3>4. QED
      BY <3>1, <3>3, <1>1, <1>5 DEF Filed
  <2>4. QED
    BY <2>1, <2>2, <2>3, <1>7
<1>11. IndexedAreFound'
  <2>1. SUFFICES ASSUME NEW i \in Id, index'[i] # Null PROVE Found(i)'
    BY DEF IndexedAreFound
  <2>2. CASE i = calls
    BY <2>2, <1>1, <1>2, <1>3, <1>5, <1>6, <1>7 DEF Found
  <2>3. CASE i # calls
    <3>1. index'[i] = index[i] /\ Found(i)
      BY <2>1, <2>3, <1>5 DEF NativeInv, IndexedAreFound
    <3>2. slot[index[i]].side \in Side /\ slot[index[i]].price \in Tick
      BY <2>1, <3>1, FoundFacts
    <3>3. ToSet(queue[slot[index[i]].side][slot[index[i]].price])
            \subseteq ToSet(queue'[slot[index[i]].side][slot[index[i]].price])
      BY <3>2, <1>7
    <3>4. QED
      BY <3>1, <3>3, <1>1 DEF Found
  <2>4. QED
    BY <2>2, <2>3
<1>12. FreeAreFree' /\ SlotsUsed'
  <2>1. FreeAreFree'
    <3>1. SUFFICES ASSUME NEW r \in ToSet(free)
                   PROVE  r \in 1 .. Len(slot) /\ r # Null /\ \A i \in Id : index'[i] # r
      BY <1>1 DEF NativeInv, FreeAreFree
    <3>2. r \in 1 .. Len(slot) /\ r # incoming /\ \A i \in Id : index[i] # r
      BY DEF NativeInv, FreeAreFree
    <3>3. r # Null
      BY <3>2, <1>4, SlotType
    <3>4. QED
      BY <3>2, <3>3, <1>5
  <2>2. SlotsUsed'
    <3>1. SUFFICES ASSUME NEW r \in 1 .. Len(slot)
                   PROVE  r \in ToSet(free) \/ \E i \in Id : index'[i] = r
      BY <1>1 DEF SlotsUsed
    <3>2. r \in ToSet(free) \/ r = incoming \/ \E i \in Id : index[i] = r
      BY DEF NativeInv, SlotsUsed
    <3>3. ASSUME NEW i \in Id, index[i] = r PROVE index'[i] = r
      <4>1. r # Null
        BY <1>4, SlotType
      <4>2. QED
        BY <4>1, <3>3, <1>2, <1>5
    <3>4. QED
      BY <3>2, <3>3, <1>2, <1>5
  <2>3. QED
    BY <2>1, <2>2
<1>13. HandHeld'
  BY <1>1 DEF HandHeld
<1>14. CacheHolds'
  <2>1. SUFFICES ASSUME ~strayed, t \in Arena, NEW u \in Side
                 PROVE  Bounds(queue', keys', best', u) /\ Stands(queue', best', u)
    BY <1>1 DEF CacheHolds, Bounds, Stands
  <2>2. Bounds(queue, keys, best, u) /\ Stands(queue, best, u)
    BY <2>1, <1>1 DEF NativeInv, CacheHolds
  <2>3. CASE u = s
    BY <2>1, <2>2, <2>3, <1>1, <1>2, <1>3, <1>4, <1>7, RaisedFacts DEF TypeOK
  <2>4. CASE u # s
    <3>1. keys'[u] = keys[u] /\ best'[u] = best[u]
      BY <2>4, <1>1, <1>2, <1>3, <1>4, KeysWithType, RaisedFacts DEF TypeOK
    <3>2. \A v \in Tick : queue'[u][v] = queue[u][v]
      BY <2>4, <1>7
    <3>3. best[u] \in Tick \cup {None}
      BY <1>4 DEF TypeOK
    <3>4. QED
      BY <2>2, <3>1, <3>2, <3>3 DEF Bounds, Stands
  <2>5. QED
    BY <2>3, <2>4
<1>15. QED
  BY <1>8, <1>9, <1>10, <1>11, <1>12, <1>13, <1>14 DEF NativeInv

LEMMA PlaceFrees ==
  ASSUME NativeInv, Place, ~(Remaining(Taker) > 0 /\ Taker.type \notin {"MARKET", "IOC"})
  PROVE  NativeInv'
<1>1. /\ pc = "place" /\ pc' = "idle" /\ incoming' = Null
      /\ free' = Deallocate(incoming, free)
      /\ UNCHANGED <<queue, keys, best, index, strayed, slot, calls, executions>>
  BY DEF Place
<1>2. /\ incoming \in 1 .. Len(slot) /\ incoming \in Nat /\ incoming # Null
      /\ \A i \in Id : index[i] # incoming
  BY <1>1, HandFacts
<1>3. incoming \notin ToSet(free)
  BY DEF NativeInv, FreeAreFree
<1>4. free' \in Seq(Nat) /\ ToSet(free') = ToSet(free) \cup {incoming} /\ IsInjective(free')
  BY <1>1, <1>2, <1>3, DeallocateFacts DEF NativeInv, TypeOK, FreeAreFree
<1>5. TypeOK'
  BY <1>1, <1>4 DEF NativeInv, TypeOK, Null
<1>6. BookHolds'
  BY <1>1, SameIsAlike, BookKept DEF NativeInv
<1>7. FreeAreFree'
  <2>1. \A r \in ToSet(free') : r \in 1 .. Len(slot) /\ \A i \in Id : index[i] # r
    BY <1>2, <1>4 DEF NativeInv, FreeAreFree
  <2>2. \A r \in ToSet(free') : r # Null
    BY <2>1, SlotType DEF NativeInv
  <2>3. QED
    BY <2>1, <2>2, <1>1, <1>4 DEF FreeAreFree
<1>8. SlotsUsed'
  BY <1>1, <1>4 DEF NativeInv, SlotsUsed
<1>9. HandHeld'
  BY <1>1 DEF HandHeld
<1>10. CacheHolds'
  BY <1>1 DEF NativeInv, CacheHolds, Bounds, Stands
<1>11. QED
  BY <1>5, <1>6, <1>7, <1>8, <1>9, <1>10 DEF NativeInv, BookHolds

LEMMA PlaceStep == ASSUME NativeInv, Place PROVE NativeInv'
BY PlaceRests, PlaceFrees

-----------------------------------------------------------------------------
(* Cancels and modifications.                                              *)
LEMMA KeysWithoutType ==
  ASSUME TypeOK, NEW q, NEW s \in Side, NEW t
  PROVE  /\ KeysWithout(q, s, t) \in [Side -> SUBSET Tick]
         /\ \A u \in Side : keys[u] = {} => KeysWithout(q, s, t)[u] = {}
BY DEF TypeOK, KeysWithout

(* The book and its cached best ticks without the order of id i.           *)
LEMMA CacheRemoved ==
  ASSUME NativeInv, pc = "idle", NEW i \in Id, index[i] # Null,
         NEW o, o = slot[index[i]], NEW q, q = Unlinked(index[i]),
         NEW ks, ks = KeysWithout(q, o.side, o.price), NEW b, b = Updated(q, ks, o.side, o.price)
  PROVE  /\ o.side \in Side /\ o.price \in Tick
         /\ Removes(q, index[i]) /\ ks \in [Side -> SUBSET Tick] /\ b \in [Side -> Tick \cup {None}]
         /\ ~strayed => \A u \in Side : Bounds(q, ks, b, u) /\ Stands(q, b, u)
<1>1. TypeOK
  BY DEF NativeInv
<1>2. o.side \in Side /\ o.price \in Tick /\ o.price # None
  BY FoundFacts, TicksAreNat
<1>3. Removes(q, index[i])
  BY UnlinkedRemoves
<1>4. ks \in [Side -> SUBSET Tick] /\ \A u \in Side : keys[u] = {} => ks[u] = {}
  BY <1>1, <1>2, KeysWithoutType
<1>5. ks[o.side] \in SUBSET Tick
  BY <1>2, <1>4
<1>6. /\ b \in [Side -> Tick \cup {None}]
      /\ \A u \in Side \ {o.side} : b[u] = best[u]
      /\ Bounds(q, ks, best, o.side) /\ o.price # None /\ (best[o.side] # o.price => Stands(q, best, o.side))
           => Bounds(q, ks, b, o.side) /\ Stands(q, b, o.side)
  BY <1>1, <1>2, <1>5, UpdatedFacts
<1>7. ASSUME ~strayed, NEW u \in Side
      PROVE  Bounds(q, ks, b, u) /\ Stands(q, b, u)
  <2>1. Bounds(queue, keys, best, u) /\ Stands(queue, best, u)
    BY <1>7 DEF NativeInv, CacheHolds
  <2>2. Bounds(q, keys, best, u)
    BY <1>3, <2>1, RemovesBounds
  <2>3. Bounds(q, ks, best, u)
    BY <2>2, <1>4 DEF Bounds
  <2>4. best[u] \in Tick \cup {None}
    BY <1>1 DEF TypeOK
  <2>5. u # o.side \/ best[u] # o.price => Stands(q, best, u)
    <3>1. SUFFICES ASSUME u # o.side \/ best[u] # o.price PROVE Stands(q, best, u)
      OBVIOUS
    <3>2. best[u] \in Tick => index[i] \notin ToSet(queue[u][best[u]])
      BY <3>1 DEF NativeInv, QueuedAreFiled, Filed
    <3>3. QED
      BY <3>2, <2>1, <2>4, <1>3, RemovesStands
  <2>6. CASE u = o.side
    BY <2>3, <2>5, <2>6, <1>2, <1>6
  <2>7. CASE u # o.side
    <3>1. b[u] = best[u]
      BY <2>7, <1>6
    <3>2. QED
      BY <3>1, <2>3, <2>5, <2>7, BoundsAgree
  <2>8. QED
    BY <2>6, <2>7
<1>8. QED
  BY <1>2, <1>3, <1>4, <1>6, <1>7

LEMMA CancelStep ==
  ASSUME NativeInv, NEW i \in Id, CancelOrder(i)
  PROVE  NativeInv'
<1> DEFINE o == slot[index[i]]
           q == Unlinked(index[i])
           ks == KeysWithout(q, o.side, o.price)
           b == Updated(q, ks, o.side, o.price)
<1>1. /\ pc = "idle" /\ index[i] # Null
      /\ queue' = q /\ keys' = ks /\ best' = b /\ index' = [index EXCEPT ![o.id] = Null]
      /\ free' = Deallocate(index[i], free)
      /\ UNCHANGED <<slot, incoming, pc, calls, executions, strayed>>
  BY DEF CancelOrder, RemoveOrder
<1>2. o.id = i
  BY <1>1, FoundFacts
<1>3. /\ Removes(q, index[i]) /\ ks \in [Side -> SUBSET Tick] /\ b \in [Side -> Tick \cup {None}]
      /\ ~strayed => \A u \in Side : Bounds(q, ks, b, u) /\ Stands(q, b, u)
  BY <1>1, CacheRemoved
<1> HIDE DEF o, q, ks, b
<1>4. Alike /\ index' = [index EXCEPT ![i] = Null]
  BY <1>1, <1>2, SameIsAlike DEF NativeInv
<1>5. BookHolds'
  BY <1>1, <1>3, <1>4, BookLess
<1>6. free' \in Seq(Nat) /\ FreeAreFree' /\ SlotsUsed'
  BY <1>1, <1>4, FreeGains
<1>7. TypeOK'
  <2>1. Shaped(queue')
    BY <1>1, <1>3 DEF Removes
  <2>2. index' \in [Id -> Nat]
    BY <1>4 DEF NativeInv, TypeOK, Null
  <2>3. QED
    BY <2>1, <2>2, <1>1, <1>3, <1>6 DEF NativeInv, TypeOK
<1>8. HandHeld'
  BY <1>1 DEF NativeInv, HandHeld
<1>9. CacheHolds'
  BY <1>1, <1>3 DEF CacheHolds, Bounds, Stands
<1>10. QED
  BY <1>5, <1>6, <1>7, <1>8, <1>9 DEF NativeInv, BookHolds

LEMMA AmendedRecord ==
  ASSUME NEW o \in OrderRecord, NEW am \in Amendments
  PROVE  /\ am.price \in Tick /\ am.price \in Int
         /\ LET p == [o EXCEPT !.quantity = am.quantity] IN
            /\ p \in OrderRecord /\ p.id = o.id /\ p.side = o.side /\ p.type = o.type
            /\ p.price = o.price /\ p.filled = o.filled /\ p.since = o.since /\ p.quantity = am.quantity
         /\ LET p == [o EXCEPT !.quantity = am.quantity, !.price = am.price] IN
            /\ p \in OrderRecord /\ p.id = o.id /\ p.side = o.side /\ p.type = o.type
            /\ p.price = am.price /\ p.filled = o.filled /\ p.since = o.since /\ p.quantity = am.quantity
<1>1. am.price \in Tick /\ am.price \in Int /\ am.quantity \in Int
  <2>1. am \in [price : Tick, quantity : Int]
    BY NativeAssumption
  <2>2. am.price \in Tick /\ am.quantity \in Int
    BY <2>1
  <2>3. \A t \in Tick : t \in Int
    BY TicksAreNat
  <2>4. QED
    BY <2>2, <2>3
<1>2. LET p == [o EXCEPT !.quantity = am.quantity] IN
            /\ p \in OrderRecord /\ p.id = o.id /\ p.side = o.side /\ p.type = o.type
            /\ p.price = o.price /\ p.filled = o.filled /\ p.since = o.since /\ p.quantity = am.quantity
  BY <1>1 DEF OrderRecord
<1>3. LET p == [o EXCEPT !.quantity = am.quantity, !.price = am.price] IN
            /\ p \in OrderRecord /\ p.id = o.id /\ p.side = o.side /\ p.type = o.type
            /\ p.price = am.price /\ p.filled = o.filled /\ p.since = o.since /\ p.quantity = am.quantity
  BY <1>1 DEF OrderRecord
<1>4. QED
  BY <1>1, <1>2, <1>3

LEMMA StampedRecord ==
  ASSUME NEW o \in OrderRecord, NEW n \in Nat
  PROVE  LET p == [o EXCEPT !.since = n] IN
         /\ p \in OrderRecord /\ p.id = o.id /\ p.side = o.side /\ p.type = o.type
         /\ p.price = o.price /\ p.filled = o.filled /\ p.since = n /\ p.quantity = o.quantity
BY DEF OrderRecord

LEMMA ModifyInPlaceFacts ==
  ASSUME NativeInv, NEW i \in Id, NEW am \in Amendments, ModifyInPlace(i, am)
  PROVE  /\ pc = "idle" /\ index[i] # Null /\ Alike
         /\ slot'[index[i]].quantity = am.quantity /\ slot'[index[i]].filled = slot[index[i]].filled
         /\ \A r \in 1 .. Len(slot) \ {index[i]} : slot'[r] = slot[r]
         /\ UNCHANGED <<free, queue, keys, best, index, incoming, pc, calls, executions, strayed>>
<1> DEFINE s == index[i]
           p == [slot[s] EXCEPT !.quantity = am.quantity]
<1>1. /\ pc = "idle" /\ s # Null /\ slot' = [slot EXCEPT ![s] = p]
      /\ UNCHANGED <<free, queue, keys, best, index, incoming, pc, calls, executions, strayed>>
  BY DEF ModifyInPlace
<1>2. s \in 1 .. Len(slot) /\ slot[s] \in OrderRecord /\ slot \in Seq(OrderRecord)
  BY <1>1, FoundFacts, SlotType DEF NativeInv, TypeOK
<1>3. /\ p \in OrderRecord /\ p.id = slot[s].id /\ p.side = slot[s].side /\ p.type = slot[s].type
      /\ p.price = slot[s].price /\ p.filled = slot[s].filled /\ p.since = slot[s].since /\ p.quantity = am.quantity
  BY <1>2, AmendedRecord
<1> HIDE DEF s, p
<1>4. /\ slot' \in Seq(OrderRecord) /\ Len(slot') = Len(slot) /\ slot'[s] = p
      /\ \A r \in 1 .. Len(slot) \ {s} : slot'[r] = slot[r]
  BY <1>1, <1>2, <1>3, ExceptSeq
<1>5. Alike
  BY <1>3, <1>4 DEF Alike
<1>6. QED
  BY <1>1, <1>3, <1>4, <1>5 DEF s

LEMMA ModifyInPlaceStep ==
  ASSUME NativeInv, NEW i \in Id, NEW am \in Amendments, ModifyInPlace(i, am)
  PROVE  NativeInv'
<1>1. /\ pc = "idle" /\ Alike
      /\ UNCHANGED <<free, queue, keys, best, index, incoming, pc, calls, executions, strayed>>
  BY ModifyInPlaceFacts
<1>2. BookHolds'
  BY <1>1, BookKept
<1>3. FreeAreFree' /\ SlotsUsed'
  BY <1>1, FreeKept DEF Alike
<1>4. TypeOK'
  BY <1>1 DEF NativeInv, TypeOK, Alike
<1>5. HandHeld'
  BY <1>1 DEF NativeInv, HandHeld
<1>6. CacheHolds'
  BY <1>1 DEF NativeInv, CacheHolds, Bounds, Stands
<1>7. QED
  BY <1>2, <1>3, <1>4, <1>5, <1>6 DEF NativeInv, BookHolds

LEMMA ModifyRequeueFacts ==
  ASSUME NativeInv, NEW i \in Id, NEW am \in Amendments, ModifyRequeue(i, am),
         NEW s, s = index[i], NEW o, o = slot[s], NEW q, q = Unlinked(s),
         NEW ks, ks = KeysWithout(q, o.side, o.price), NEW b, b = Updated(q, ks, o.side, o.price)
  PROVE  /\ pc = "idle" /\ s # Null /\ calls + 1 \in 0 .. MaxCalls /\ calls' = calls + 1
         /\ s \in 1 .. Len(slot) /\ s \in Nat /\ o.id = i /\ o.side \in Side /\ am.price \in Tick
         /\ slot' \in Seq(OrderRecord) /\ Len(slot') = Len(slot)
         /\ \A r \in 1 .. Len(slot) \ {s} : slot'[r] = slot[r]
         /\ slot'[s].id = i /\ slot'[s].side = o.side /\ slot'[s].price = am.price
         /\ slot'[s].since = calls + 1 /\ slot'[s].quantity = am.quantity /\ slot'[s].filled = o.filled
         /\ queue' = Linked(q, o.side, am.price, s)
         /\ keys' = KeysWith(ks, o.side, am.price) /\ best' = Raised(b, o.side, am.price)
         /\ strayed' = (strayed \/ am.price \notin Arena)
         /\ UNCHANGED <<free, index, incoming, pc, executions>>
<1> DEFINE amended == [o EXCEPT !.quantity = am.quantity, !.price = am.price]
           p == [amended EXCEPT !.since = calls + 1]
<1>1. /\ pc = "idle" /\ s # Null /\ calls < MaxCalls /\ calls' = calls + 1
      /\ slot' = [slot EXCEPT ![s] = p]
      /\ queue' = Linked(q, o.side, am.price, s)
      /\ keys' = KeysWith(ks, o.side, am.price) /\ best' = Raised(b, o.side, am.price)
      /\ strayed' = (strayed \/ am.price \notin Arena)
      /\ UNCHANGED <<free, index, incoming, pc, executions>>
  BY DEF ModifyRequeue
<1>2. s \in 1 .. Len(slot) /\ o \in OrderRecord /\ slot \in Seq(OrderRecord) /\ s \in Nat
      /\ o.id = i /\ o.side \in Side
  BY <1>1, FoundFacts, SlotType DEF NativeInv, TypeOK
<1>3. calls + 1 \in Nat /\ calls + 1 \in 0 .. MaxCalls
  BY <1>1, NativeAssumption DEF NativeInv, TypeOK
<1>4. /\ p \in OrderRecord /\ p.id = o.id /\ p.side = o.side /\ p.price = am.price
      /\ p.filled = o.filled /\ p.since = calls + 1 /\ p.quantity = am.quantity /\ am.price \in Tick
  <2>1. /\ amended \in OrderRecord /\ amended.id = o.id /\ amended.side = o.side /\ amended.price = am.price
        /\ amended.filled = o.filled /\ amended.quantity = am.quantity /\ am.price \in Tick
    BY <1>2, AmendedRecord
  <2> HIDE DEF amended
  <2>2. QED
    BY <2>1, <1>3, StampedRecord
<1> HIDE DEF p
<1>5. /\ slot' \in Seq(OrderRecord) /\ Len(slot') = Len(slot) /\ slot'[s] = p
      /\ \A r \in 1 .. Len(slot) \ {s} : slot'[r] = slot[r]
  BY <1>1, <1>2, <1>4, ExceptSeq
<1>6. QED
  BY <1>1, <1>2, <1>3, <1>4, <1>5

LEMMA ModifyRequeueStep ==
  ASSUME NativeInv, NEW i \in Id, NEW am \in Amendments, ModifyRequeue(i, am)
  PROVE  NativeInv'
<1> DEFINE s == index[i]
           o == slot[s]
           q == Unlinked(s)
           ks == KeysWithout(q, o.side, o.price)
           b == Updated(q, ks, o.side, o.price)
           t == am.price
<1>1. /\ pc = "idle" /\ s # Null /\ calls + 1 \in 0 .. MaxCalls /\ calls' = calls + 1
      /\ s \in 1 .. Len(slot) /\ s \in Nat /\ o.id = i /\ o.side \in Side /\ t \in Tick
      /\ slot' \in Seq(OrderRecord) /\ Len(slot') = Len(slot)
      /\ \A r \in 1 .. Len(slot) \ {s} : slot'[r] = slot[r]
      /\ slot'[s].id = i /\ slot'[s].side = o.side /\ slot'[s].price = t /\ slot'[s].since = calls + 1
      /\ queue' = Linked(q, o.side, t, s)
      /\ keys' = KeysWith(ks, o.side, t) /\ best' = Raised(b, o.side, t)
      /\ strayed' = (strayed \/ t \notin Arena)
      /\ UNCHANGED <<free, index, incoming, pc, executions>>
  BY ModifyRequeueFacts
<1>2. /\ Removes(q, s) /\ ks \in [Side -> SUBSET Tick] /\ b \in [Side -> Tick \cup {None}]
      /\ ~strayed => \A u \in Side : Bounds(q, ks, b, u) /\ Stands(q, b, u)
  BY <1>1, CacheRemoved
<1> HIDE DEF q, ks, b, t
<1>3. /\ Shaped(q)
      /\ \A u \in Side : \A v \in Tick : Arranged(q[u][v], slot) /\ ToSet(q[u][v]) = ToSet(queue[u][v]) \ {s}
  BY <1>2 DEF Removes
<1>4. /\ Shaped(queue') /\ queue'[o.side][t] # <<>>
      /\ \A u \in Side : \A v \in Tick : u # o.side \/ v # t => queue'[u][v] = q[u][v]
  <2>1. s \in Nat /\ o.side \in Side /\ t \in Tick
    BY <1>1
  <2>2. /\ Shaped(Linked(q, o.side, t, s)) /\ Linked(q, o.side, t, s)[o.side][t] # <<>>
        /\ \A u \in Side : \A v \in Tick : u # o.side \/ v # t => Linked(q, o.side, t, s)[u][v] = q[u][v]
    BY <2>1, <1>3, LinkedFacts
  <2>3. QED
    BY <2>2, <1>1
<1>5. ToSet(queue'[o.side][t]) = ToSet(q[o.side][t]) \cup {s}
  <2>1. s \in Nat /\ o.side \in Side /\ t \in Tick
    BY <1>1
  <2> HIDE DEF s, o
  <2>2. Linked(q, o.side, t, s)[o.side][t] = Append(q[o.side][t], s)
    BY <2>1, <1>3, LinkedFacts
  <2>3. q[o.side][t] \in Seq(Nat)
    BY <2>1, <1>3, LevelType
  <2>4. ToSet(Append(q[o.side][t], s)) = ToSet(q[o.side][t]) \cup {s}
    BY <2>1, <2>3, AppendFacts
  <2>5. QED
    BY <2>2, <2>4, <1>1
<1>6. \A j \in Id : index[j] # Null => index[j] \in 1 .. Len(slot) /\ (index[j] = s => j = i)
  BY <1>1, FoundFacts
<1>7. calls \in Nat
  BY DEF NativeInv, TypeOK
<1>8. TypeOK'
  <2>1. keys' \in [Side -> SUBSET Tick] /\ best' \in [Side -> Tick \cup {None}]
    BY <1>1, <1>2, KeysWithType, RaisedFacts
  <2>2. strayed' \in BOOLEAN
    BY <1>1
  <2>3. QED
    BY <2>1, <2>2, <1>1, <1>4 DEF NativeInv, TypeOK
<1>9. QueuesArranged'
  <2>1. ASSUME NEW u \in Side, NEW v \in Tick PROVE Arranged(q[u][v], slot')
    <3>1. q[u][v] \in Seq(Nat) /\ Arranged(q[u][v], slot)
      BY <1>3, LevelType
    <3>2. \A r \in ToSet(q[u][v]) : r \in 1 .. Len(slot) /\ r # s
      BY <1>3 DEF NativeInv, QueuedAreFiled, Filed
    <3>3. \A r \in ToSet(q[u][v]) : slot'[r].since = slot[r].since
      BY <3>2, <1>1
    <3>4. QED
      BY <3>1, <3>3, ArrangedAgree
  <2>2. ASSUME NEW r \in ToSet(q[o.side][t]) PROVE slot'[r].since < slot'[s].since
    <3>1. Filed(r, o.side, t) /\ r # s
      BY <1>1, <1>3 DEF NativeInv, QueuedAreFiled
    <3>2. slot[r].since <= calls /\ slot[r].since \in Nat /\ slot'[r] = slot[r]
      BY <3>1, <1>1, SlotType DEF Filed, NativeInv
    <3>3. QED
      BY <3>2, <1>1, <1>7
  <2>3. \A u \in Side : \A v \in Tick : Arranged(Linked(q, o.side, t, s)[u][v], slot')
    BY <2>1, <2>2, <1>1, <1>3, LinkedArranged
  <2>4. QED
    BY <2>3, <1>1 DEF QueuesArranged
<1>10. QueuedAreFiled'
  <2>1. SUFFICES ASSUME NEW u \in Side, NEW v \in Tick, NEW r \in ToSet(queue'[u][v]) PROVE Filed(r, u, v)'
    BY DEF QueuedAreFiled
  <2>2. CASE r = s /\ u = o.side /\ v = t
    BY <2>2, <1>1, <1>7 DEF Filed
  <2>3. CASE r \in ToSet(q[u][v])
    <3>1. Filed(r, u, v) /\ r # s
      BY <2>3, <1>3 DEF NativeInv, QueuedAreFiled
    <3>2. slot[r].since <= calls /\ slot[r].since \in Nat /\ slot'[r] = slot[r]
      BY <3>1, <1>1, SlotType DEF Filed, NativeInv
    <3>3. slot'[r].since <= calls'
      BY <3>2, <1>1, <1>7
    <3>4. QED
      BY <3>1, <3>2, <3>3, <1>1 DEF Filed
  <2>4. QED
    BY <2>1, <2>2, <2>3, <1>4, <1>5
<1>11. IndexedAreFound'
  <2>1. SUFFICES ASSUME NEW j \in Id, index[j] # Null PROVE Found(j)'
    BY <1>1 DEF IndexedAreFound
  <2>2. Found(j) /\ Found(i)
    BY <2>1, <1>1 DEF NativeInv, IndexedAreFound
  <2>3. i <= calls' /\ j <= calls'
    BY <2>2, <1>1, <1>7 DEF Found, Id
  <2>4. CASE j = i
    BY <2>2, <2>3, <2>4, <1>1, <1>5 DEF Found
  <2>5. CASE j # i
    <3>1. index[j] \in 1 .. Len(slot) \ {s}
      BY <2>1, <2>5, <1>6
    <3>2. slot'[index[j]] = slot[index[j]]
      BY <3>1, <1>1
    <3>3. slot[index[j]].side \in Side /\ slot[index[j]].price \in Tick
      BY <2>1, FoundFacts
    <3>4. index[j] \in ToSet(q[slot[index[j]].side][slot[index[j]].price])
      BY <2>2, <3>1, <3>3, <1>3 DEF Found
    <3>5. index[j] \in ToSet(queue'[slot[index[j]].side][slot[index[j]].price])
      BY <3>3, <3>4, <1>4, <1>5
    <3>6. QED
      BY <2>2, <2>3, <3>2, <3>5, <1>1 DEF Found
  <2>6. QED
    BY <2>4, <2>5
<1>12. FreeAreFree' /\ SlotsUsed'
  BY <1>1, FreeKept
<1>13. HandHeld'
  BY <1>1 DEF NativeInv, HandHeld
<1>14. CacheHolds'
  <2>1. SUFFICES ASSUME ~strayed, t \in Arena, NEW u \in Side
                 PROVE  Bounds(queue', keys', best', u) /\ Stands(queue', best', u)
    BY <1>1 DEF CacheHolds, Bounds, Stands
  <2>2. Bounds(q, ks, b, u) /\ Stands(q, b, u)
    BY <2>1, <1>2
  <2>3. CASE u = o.side
    <3>1. \A v \in Tick \ {t} : queue'[u][v] = q[u][v]
      BY <2>3, <1>4
    <3>2. QED
      BY <2>1, <2>2, <2>3, <3>1, <1>1, <1>2, <1>4, RaisedFacts
  <2>4. CASE u # o.side
    <3>1. keys'[u] = ks[u] /\ best'[u] = b[u]
      BY <2>4, <1>1, <1>2, KeysWithType, RaisedFacts
    <3>2. \A v \in Tick : queue'[u][v] = q[u][v]
      BY <2>4, <1>4
    <3>3. b[u] \in Tick \cup {None}
      BY <1>2
    <3>4. QED
      BY <2>2, <3>1, <3>2, <3>3 DEF Bounds, Stands
  <2>5. QED
    BY <2>3, <2>4
<1>15. QED
  BY <1>8, <1>9, <1>10, <1>11, <1>12, <1>13, <1>14 DEF NativeInv

-----------------------------------------------------------------------------
(* The start of a call: the head of the free list, made longer if need be, *)
(* holds the new order.                                                    *)
LEMMA ThreadedFacts ==
  ASSUME NEW n \in Nat
  PROVE  /\ Threaded(n) \in Seq(Nat) /\ Threaded(n) # <<>> /\ IsInjective(Threaded(n))
         /\ \A r \in ToSet(Threaded(n)) : r \in n + 1 .. n + ChunkSize
         /\ \A r \in n + 1 .. n + ChunkSize : r \in ToSet(Threaded(n))
<1> DEFINE th == Threaded(n)
<1>1. ChunkSize \in Nat \ {0}
  BY NativeAssumption
<1>2. \A i \in 1 .. ChunkSize : n + ChunkSize + 1 - i \in Nat
  BY <1>1
<1>3. th \in [1 .. ChunkSize -> Nat] /\ \A i \in 1 .. ChunkSize : th[i] = n + ChunkSize + 1 - i
  BY <1>2 DEF Threaded
<1>4. th \in Seq(Nat) /\ Len(th) = ChunkSize /\ DOMAIN th = 1 .. ChunkSize
  BY <1>1, <1>3, Tabulated
<1> HIDE DEF th
<1>5. th # <<>>
  BY <1>1, <1>4, EmptySeq
<1>6. IsInjective(th)
  BY <1>1, <1>3, <1>4 DEF IsInjective
<1>7. ASSUME NEW r \in ToSet(th) PROVE r \in n + 1 .. n + ChunkSize
  <2>1. PICK i \in 1 .. ChunkSize : th[i] = r
    BY <1>4, ToSetFacts
  <2>2. QED
    BY <2>1, <1>1, <1>3
<1>8. ASSUME NEW r \in n + 1 .. n + ChunkSize PROVE r \in ToSet(th)
  <2>1. \E i \in 1 .. ChunkSize : i = n + ChunkSize + 1 - r
    BY <1>1
  <2>2. PICK i \in 1 .. ChunkSize : i = n + ChunkSize + 1 - r
    BY <2>1
  <2>3. th[i] = r
    BY <2>2, <1>1, <1>3
  <2>4. th[i] \in ToSet(th)
    BY <1>4, ToSetFacts
  <2>5. QED
    BY <2>3, <2>4
<1>9. QED
  BY <1>4, <1>5, <1>6, <1>7, <1>8 DEF th

LEMMA AllocateFacts ==
  ASSUME NativeInv, pc = "idle"
  PROVE  /\ FreeList \in Seq(Nat) /\ FreeList # <<>> /\ IsInjective(FreeList)
         /\ Slots \in Seq(OrderRecord) /\ Len(slot) \in Nat /\ Len(slot) <= Len(Slots)
         /\ \A r \in 1 .. Len(slot) : r \in 1 .. Len(Slots) /\ Slots[r] = slot[r]
         /\ \A r \in ToSet(FreeList) : r \in 1 .. Len(Slots) /\ \A i \in Id : index[i] # r
         /\ \A r \in 1 .. Len(Slots) : r \in ToSet(FreeList) \/ \E i \in Id : index[i] = r
<1>1. /\ slot \in Seq(OrderRecord) /\ free \in Seq(Nat) /\ Len(slot) \in Nat /\ incoming = Null
      /\ \A r \in 1 .. Len(slot) : r # Null
  <2>1. slot \in Seq(OrderRecord) /\ free \in Seq(Nat) /\ incoming = Null
    BY DEF NativeInv, TypeOK, HandHeld
  <2>2. QED
    BY <2>1, LenProperties, SlotType DEF NativeInv
<1>2. \A i \in Id : index[i] # Null => index[i] \in 1 .. Len(slot)
  BY FoundFacts
<1>3. CASE free # <<>>
  <2>1. FreeList = free /\ Slots = slot
    BY <1>3 DEF FreeList, Slots
  <2>2. IsInjective(free) /\ \A r \in ToSet(free) : r \in 1 .. Len(slot) /\ \A i \in Id : index[i] # r
    BY DEF NativeInv, FreeAreFree
  <2>3. \A r \in 1 .. Len(slot) : r \in ToSet(free) \/ \E i \in Id : index[i] = r
    BY <1>1 DEF NativeInv, SlotsUsed
  <2>4. QED
    BY <2>1, <2>2, <2>3, <1>1, <1>3
<1>4. CASE free = <<>>
  <2> DEFINE chunk == [i \in 1 .. ChunkSize |-> NewOrder]
             n == Len(slot)
  <2>1. ChunkSize \in Nat \ {0}
    BY NativeAssumption
  <2>2. FreeList = Threaded(n) /\ Slots = slot \o chunk
    BY <1>4 DEF FreeList, Slots
  <2>3. NewOrder \in OrderRecord
    BY DEF NewOrder, OrderRecord, Side, OrderType
  <2>4. chunk \in [1 .. ChunkSize -> OrderRecord]
    BY <2>3
  <2>5. chunk \in Seq(OrderRecord) /\ Len(chunk) = ChunkSize
    BY <2>1, <2>4, Tabulated
  <2> HIDE DEF chunk
  <2>6. /\ slot \o chunk \in Seq(OrderRecord) /\ Len(slot \o chunk) = Len(slot) + Len(chunk)
        /\ \A r \in 1 .. Len(slot) + Len(chunk) : (slot \o chunk)[r] = IF r <= Len(slot) THEN slot[r] ELSE chunk[r - Len(slot)]
    BY <2>5, <1>1, ConcatProperties
  <2>7. Len(Slots) = n + ChunkSize /\ \A r \in 1 .. Len(slot) : r \in 1 .. Len(Slots) /\ Slots[r] = slot[r]
    BY <2>1, <2>2, <2>5, <2>6, <1>1
  <2>8. /\ Threaded(n) \in Seq(Nat) /\ Threaded(n) # <<>> /\ IsInjective(Threaded(n))
        /\ \A r \in ToSet(Threaded(n)) : r \in n + 1 .. n + ChunkSize
        /\ \A r \in n + 1 .. n + ChunkSize : r \in ToSet(Threaded(n))
    BY <1>1, ThreadedFacts
  <2>9. \A r \in n + 1 .. n + ChunkSize : r \in 1 .. Len(Slots) /\ \A i \in Id : index[i] # r
    BY <2>1, <2>7, <1>1, <1>2 DEF Null
  <2>10. ASSUME NEW r \in 1 .. Len(Slots) PROVE r \in ToSet(Threaded(n)) \/ \E i \in Id : index[i] = r
    <3>1. CASE r \in n + 1 .. n + ChunkSize
      BY <3>1, <2>8
    <3>2. CASE r \in 1 .. n
      <4>1. ToSet(free) = {}
        BY <1>4, <1>1, ToSetFacts
      <4>2. QED
        BY <3>2, <4>1, <1>1 DEF NativeInv, SlotsUsed
    <3>3. r \in n + 1 .. n + ChunkSize \/ r \in 1 .. n
      BY <2>1, <2>7, <1>1
    <3>4. QED
      BY <3>1, <3>2, <3>3
  <2>11. Len(slot) <= Len(Slots) /\ Slots \in Seq(OrderRecord)
    BY <2>1, <2>2, <2>6, <2>7, <1>1
  <2>12. QED
    BY <2>2, <2>7, <2>8, <2>9, <2>10, <2>11, <1>1
<1>5. QED
  BY <1>3, <1>4

LEMMA NewOrderType ==
  ASSUME NEW tk \in Tickets, calls \in Nat
  PROVE  /\ Order(tk) \in OrderRecord /\ Order(tk).id = calls + 1 /\ Order(tk).since = calls + 1
         /\ Order(tk).type # "MARKET" => Order(tk).price \in Tick
<1>1. tk \in [side : Side, type : OrderType, price : Int, quantity : Int]
  BY NativeAssumption
<1>2. tk.type # "MARKET" => tk.price \in Tick
  BY NativeAssumption
<1>3. QED
  BY <1>1, <1>2 DEF Order, OrderRecord

LEMMA ProcessFacts ==
  ASSUME NativeInv, NEW tk \in Tickets, ProcessOrder(tk)
  PROVE  /\ pc = "idle" /\ pc' = "match" /\ calls' = calls + 1 /\ calls \in Nat /\ calls' \in Id /\ calls' \in 0 .. MaxCalls
         /\ slot' \in Seq(OrderRecord) /\ Len(slot') = Len(Slots) /\ Len(slot) <= Len(Slots) /\ Len(slot) \in Nat
         /\ incoming' \in 1 .. Len(slot') /\ incoming' \in Nat /\ incoming' # Null
         /\ slot'[incoming'] = Order(tk)
         /\ \A r \in 1 .. Len(slot) : r \in 1 .. Len(slot') /\ (r # incoming' => slot'[r] = slot[r])
         /\ incoming' \notin ToSet(free') /\ free' \in Seq(Nat) /\ IsInjective(free')
         /\ \A r \in ToSet(free') : r \in 1 .. Len(slot') /\ \A i \in Id : index[i] # r
         /\ \A i \in Id : index[i] # incoming'
         /\ \A r \in 1 .. Len(slot') : r \in ToSet(free') \/ r = incoming' \/ \E i \in Id : index[i] = r
         /\ UNCHANGED <<queue, keys, best, index, executions, strayed>>
<1>1. /\ pc = "idle" /\ calls < MaxCalls /\ calls' = calls + 1 /\ pc' = "match"
      /\ incoming' = Head(FreeList) /\ free' = Tail(FreeList)
      /\ slot' = [Slots EXCEPT ![incoming'] = Order(tk)]
      /\ UNCHANGED <<queue, keys, best, index, executions, strayed>>
  BY DEF ProcessOrder
<1>2. /\ FreeList \in Seq(Nat) /\ FreeList # <<>> /\ IsInjective(FreeList)
      /\ Slots \in Seq(OrderRecord) /\ Len(slot) \in Nat /\ Len(slot) <= Len(Slots)
      /\ \A r \in 1 .. Len(slot) : r \in 1 .. Len(Slots) /\ Slots[r] = slot[r]
      /\ \A r \in ToSet(FreeList) : r \in 1 .. Len(Slots) /\ \A i \in Id : index[i] # r
      /\ \A r \in 1 .. Len(Slots) : r \in ToSet(FreeList) \/ \E i \in Id : index[i] = r
  BY <1>1, AllocateFacts
<1>3. /\ free' \in Seq(Nat) /\ IsInjective(free') /\ ToSet(free') = ToSet(FreeList) \ {incoming'}
      /\ incoming' \in ToSet(FreeList)
  BY <1>1, <1>2, InjectiveTail
<1>4. /\ calls \in Nat /\ calls' \in Id /\ calls' \in 0 .. MaxCalls
  BY <1>1, NativeAssumption DEF NativeInv, TypeOK, Id
<1>5. incoming' \in 1 .. Len(Slots) /\ Len(Slots) \in Nat /\ Order(tk) \in OrderRecord
  BY <1>2, <1>3, <1>4, NewOrderType, LenProperties
<1>6. /\ slot' \in Seq(OrderRecord) /\ Len(slot') = Len(Slots) /\ slot'[incoming'] = Order(tk)
      /\ \A r \in 1 .. Len(Slots) : r # incoming' => slot'[r] = Slots[r]
  <2> DEFINE s == incoming'
  <2>1. /\ [Slots EXCEPT ![s] = Order(tk)] \in Seq(OrderRecord)
        /\ Len([Slots EXCEPT ![s] = Order(tk)]) = Len(Slots)
        /\ \A r \in 1 .. Len(Slots) : [Slots EXCEPT ![s] = Order(tk)][r] = IF r = s THEN Order(tk) ELSE Slots[r]
    BY <1>2, <1>5, ExceptSeq
  <2>2. QED
    BY <2>1, <1>1, <1>5
<1>7. incoming' \in Nat /\ incoming' # Null
  BY <1>5 DEF Null
<1>8. QED
  BY <1>1, <1>2, <1>3, <1>4, <1>5, <1>6, <1>7

LEMMA ProcessStep ==
  ASSUME NativeInv, NEW tk \in Tickets, ProcessOrder(tk)
  PROVE  NativeInv'
<1>1. /\ pc = "idle" /\ pc' = "match" /\ calls' = calls + 1 /\ calls \in Nat /\ calls' \in Id /\ calls' \in 0 .. MaxCalls
      /\ slot' \in Seq(OrderRecord) /\ Len(slot) <= Len(slot') /\ Len(slot) \in Nat
      /\ incoming' \in 1 .. Len(slot') /\ incoming' \in Nat /\ incoming' # Null
      /\ slot'[incoming'] = Order(tk)
      /\ \A r \in 1 .. Len(slot) : r \in 1 .. Len(slot') /\ (r # incoming' => slot'[r] = slot[r])
      /\ UNCHANGED <<queue, keys, best, index, executions, strayed>>
  BY ProcessFacts
<1>2. /\ incoming' \notin ToSet(free') /\ free' \in Seq(Nat) /\ IsInjective(free')
      /\ \A r \in ToSet(free') : r \in 1 .. Len(slot') /\ \A i \in Id : index[i] # r
      /\ \A i \in Id : index[i] # incoming'
      /\ \A r \in 1 .. Len(slot') : r \in ToSet(free') \/ r = incoming' \/ \E i \in Id : index[i] = r
  BY ProcessFacts
<1>3. \A i \in Id : index[i] # Null => index[i] \in 1 .. Len(slot) /\ index[i] # incoming' /\ slot'[index[i]] = slot[index[i]]
  BY <1>1, <1>2, FoundFacts
<1>4. ASSUME NEW s \in Side, NEW t \in Tick, NEW r \in ToSet(queue[s][t])
      PROVE  Filed(r, s, t) /\ r \in 1 .. Len(slot) /\ r # incoming' /\ slot'[r] = slot[r]
  <2>1. Filed(r, s, t)
    BY DEF NativeInv, QueuedAreFiled
  <2>2. r \in 1 .. Len(slot) /\ slot[r].id \in Id /\ index[slot[r].id] = r
    BY <2>1 DEF Filed
  <2>3. QED
    BY <2>1, <2>2, <1>1, <1>2
<1>5. TypeOK'
  BY <1>1, <1>2 DEF NativeInv, TypeOK
<1>6. QueuesArranged'
  <2>1. SUFFICES ASSUME NEW s \in Side, NEW t \in Tick PROVE Arranged(queue[s][t], slot')
    BY <1>1 DEF QueuesArranged
  <2>2. \A r \in ToSet(queue[s][t]) : slot'[r].since = slot[r].since
    BY <1>4
  <2>3. QED
    BY <2>2, StandingTimes, ArrangedAgree
<1>7. QueuedAreFiled'
  <2>1. SUFFICES ASSUME NEW s \in Side, NEW t \in Tick, NEW r \in ToSet(queue[s][t]) PROVE Filed(r, s, t)'
    BY <1>1 DEF QueuedAreFiled
  <2>2. Filed(r, s, t) /\ r \in 1 .. Len(slot) /\ slot'[r] = slot[r]
    BY <1>4
  <2>3. slot[r].since \in Nat
    BY <2>2, SlotType DEF NativeInv
  <2>4. slot[r].since < calls' /\ slot[r].since <= calls'
    BY <2>2, <2>3, <1>1 DEF Filed
  <2>5. QED
    BY <2>2, <2>4, <1>1 DEF Filed
<1>8. IndexedAreFound'
  <2>1. SUFFICES ASSUME NEW i \in Id, index[i] # Null PROVE Found(i)'
    BY <1>1 DEF IndexedAreFound
  <2>2. Found(i)
    BY <2>1 DEF NativeInv, IndexedAreFound
  <2>3. i <= calls'
    BY <2>2, <1>1 DEF Found, Id
  <2>4. slot'[index[i]] = slot[index[i]] /\ index[i] \in 1 .. Len(slot')
    BY <2>1, <1>1, <1>3
  <2>5. QED
    BY <2>2, <2>3, <2>4, <1>1 DEF Found
<1>9. FreeAreFree' /\ SlotsUsed'
  BY <1>1, <1>2 DEF FreeAreFree, SlotsUsed
<1>10. HandHeld'
  <2>1. index[calls'] = Null
    <3>1. index[calls'] # Null => Found(calls')
      BY <1>1 DEF NativeInv, IndexedAreFound
    <3>2. ~(calls' <= calls)
      BY <1>1
    <3>3. QED
      BY <3>1, <3>2 DEF Found
  <2>2. /\ slot'[incoming'].id = calls' /\ slot'[incoming'].since = calls'
        /\ slot'[incoming'].type # "MARKET" => slot'[incoming'].price \in Tick
    BY <1>1, NewOrderType
  <2>3. QED
    BY <2>1, <2>2, <1>1, <1>2 DEF HandHeld, Taker
<1>11. CacheHolds'
  BY <1>1 DEF NativeInv, CacheHolds, Bounds, Stands
<1>12. QED
  BY <1>5, <1>6, <1>7, <1>8, <1>9, <1>10, <1>11 DEF NativeInv

-----------------------------------------------------------------------------
LEMMA InitHolds == Init => NativeInv
<1>1. SUFFICES ASSUME Init PROVE NativeInv
  OBVIOUS
<1>2. /\ slot = <<>> /\ free = <<>> /\ Len(slot) = 0 /\ ToSet(free) = {}
      /\ \A s \in Side : \A t \in Tick : queue[s][t] = <<>> /\ ToSet(queue[s][t]) = {}
      /\ \A s \in Side : keys[s] = {} /\ best[s] = None
      /\ \A i \in Id : index[i] = Null
      /\ incoming = Null /\ pc = "idle" /\ calls = 0 /\ executions = 0 /\ strayed = FALSE
  <2>1. <<>> \in Seq(Nat) /\ Len(<<>>) = 0
    BY EmptySeq
  <2>2. ToSet(<<>>) = {}
    BY <2>1, ToSetFacts
  <2>3. QED
    BY <1>1, <2>1, <2>2 DEF Init
<1>3. TypeOK
  <2>1. Shaped(queue)
    BY <1>1, EmptySeq DEF Init, Shaped
  <2>2. slot \in Seq(OrderRecord) /\ free \in Seq(Nat)
    BY <1>2, EmptySeq
  <2>3. keys \in [Side -> SUBSET Tick] /\ best \in [Side -> Tick \cup {None}] /\ index \in [Id -> Nat]
    BY <1>1 DEF Init, Null
  <2>4. 0 \in 0 .. MaxCalls
    BY NativeAssumption
  <2>5. /\ calls \in 0 .. MaxCalls /\ incoming \in Nat /\ executions \in Nat /\ strayed \in BOOLEAN
        /\ pc \in {"idle", "match", "level", "place"}
    BY <2>4, <1>2 DEF Null
  <2>6. QED
    BY <2>1, <2>2, <2>3, <2>5 DEF TypeOK
<1>4. QueuesArranged
  BY <1>2, EmptySeq DEF QueuesArranged, Arranged
<1>5. QueuedAreFiled /\ IndexedAreFound /\ HandHeld
  BY <1>2 DEF QueuedAreFiled, IndexedAreFound, HandHeld
<1>6. FreeAreFree /\ SlotsUsed
  <2>1. IsInjective(free)
    BY <1>2 DEF IsInjective
  <2>2. QED
    BY <2>1, <1>2 DEF FreeAreFree, SlotsUsed
<1>7. CacheHolds
  BY <1>2 DEF CacheHolds, Bounds, Stands
<1>8. QED
  BY <1>3, <1>4, <1>5, <1>6, <1>7 DEF NativeInv

LEMMA NativeStep == NativeInv /\ [Next]_vars => NativeInv'
<1>1. SUFFICES ASSUME NativeInv, [Next]_vars PROVE NativeInv'
  OBVIOUS
<1>2. CASE UNCHANGED vars
  BY <1>1, <1>2 DEF vars, NativeInv, TypeOK, QueuesArranged, QueuedAreFiled, Filed, IndexedAreFound,
       Found, FreeAreFree, SlotsUsed, HandHeld, Taker, Touch, Facing, CacheHolds, Bounds, Stands
<1>3. CASE \E tk \in Tickets : ProcessOrder(tk)
  BY <1>1, <1>3, ProcessStep
<1>4. CASE Step
  BY <1>1, <1>4, StartLevelStep, SkipLevelStep, MatchOverStep, DropSpentStep, ExecuteStep, LevelOverStep,
     PlaceStep DEF Step
<1>5. CASE \E i \in Id : Unknown(i)
  BY <1>2, <1>5 DEF Unknown
<1>6. CASE \E i \in Id : CancelOrder(i)
  BY <1>1, <1>6, CancelStep
<1>7. CASE \E i \in Id : \E am \in Amendments : ModifyInPlace(i, am)
  BY <1>1, <1>7, ModifyInPlaceStep
<1>8. CASE \E i \in Id : \E am \in Amendments : ModifyRequeue(i, am)
  BY <1>1, <1>8, ModifyRequeueStep
<1>9. QED
  BY <1>1, <1>2, <1>3, <1>4, <1>5, <1>6, <1>7, <1>8 DEF Next

(* The invariant of the C++ core holds of every run, whatever is submitted,*)
(* cancelled and amended (MatchingEngineCore).                             *)
THEOREM NativeInvHolds == Spec => []NativeInv
<1>1. Init => NativeInv
  BY InitHolds
<1>2. NativeInv /\ [Next]_vars => NativeInv'
  BY NativeStep
<1>3. QED
  BY <1>1, <1>2, PTL DEF Spec

-----------------------------------------------------------------------------
(* What the invariant says of the whole book.                              *)
LEMMA QueuedFacts ==
  ASSUME NativeInv
  PROVE  /\ \A r \in Queued : r \in 1 .. Len(slot) /\ slot[r].id \in Id /\ index[slot[r].id] = r /\ r # Null
         /\ \A i \in Id : index[i] # Null => index[i] \in Queued
<1>1. ASSUME NEW r \in Queued
      PROVE  r \in 1 .. Len(slot) /\ slot[r].id \in Id /\ index[slot[r].id] = r /\ r # Null
  <2>1. PICK x \in Levels : r \in ToSet(Level(x))
    BY DEF Queued
  <2>2. x[1] \in Side /\ x[2] \in Tick /\ r \in ToSet(queue[x[1]][x[2]])
    BY <2>1 DEF Levels, Level
  <2>3. Filed(r, x[1], x[2])
    BY <2>2 DEF NativeInv, QueuedAreFiled
  <2>4. QED
    BY <2>3, SlotType DEF Filed, NativeInv
<1>2. ASSUME NEW i \in Id, index[i] # Null PROVE index[i] \in Queued
  <2> DEFINE sd == slot[index[i]].side
             t == slot[index[i]].price
  <2>1. sd \in Side /\ t \in Tick /\ index[i] \in ToSet(queue[sd][t])
    BY <1>2, FoundFacts
  <2> HIDE DEF sd, t
  <2>2. <<sd, t>> \in Levels /\ index[i] \in ToSet(Level(<<sd, t>>))
    BY <2>1 DEF Levels, Level
  <2>3. QED
    BY <2>2 DEF Queued
<1>3. QED
  BY <1>1, <1>2

LEMMA InvPool == NativeInv => PoolConserved
<1>1. SUFFICES ASSUME NativeInv PROVE PoolConserved
  OBVIOUS
<1>2. \A r \in InHand : r = incoming /\ r # Null
  BY DEF InHand
<1>3. incoming # Null => incoming \in 1 .. Len(slot) /\ \A i \in Id : index[i] # incoming
  BY <1>1 DEF NativeInv, HandHeld
<1>4. \A r \in ToSet(free) : r \in 1 .. Len(slot) /\ r # incoming /\ \A i \in Id : index[i] # r
  BY <1>1 DEF NativeInv, FreeAreFree
<1>5. ToSet(free) \cup Queued \cup InHand = 1 .. Len(slot)
  <2>1. ASSUME NEW r \in 1 .. Len(slot) PROVE r \in ToSet(free) \cup Queued \cup InHand
    <3>1. r # Null
      BY <1>1, SlotType DEF NativeInv
    <3>2. r \in ToSet(free) \/ r = incoming \/ \E i \in Id : index[i] = r
      BY <1>1 DEF NativeInv, SlotsUsed
    <3>3. QED
      BY <1>1, <3>1, <3>2, QueuedFacts DEF InHand
  <2>2. QED
    BY <1>1, <1>2, <1>3, <1>4, <2>1, QueuedFacts
<1>6. ToSet(free) \cap Queued = {} /\ InHand \cap (ToSet(free) \cup Queued) = {}
  BY <1>1, <1>2, <1>3, <1>4, QueuedFacts
<1>7. IsInjective(free)
  BY <1>1 DEF NativeInv, FreeAreFree
<1>8. ASSUME NEW x \in Levels PROVE IsInjective(Level(x))
  <2>1. x[1] \in Side /\ x[2] \in Tick
    BY DEF Levels
  <2> DEFINE w == queue[x[1]][x[2]]
  <2>2. w \in Seq(Nat) /\ Arranged(w, slot) /\ \A r \in ToSet(w) : slot[r].since \in Int
    BY <1>1, <2>1, StandingTimes
  <2> HIDE DEF w
  <2>3. \A a, b \in 1 .. Len(w) : a < b => w[a] # w[b]
    BY <2>2, ArrangedDistinct
  <2>4. DOMAIN w = 1 .. Len(w) /\ Len(w) \in Nat
    BY <2>2, LenProperties
  <2>5. \A a, b \in DOMAIN w : w[a] = w[b] => a = b
    <3>1. SUFFICES ASSUME NEW a \in 1 .. Len(w), NEW b \in 1 .. Len(w), w[a] = w[b] PROVE a = b
      BY <2>4
    <3>2. ~(a < b) /\ ~(b < a)
      BY <2>3, <3>1
    <3>3. QED
      BY <3>2, <2>4
  <2>6. IsInjective(w)
    BY <2>5 DEF IsInjective
  <2>7. QED
    BY <2>6 DEF w, Level
<1>9. ASSUME NEW x \in Levels, NEW y \in Levels, x # y PROVE ToSet(Level(x)) \cap ToSet(Level(y)) = {}
  <2>1. /\ x[1] \in Side /\ x[2] \in Tick /\ y[1] \in Side /\ y[2] \in Tick
        /\ x[1] # y[1] \/ x[2] # y[2]
    BY <1>9 DEF Levels
  <2>2. SUFFICES ASSUME NEW r \in ToSet(queue[x[1]][x[2]]), r \in ToSet(queue[y[1]][y[2]]) PROVE FALSE
    BY DEF Level
  <2>3. Filed(r, x[1], x[2]) /\ Filed(r, y[1], y[2])
    BY <1>1, <2>1, <2>2 DEF NativeInv, QueuedAreFiled
  <2>4. QED
    BY <2>1, <2>3 DEF Filed
<1>10. QED
  BY <1>5, <1>6, <1>7, <1>8, <1>9 DEF PoolConserved

LEMMA InvIndex == NativeInv => IndexFindsResting
<1>1. SUFFICES ASSUME NativeInv PROVE IndexFindsResting
  OBVIOUS
<1>2. {index[i] : i \in Id} \ {Null} = Queued
  BY <1>1, QueuedFacts
<1>3. ASSUME NEW x \in Levels, NEW s \in ToSet(Level(x))
      PROVE  slot[s].side = x[1] /\ slot[s].price = x[2] /\ index[slot[s].id] = s
  <2>1. x[1] \in Side /\ x[2] \in Tick /\ s \in ToSet(queue[x[1]][x[2]])
    BY DEF Levels, Level
  <2>2. Filed(s, x[1], x[2])
    BY <1>1, <2>1 DEF NativeInv, QueuedAreFiled
  <2>3. QED
    BY <2>2 DEF Filed
<1>4. QED
  BY <1>2, <1>3 DEF IndexFindsResting

LEMMA InvBest == NativeInv => BestIsBest
<1>1. SUFFICES ASSUME NativeInv, pc = "idle", ~strayed, NEW s \in Side
               PROVE  best[s] = IF Occupied(queue, s, Tick) = {} THEN None ELSE BestOf(s, Occupied(queue, s, Tick))
  BY DEF BestIsBest
<1> DEFINE occ == Occupied(queue, s, Tick)
<1>2. occ \subseteq Tick /\ \A t \in Tick : t \in occ <=> queue[s][t] # <<>>
  BY OccupiedTicks
<1>3. Bounds(queue, keys, best, s) /\ Stands(queue, best, s)
  BY <1>1 DEF NativeInv, CacheHolds
<1>4. best[s] \in Tick \cup {None}
  BY <1>1 DEF NativeInv, TypeOK
<1> HIDE DEF occ
<1>5. CASE best[s] = None
  BY <1>5, <1>2, <1>3 DEF Bounds, occ
<1>6. CASE best[s] # None
  <2>1. best[s] \in occ /\ \A t \in occ : ~Better(s, t, best[s])
    BY <1>2, <1>3, <1>4, <1>6 DEF Bounds, Stands
  <2>2. BestOf(s, occ) \in occ /\ \A u \in occ : ~Better(s, u, BestOf(s, occ))
    BY <1>2, <2>1, BestOfFacts
  <2>3. best[s] \in Nat /\ BestOf(s, occ) \in Nat
    BY <1>2, <2>1, <2>2, TicksAreNat
  <2>4. ~Better(s, best[s], BestOf(s, occ)) /\ ~Better(s, BestOf(s, occ), best[s])
    BY <2>1, <2>2
  <2>5. best[s] = BestOf(s, occ)
    BY <2>3, <2>4 DEF Better
  <2>6. QED
    BY <2>1, <2>5 DEF occ
<1>7. QED
  BY <1>5, <1>6

(* Every slot of the pool is free, queued or in hand, and never two of     *)
(* these or one of them twice: allocate never hands out the slot of an     *)
(* order that rests, and deallocate, pop_head and remove lose none.        *)
THEOREM PoolIsConserved == Spec => []PoolConserved
BY NativeInvHolds, InvPool, PTL

(* order_index_ names exactly the orders that rest, and remove_order finds *)
(* each of them in the level its side and price lead to.                   *)
THEOREM IndexFinds == Spec => []IndexFindsResting
BY NativeInvHolds, InvIndex, PTL

(* The best ticks that insert_order, update_best_bid and update_best_ask   *)
(* keep are those of the best occupied levels whenever a call returns.     *)
THEOREM BestHolds == Spec => []BestIsBest
BY NativeInvHolds, InvBest, PTL

-----------------------------------------------------------------------------
(* The book as PriceTimeBook sees it: it depends on index and orders only. *)
Shown == {i \in Id : index[i] # Null /\ Remaining(slot[index[i]]) > 0}

Entry(i) ==
  [side |-> slot[index[i]].side, price |-> slot[index[i]].price, tick |-> slot[index[i]].price,
   since |-> slot[index[i]].since, left |-> Remaining(slot[index[i]])]

ViewShows == RestingView = [i \in Shown |-> Entry(i)]

LEMMA ViewFacts == NativeInv => ViewShows
<1> SUFFICES ASSUME NativeInv PROVE ViewShows
  OBVIOUS
<1>1. {slot[s].id : s \in {r \in Queued : Remaining(slot[r]) > 0}} = Shown
  <2>1. ASSUME NEW r \in Queued, Remaining(slot[r]) > 0 PROVE slot[r].id \in Shown
    BY <2>1, QueuedFacts DEF Shown
  <2>2. ASSUME NEW i \in Shown
        PROVE  \E r \in Queued : Remaining(slot[r]) > 0 /\ slot[r].id = i
    <3>1. index[i] \in Queued /\ Remaining(slot[index[i]]) > 0 /\ slot[index[i]].id = i
      BY QueuedFacts, FoundFacts DEF Shown
    <3>2. QED
      BY <3>1
  <2>3. QED
    BY <2>1, <2>2
<1>2. RestingView = [i \in Shown |-> Entry(i)]
  BY <1>1 DEF RestingView, Entry
<1>3. QED
  BY <1>2 DEF ViewShows

LEMMA ViewFactsNext == NativeInv' => ViewShows'
BY ViewFacts, PTL

(* Both views of a step.                                                   *)
LEMMA Views ==
  ASSUME NativeInv, NativeInv'
  PROVE  /\ DOMAIN RestingView = Shown /\ \A i \in Shown : RestingView[i] = Entry(i)
         /\ DOMAIN RestingView' = Shown' /\ \A i \in Shown' : RestingView'[i] = Entry(i)'
         /\ Shown' = Shown /\ (\A i \in Shown : Entry(i)' = Entry(i)) => RestingView' = RestingView
<1>1. RestingView = [i \in Shown |-> Entry(i)]
  BY ViewFacts DEF ViewShows
<1>2. RestingView' = [i \in Shown' |-> Entry(i)']
  BY ViewFactsNext DEF ViewShows
<1> HIDE DEF RestingView, Shown, Entry
<1>3. Shown' = Shown /\ (\A i \in Shown : Entry(i)' = Entry(i)) => RestingView' = RestingView
  BY <1>1, <1>2
<1>4. QED
  BY <1>1, <1>2, <1>3

(* Steps that leave the index and the orders it names as they are.         *)
LEMMA SameView ==
  ASSUME NativeInv, NativeInv', UNCHANGED index,
         \A i \in Id : index[i] # Null => slot'[index[i]] = slot[index[i]]
  PROVE  RestingView' = RestingView
<1>1. Shown' = Shown
  BY DEF Shown
<1>2. \A i \in Shown : Entry(i)' = Entry(i)
  BY DEF Shown, Entry
<1>3. QED
  BY <1>1, <1>2, Views

(* Steps that show one order more, less or differently.                    *)
OnlyChanges(u) ==
  \A i \in Id \ {u} : index'[i] = index[i] /\ (index[i] # Null =>
     /\ slot'[index[i]].side = slot[index[i]].side /\ slot'[index[i]].price = slot[index[i]].price
     /\ slot'[index[i]].since = slot[index[i]].since /\ Remaining(slot'[index[i]]) = Remaining(slot[index[i]]))

LEMMA OthersShown ==
  ASSUME NativeInv, NativeInv', NEW u \in Id, OnlyChanges(u)
  PROVE  /\ \A i \in Id \ {u} : i \in Shown' <=> i \in Shown
         /\ \A i \in Shown \ {u} : Entry(i)' = Entry(i)
         /\ PriceTime!OthersKept(u)
<1>1. \A i \in Id \ {u} : i \in Shown' <=> i \in Shown
  BY DEF Shown, OnlyChanges
<1>2. \A i \in Shown \ {u} : Entry(i)' = Entry(i)
  BY DEF Shown, Entry, OnlyChanges
<1>3. Shown \subseteq Id
  BY DEF Shown
<1> HIDE DEF Shown, Entry
<1>4. \A v \in DOMAIN RestingView \ {u} : v \in DOMAIN RestingView' /\ RestingView'[v] = RestingView[v]
  BY <1>1, <1>2, <1>3, Views
<1>5. QED
  BY <1>1, <1>2, <1>4 DEF PriceTime!OthersKept

LEMMA LeaveView ==
  ASSUME NativeInv, NativeInv', NEW u \in Id, OnlyChanges(u), u \notin Shown', UNCHANGED executions
  PROVE  /\ u \in Shown => u \in DOMAIN RestingView /\ PriceTime!Leave(u)
         /\ u \notin Shown => UNCHANGED <<RestingView, executions>>
<1>1. Shown \subseteq Id /\ Shown' \subseteq Id
  BY DEF Shown
<1>2. /\ \A i \in Id \ {u} : i \in Shown' <=> i \in Shown
      /\ \A i \in Shown \ {u} : Entry(i)' = Entry(i)
      /\ PriceTime!OthersKept(u)
  BY OthersShown
<1> HIDE DEF Shown, Entry
<1>3. DOMAIN RestingView = Shown /\ DOMAIN RestingView' = Shown'
  BY Views
<1>4. Shown' = Shown \ {u}
  BY <1>1, <1>2
<1>5. ASSUME u \in Shown PROVE u \in DOMAIN RestingView /\ PriceTime!Leave(u)
  BY <1>2, <1>3, <1>4, <1>5 DEF PriceTime!Leave
<1>6. ASSUME u \notin Shown PROVE UNCHANGED <<RestingView, executions>>
  <2>1. Shown' = Shown /\ \A i \in Shown : Entry(i)' = Entry(i)
    BY <1>2, <1>4, <1>6
  <2>2. QED
    BY <2>1, Views
<1>7. QED
  BY <1>5, <1>6

-----------------------------------------------------------------------------
(* Each step implements one of PriceTimeBook or changes nothing it sees.   *)
LEMMA ProcessView ==
  ASSUME NativeInv, NativeInv', NEW tk \in Tickets, ProcessOrder(tk)
  PROVE  UNCHANGED <<RestingView, executions>>
<1>1. /\ UNCHANGED <<index, executions>>
      /\ \A r \in 1 .. Len(slot) : r # incoming' => slot'[r] = slot[r]
      /\ \A i \in Id : index[i] # incoming'
  BY ProcessFacts
<1>2. \A i \in Id : index[i] # Null => slot'[index[i]] = slot[index[i]]
  BY <1>1, FoundFacts
<1>3. QED
  BY <1>1, <1>2, SameView

LEMMA DropSpentView ==
  ASSUME NativeInv, NativeInv', DropSpent
  PROVE  UNCHANGED <<RestingView, executions>>
<1> DEFINE m == Head(TouchQueue)
<1>1. /\ pc = "level" /\ TouchQueue # <<>> /\ Remaining(slot[m]) <= 0
      /\ index' = [index EXCEPT ![slot[m].id] = Null] /\ UNCHANGED <<slot, executions>>
  BY DEF DropSpent, Pop
<1>2. m \in 1 .. Len(slot) /\ slot[m].id \in Id /\ index[slot[m].id] = m
  BY <1>1, HeadFacts DEF Filed
<1>3. Remaining(slot[m]) \in Int
  BY <1>2, SlotType DEF NativeInv
<1> HIDE DEF m
<1>4. index'[slot[m].id] = Null /\ \A i \in Id \ {slot[m].id} : index'[i] = index[i]
  BY <1>1, <1>2 DEF NativeInv, TypeOK
<1>5. OnlyChanges(slot[m].id)
  BY <1>1, <1>4 DEF OnlyChanges
<1>6. slot[m].id \notin Shown /\ slot[m].id \notin Shown'
  BY <1>1, <1>2, <1>3, <1>4 DEF Shown
<1>7. QED
  BY <1>1, <1>2, <1>5, <1>6, LeaveView

(* The head of the level at the best tick precedes everybody on its side.  *)
LEMMA HeadIsFirst ==
  ASSUME NativeInv, pc = "level", TouchQueue # <<>>, ~strayed, NEW v \in Shown
  PROVE  LET m == Head(TouchQueue) IN
         ~(/\ Entry(v).side = slot[m].side
           /\ \/ Entry(v).tick = slot[m].price /\ Entry(v).since < slot[m].since
              \/ Better(slot[m].side, Entry(v).tick, slot[m].price))
<1> DEFINE m == Head(TouchQueue)
           r == index[v]
<1>1. /\ Facing \in Side /\ Touch \in Tick /\ slot[m].side = Facing /\ slot[m].price = Touch
      /\ m \in ToSet(TouchQueue)
  BY HeadFacts DEF Filed
<1>2. /\ r \in 1 .. Len(slot) /\ slot[r].side \in Side /\ slot[r].price \in Tick
      /\ r \in ToSet(queue[slot[r].side][slot[r].price])
  BY FoundFacts DEF Shown
<1>3. Entry(v).side = slot[r].side /\ Entry(v).tick = slot[r].price /\ Entry(v).since = slot[r].since
  BY DEF Entry
<1>4. SUFFICES ASSUME slot[r].side = Facing
               PROVE  /\ ~(slot[r].price = Touch /\ slot[r].since < slot[m].since)
                      /\ ~Better(Facing, slot[r].price, Touch)
  BY <1>1, <1>3
<1>5. queue[Facing][slot[r].price] # <<>>
  <2>1. queue[Facing][slot[r].price] \in Seq(Nat)
    BY <1>1, <1>2, StandingTimes
  <2>2. \A w \in Seq(Nat) : ToSet(w) = {} <=> w = <<>>
    BY ToSetFacts
  <2>3. QED
    BY <2>1, <2>2, <1>2, <1>4
<1>6. ~Better(Facing, slot[r].price, Touch)
  <2>1. Bounds(queue, keys, best, Facing)
    BY <1>1 DEF NativeInv, CacheHolds
  <2>2. QED
    BY <2>1, <1>2, <1>5 DEF Bounds, Touch
<1>7. ASSUME slot[r].price = Touch, slot[r].since < slot[m].since PROVE FALSE
  <2>1. TouchQueue \in Seq(Nat) /\ Arranged(TouchQueue, slot)
    BY <1>1, StandingTimes DEF TouchQueue
  <2>2. r \in ToSet(TouchQueue)
    BY <1>2, <1>4, <1>7 DEF TouchQueue
  <2>3. PICK k \in 1 .. Len(TouchQueue) : TouchQueue[k] = r
    BY <2>1, <2>2, ToSetFacts
  <2>4. m = TouchQueue[1] /\ 1 \in 1 .. Len(TouchQueue)
    BY <2>1, TailIsRemoveAt
  <2>5. m \in 1 .. Len(slot)
    BY HeadFacts DEF Filed
  <2>6. slot[m].since \in Nat /\ slot[r].since \in Nat
    BY <2>5, <1>2, SlotType DEF NativeInv
  <2>7. CASE k = 1
    BY <2>3, <2>4, <2>6, <2>7, <1>7
  <2>8. CASE k # 1
    <3>1. 1 < k
      BY <2>3, <2>8
    <3>2. slot[m].since < slot[r].since
      BY <3>1, <2>1, <2>3, <2>4 DEF Arranged
    <3>3. QED
      BY <3>2, <2>6, <1>7
  <2>9. QED
    BY <2>7, <2>8
<1>8. QED
  BY <1>6, <1>7

LEMMA ExecuteView ==
  ASSUME NativeInv, NativeInv', Execute, ~strayed
  PROVE  \E u \in DOMAIN RestingView : PriceTime!Execute(u)
<1> DEFINE m == Head(TouchQueue)
<1>1. PICK q \in Int :
           /\ 0 < q /\ q <= Remaining(slot[m]) /\ Remaining(slot[m]) > 0
           /\ m \in 1 .. Len(slot) /\ m # incoming
           /\ q = Remaining(slot[m]) => Pop(m)
           /\ q # Remaining(slot[m]) => UNCHANGED <<queue, index, free>>
           /\ Alike
           /\ \A r \in 1 .. Len(slot) : slot'[r].quantity = slot[r].quantity
           /\ \A r \in 1 .. Len(slot) \ {incoming, m} : slot'[r].filled = slot[r].filled
           /\ slot'[m].filled = slot[m].filled + q
  BY ExecuteFacts
<1>2. pc = "level" /\ TouchQueue # <<>> /\ executions' = executions + 1
  BY DEF Execute
<1>3. PICK u \in Id : u = slot[m].id /\ index[u] = m /\ m # Null
  BY <1>1, <1>2, HeadFacts, SlotType DEF Filed, NativeInv
<1>4. index \in [Id -> Nat]
  BY DEF NativeInv, TypeOK
<1>5. u \in Shown
  BY <1>1, <1>3 DEF Shown
<1>6. /\ Entry(u).side = slot[m].side /\ Entry(u).tick = slot[m].price
      /\ Entry(u).since = slot[m].since /\ Entry(u).left = Remaining(slot[m])
  BY <1>3 DEF Entry
<1>7. \A v \in Shown : ~(/\ Entry(v).side = slot[m].side
                         /\ \/ Entry(v).tick = slot[m].price /\ Entry(v).since < slot[m].since
                            \/ Better(slot[m].side, Entry(v).tick, slot[m].price))
  BY <1>2, HeadIsFirst
<1>8. \A i \in Id \ {u} : index[i] # Null => index[i] \in 1 .. Len(slot) \ {m, incoming}
  <2>1. pc # "idle"
    BY <1>2
  <2>2. QED
    BY <2>1, <1>3, FoundFacts, HandFacts
<1>9. \A i \in Id \ {u} : index'[i] = index[i]
  <2>1. CASE q = Remaining(slot[m])
    BY <2>1, <1>1, <1>3, <1>4 DEF Pop
  <2>2. CASE q # Remaining(slot[m])
    BY <2>2, <1>1
  <2>3. QED
    BY <2>1, <2>2
<1>10. OnlyChanges(u)
  BY <1>1, <1>8, <1>9 DEF OnlyChanges, Alike, Remaining
<1> HIDE DEF m
<1>11. PriceTime!IsFirst(u)
  <2>1. DOMAIN RestingView = Shown /\ \A v \in Shown : RestingView[v] = Entry(v)
    BY Views
  <2>2. ASSUME NEW v \in Shown PROVE ~PriceTime!Precedes(Entry(v), Entry(u))
    BY <1>6, <1>7 DEF PriceTime!Precedes, Better
  <2> HIDE DEF RestingView, Shown, Entry
  <2>3. QED
    BY <2>1, <2>2, <1>5 DEF PriceTime!IsFirst
<1>12. PriceTime!OthersKept(u)
  BY <1>3, <1>10, OthersShown
<1>13. CASE q = Remaining(slot[m])
  <2>1. index'[u] = Null
    BY <1>1, <1>3, <1>4, <1>13 DEF Pop
  <2>2. Shown' = Shown \ {u}
    <3>1. u \notin Shown'
      BY <2>1 DEF Shown
    <3>2. \A i \in Id \ {u} : i \in Shown' <=> i \in Shown
      BY <1>3, <1>10, OthersShown
    <3>3. Shown \subseteq Id /\ Shown' \subseteq Id
      BY DEF Shown
    <3>4. QED
      BY <3>1, <3>2, <3>3
  <2>3. DOMAIN RestingView' = DOMAIN RestingView \ {u} /\ u \in DOMAIN RestingView
    BY <2>2, <1>5, Views
  <2>4. QED
    BY <2>3, <1>2, <1>11, <1>12 DEF PriceTime!Execute
<1>14. CASE q # Remaining(slot[m])
  <2>1. index'[u] = m /\ Remaining(slot'[m]) = Remaining(slot[m]) - q
    <3>1. slot[m] \in OrderRecord
      BY <1>1, SlotType DEF NativeInv
    <3>2. slot[m].filled \in Int /\ slot[m].quantity \in Int
      BY <3>1 DEF OrderRecord
    <3>3. QED
      BY <3>2, <1>1, <1>3, <1>14 DEF Remaining
  <2>2. Remaining(slot[m]) \in Int /\ Remaining(slot'[m]) > 0
    BY <2>1, <1>1, <1>14, SlotType DEF NativeInv
  <2>3. /\ u \in Shown'
        /\ Entry(u)' = [side |-> slot[m].side, price |-> slot[m].price, tick |-> slot[m].price, since |-> slot[m].since, left |-> Remaining(slot'[m])]
    BY <2>1, <2>2, <1>1, <1>3 DEF Shown, Entry, Alike
  <2>4. Entry(u) = [side |-> slot[m].side, price |-> slot[m].price, tick |-> slot[m].price, since |-> slot[m].since, left |-> Remaining(slot[m])]
    BY <1>3 DEF Entry
  <2>5. Entry(u)' = [Entry(u) EXCEPT !.left = Entry(u)'.left]
    BY <2>3, <2>4
  <2>6. Entry(u)'.left \in 1 .. Entry(u).left - 1
    BY <2>1, <2>2, <2>3, <2>4, <1>1, <1>14
  <2>7. Shown' = Shown
    <3>1. \A i \in Id \ {u} : i \in Shown' <=> i \in Shown
      BY <1>3, <1>10, OthersShown
    <3>2. Shown \subseteq Id /\ Shown' \subseteq Id
      BY DEF Shown
    <3>3. QED
      BY <3>1, <3>2, <2>3, <1>5
  <2>8. RestingView[u] = Entry(u) /\ RestingView'[u] = Entry(u)' /\ u \in DOMAIN RestingView
        /\ DOMAIN RestingView' = DOMAIN RestingView
    BY <2>3, <2>7, <1>5, Views
  <2> HIDE DEF RestingView, Shown, Entry
  <2>9. RestingView'[u].left \in 1 .. RestingView[u].left - 1
        /\ RestingView'[u] = [RestingView[u] EXCEPT !.left = RestingView'[u].left]
    BY <2>5, <2>6, <2>8
  <2>10. QED
    BY <2>8, <2>9, <1>2, <1>11, <1>12 DEF PriceTime!Execute
<1>15. QED
  BY <1>13, <1>14

(* Nobody shown has stood there for less time than the book has lasted.    *)
LEMMA ShownEarlier ==
  ASSUME NativeInv, NEW v \in Shown
  PROVE  Entry(v).since \in Nat /\ Entry(v).since <= calls
<1> DEFINE r == index[v]
<1>1. /\ r \in 1 .. Len(slot) /\ slot[r].side \in Side /\ slot[r].price \in Tick
      /\ r \in ToSet(queue[slot[r].side][slot[r].price])
  BY FoundFacts DEF Shown
<1>2. Filed(r, slot[r].side, slot[r].price)
  BY <1>1 DEF NativeInv, QueuedAreFiled
<1>3. slot[r].since \in Nat
  BY <1>1, SlotType DEF NativeInv
<1>4. QED
  BY <1>2, <1>3 DEF Filed, Entry

SincesAreNat == \A r \in 1 .. Len(slot) : slot[r].since \in Nat

LEMMA SinceTypes == TypeOK => SincesAreNat
BY SlotType DEF SincesAreNat

LEMMA SinceTypesNext == TypeOK' => SincesAreNat'
BY SinceTypes, PTL

LEMMA TailFollows ==
  ASSUME NativeInv, NativeInv', NEW u \in Id, u \in Shown', slot'[index'[u]].since >= calls
  PROVE  \A T \in SUBSET DOMAIN RestingView : PriceTime!JoinsTail(RestingView'[u], T)
<1>1. Entry(u)'.since >= calls
  BY DEF Entry
<1>2. calls \in Nat /\ Entry(u)'.since \in Nat
  <2>1. index'[u] \in 1 .. Len(slot)' /\ TypeOK'
    BY DEF Shown, NativeInv, IndexedAreFound, Found
  <2>2. \A r \in 1 .. Len(slot)' : slot'[r].since \in Nat
    BY <2>1, SinceTypesNext DEF SincesAreNat
  <2>3. calls \in Nat
    BY NativeAssumption DEF NativeInv, TypeOK
  <2>4. QED
    BY <2>1, <2>2, <2>3 DEF Entry
<1>3. \A v \in Shown : Entry(v).since \in Nat /\ Entry(v).since <= calls
  BY ShownEarlier
<1> HIDE DEF RestingView, Shown, Entry
<1>4. /\ DOMAIN RestingView = Shown /\ \A v \in Shown : RestingView[v] = Entry(v)
      /\ RestingView'[u] = Entry(u)'
  BY Views
<1>5. ASSUME NEW v \in Shown PROVE RestingView[v].since <= RestingView'[u].since
  BY <1>1, <1>2, <1>3, <1>4
<1>6. QED
  BY <1>4, <1>5 DEF PriceTime!JoinsTail

LEMMA EnterView ==
  ASSUME NativeInv, NativeInv', NEW u \in Id, OnlyChanges(u), u \notin Shown, u \in Shown',
         slot'[index'[u]].since >= calls, UNCHANGED executions
  PROVE  PriceTime!Enter(u)
<1>1. Shown \subseteq Id /\ Shown' \subseteq Id /\ Entry(u)'.left > 0
  BY DEF Shown, Entry
<1>2. (\A i \in Id \ {u} : i \in Shown' <=> i \in Shown) /\ PriceTime!OthersKept(u)
  BY OthersShown
<1>3. \A T \in SUBSET DOMAIN RestingView : PriceTime!JoinsTail(RestingView'[u], T)
  BY TailFollows
<1> HIDE DEF RestingView, Shown, Entry
<1>4. Shown' = Shown \cup {u}
  BY <1>1, <1>2
<1>5. DOMAIN RestingView = Shown /\ DOMAIN RestingView' = Shown' /\ RestingView'[u] = Entry(u)'
  BY Views
<1>6. QED
  BY <1>1, <1>2, <1>3, <1>4, <1>5 DEF PriceTime!Enter

LEMMA RequoteView ==
  ASSUME NativeInv, NativeInv', NEW u \in Id, OnlyChanges(u), u \in Shown, u \in Shown',
         slot'[index'[u]].side = slot[index[u]].side, slot'[index'[u]].since = calls + 1, UNCHANGED executions,
         \/ slot'[index'[u]].price # slot[index[u]].price
         \/ Remaining(slot'[index'[u]]) > Remaining(slot[index[u]])
  PROVE  u \in DOMAIN RestingView /\ PriceTime!Requote(u)
<1>1. /\ Shown \subseteq Id /\ Shown' \subseteq Id /\ Entry(u)'.left > 0
      /\ Entry(u)'.side = Entry(u).side /\ Entry(u)'.since = calls + 1
      /\ Entry(u)'.price # Entry(u).price \/ Entry(u)'.left > Entry(u).left
  BY DEF Shown, Entry
<1>2. (\A i \in Id \ {u} : i \in Shown' <=> i \in Shown) /\ PriceTime!OthersKept(u)
  BY OthersShown
<1>3. calls \in Nat
  BY NativeAssumption DEF NativeInv, TypeOK
<1>4. \A T \in SUBSET DOMAIN RestingView : PriceTime!JoinsTail(RestingView'[u], T)
  <2>1. slot'[index'[u]].since >= calls
    BY <1>3
  <2>2. QED
    BY <2>1, TailFollows
<1>5. Entry(u).since \in Nat /\ Entry(u).since <= calls
  BY ShownEarlier
<1> HIDE DEF RestingView, Shown, Entry
<1>6. Shown' = Shown
  BY <1>1, <1>2
<1>7. DOMAIN RestingView = Shown /\ DOMAIN RestingView' = Shown'
      /\ RestingView[u] = Entry(u) /\ RestingView'[u] = Entry(u)'
  BY Views
<1>8. QED
  BY <1>1, <1>2, <1>3, <1>4, <1>5, <1>6, <1>7 DEF PriceTime!Requote

LEMMA PlaceView ==
  ASSUME NativeInv, NativeInv', Place
  PROVE  (\E u \in Id : PriceTime!Enter(u)) \/ UNCHANGED <<RestingView, executions>>
<1>1. pc = "place" /\ UNCHANGED <<slot, calls, executions>>
  BY DEF Place
<1>2. CASE Remaining(Taker) > 0 /\ Taker.type \notin {"MARKET", "IOC"}
  <2>1. /\ calls \in Id /\ index[calls] = Null /\ Taker.id = calls /\ Taker.since = calls
        /\ incoming # Null /\ index \in [Id -> Nat]
    BY <1>1, HandFacts DEF NativeInv, HandHeld, TypeOK
  <2>2. index' = [index EXCEPT ![calls] = incoming]
    BY <1>2, <2>1 DEF Place, InsertOrder
  <2>3. index'[calls] = incoming /\ \A i \in Id \ {calls} : index'[i] = index[i]
    BY <2>1, <2>2 DEF TypeOK
  <2>4. OnlyChanges(calls)
    BY <1>1, <2>3 DEF OnlyChanges
  <2>5. calls \notin Shown /\ calls \in Shown'
    BY <1>1, <1>2, <2>1, <2>3 DEF Shown, Taker
  <2>6. slot'[index'[calls]].since >= calls
    BY <1>1, <2>1, <2>3, NativeAssumption DEF NativeInv, TypeOK, Taker
  <2>7. PICK u \in Id : u = calls
    BY <2>1
  <2>8. PriceTime!Enter(u)
    <3>1. OnlyChanges(u) /\ u \notin Shown /\ slot'[index'[u]].since >= calls
      BY <2>4, <2>5, <2>6, <2>7
    <3>2. u \in Shown'
      BY <1>1, <1>2, <2>1, <2>3, <2>7 DEF Shown, Taker
    <3>3. QED
      BY <3>1, <3>2, <1>1, EnterView
  <2>9. QED
    BY <2>8
<1>3. CASE ~(Remaining(Taker) > 0 /\ Taker.type \notin {"MARKET", "IOC"})
  <2>1. UNCHANGED <<index, slot, executions>>
    BY <1>1, <1>3 DEF Place
  <2>2. QED
    BY <2>1, SameView
<1>4. QED
  BY <1>2, <1>3

LEMMA CancelView ==
  ASSUME NativeInv, NativeInv', NEW i \in Id, CancelOrder(i)
  PROVE  (\E u \in DOMAIN RestingView : PriceTime!Leave(u)) \/ UNCHANGED <<RestingView, executions>>
<1>1. index[i] # Null /\ index' = [index EXCEPT ![slot[index[i]].id] = Null] /\ UNCHANGED <<slot, executions>>
  BY DEF CancelOrder, RemoveOrder
<1>2. slot[index[i]].id = i
  BY <1>1, FoundFacts
<1>3. index'[i] = Null /\ \A v \in Id \ {i} : index'[v] = index[v]
  BY <1>1, <1>2 DEF NativeInv, TypeOK
<1>4. OnlyChanges(i) /\ i \notin Shown'
  BY <1>1, <1>3 DEF OnlyChanges, Shown
<1>5. QED
  BY <1>1, <1>4, LeaveView

(* An amendment that leaves nothing takes the order off the view, though   *)
(* it keeps its slot until the match drops it.                             *)
LEMMA ModifyInPlaceView ==
  ASSUME NativeInv, NativeInv', NEW i \in Id, NEW am \in Amendments, ModifyInPlace(i, am)
  PROVE  \/ \E u \in DOMAIN RestingView : PriceTime!Leave(u) \/ PriceTime!Reduce(u)
         \/ UNCHANGED <<RestingView, executions>>
<1>1. /\ index[i] # Null /\ Alike
      /\ slot'[index[i]].quantity = am.quantity /\ slot'[index[i]].filled = slot[index[i]].filled
      /\ \A r \in 1 .. Len(slot) \ {index[i]} : slot'[r] = slot[r]
      /\ UNCHANGED <<index, executions>>
  BY ModifyInPlaceFacts
<1>2. PICK s \in Nat : s = index[i] /\ s \in 1 .. Len(slot) /\ slot[s] \in OrderRecord
  BY <1>1, FoundFacts, SlotType DEF NativeInv
<1>3. \A v \in Id \ {i} : index[v] # Null => index[v] \in 1 .. Len(slot) \ {s}
  BY <1>1, <1>2, FoundFacts
<1>4. OnlyChanges(i)
  BY <1>1, <1>2, <1>3 DEF OnlyChanges
<1>5. am.quantity \in Int /\ am.quantity <= slot[s].quantity
  <2>1. am \in [price : Tick, quantity : Int]
    BY NativeAssumption
  <2>2. QED
    BY <2>1, <1>2 DEF ModifyInPlace, KeepsPlace
<1>6. /\ Remaining(slot'[s]) \in Int /\ Remaining(slot[s]) \in Int
      /\ Remaining(slot'[s]) <= Remaining(slot[s])
  <2>1. slot[s].quantity \in Int /\ slot[s].filled \in Int
    BY <1>2 DEF OrderRecord
  <2>2. QED
    BY <2>1, <1>1, <1>2, <1>5 DEF Remaining
<1>7. CASE i \notin Shown'
  BY <1>1, <1>4, <1>7, LeaveView
<1>8. CASE i \in Shown'
  <2>1. Remaining(slot'[s]) > 0 /\ i \in Shown
    BY <1>1, <1>2, <1>6, <1>8 DEF Shown
  <2>2. Entry(i) = [side |-> slot[s].side, price |-> slot[s].price, tick |-> slot[s].price, since |-> slot[s].since, left |-> Remaining(slot[s])]
    BY <1>2 DEF Entry
  <2>3. Entry(i)' = [side |-> slot[s].side, price |-> slot[s].price, tick |-> slot[s].price, since |-> slot[s].since, left |-> Remaining(slot'[s])]
    BY <1>1, <1>2 DEF Entry, Alike
  <2>4. Entry(i)' = [Entry(i) EXCEPT !.left = Entry(i)'.left] /\ Entry(i)'.left \in 1 .. Entry(i).left
    BY <2>1, <2>2, <2>3, <1>6
  <2>5. (\A v \in Id \ {i} : v \in Shown' <=> v \in Shown) /\ PriceTime!OthersKept(i)
    BY <1>4, OthersShown
  <2>6. Shown \subseteq Id /\ Shown' \subseteq Id
    BY DEF Shown
  <2> HIDE DEF RestingView, Shown, Entry
  <2>7. Shown' = Shown
    BY <2>1, <2>5, <2>6, <1>8
  <2>8. DOMAIN RestingView = Shown /\ DOMAIN RestingView' = Shown'
        /\ RestingView[i] = Entry(i) /\ RestingView'[i] = Entry(i)'
    BY <2>1, <1>8, Views
  <2>9. PriceTime!Reduce(i) /\ i \in DOMAIN RestingView
    BY <2>1, <2>4, <2>5, <2>7, <2>8, <1>1 DEF PriceTime!Reduce
  <2>10. QED
    BY <2>9
<1>9. QED
  BY <1>7, <1>8

(* An order whose amendment put it back may have been spent before it, or  *)
(* be spent after it: four cases.                                          *)
LEMMA ModifyRequeueView ==
  ASSUME NativeInv, NativeInv', NEW i \in Id, NEW am \in Amendments, ModifyRequeue(i, am)
  PROVE  \/ PriceTime!Enter(i)
         \/ \E u \in DOMAIN RestingView : PriceTime!Leave(u) \/ PriceTime!Requote(u)
         \/ UNCHANGED <<RestingView, executions>>
<1>1. PICK s : s = index[i]
  OBVIOUS
<1>2. /\ s # Null /\ s \in 1 .. Len(slot)
      /\ \A r \in 1 .. Len(slot) \ {s} : slot'[r] = slot[r]
      /\ slot'[s].side = slot[s].side /\ slot'[s].since = calls + 1
      /\ UNCHANGED <<index, executions>>
  BY <1>1, ModifyRequeueFacts
<1>3. \A v \in Id \ {i} : index[v] # Null => index[v] \in 1 .. Len(slot) \ {s}
  BY <1>1, <1>2, FoundFacts
<1>4. OnlyChanges(i)
  BY <1>2, <1>3 DEF OnlyChanges
<1>5. calls \in Nat
  BY NativeAssumption DEF NativeInv, TypeOK
<1>6. /\ slot'[index'[i]].side = slot[index[i]].side /\ slot'[index'[i]].since = calls + 1
      /\ slot'[index'[i]].since >= calls
  BY <1>1, <1>2, <1>5
<1>7. \/ slot'[index'[i]].price # slot[index[i]].price
      \/ Remaining(slot'[index'[i]]) > Remaining(slot[index[i]])
  <2>1. ~KeepsPlace(slot[s], am)
    BY <1>1 DEF ModifyRequeue
  <2>2. slot'[s].price = am.price /\ slot'[s].quantity = am.quantity /\ slot'[s].filled = slot[s].filled
    BY <1>1, ModifyRequeueFacts
  <2>3. slot[s] \in OrderRecord /\ am.quantity \in Int
    BY <1>2, SlotType, NativeAssumption DEF NativeInv, TypeOK
  <2>4. slot[s].quantity \in Int /\ slot[s].filled \in Int
    BY <2>3 DEF OrderRecord
  <2>5. QED
    BY <1>1, <1>2, <2>1, <2>2, <2>3, <2>4 DEF KeepsPlace, Remaining
<1>8. CASE i \notin Shown'
  BY <1>2, <1>4, <1>8, LeaveView
<1>9. CASE i \in Shown' /\ i \notin Shown
  BY <1>2, <1>4, <1>6, <1>9, EnterView
<1>10. CASE i \in Shown' /\ i \in Shown
  BY <1>2, <1>4, <1>6, <1>7, <1>10, RequoteView
<1>11. QED
  BY <1>8, <1>9, <1>10

LEMMA StepView ==
  ASSUME NativeInv, NativeInv', [Next]_vars, ~strayed'
  PROVE  PriceTime!Next \/ UNCHANGED <<RestingView, executions>>
<1>1. CASE UNCHANGED vars
  BY <1>1, SameView DEF vars
<1>2. CASE \E tk \in Tickets : ProcessOrder(tk)
  BY <1>2, ProcessView
<1>3. CASE StartLevel \/ SkipLevel \/ MatchOver \/ LevelOver
  <2>1. UNCHANGED <<slot, index, executions>>
    BY <1>3 DEF StartLevel, SkipLevel, MatchOver, LevelOver
  <2>2. QED
    BY <2>1, SameView
<1>4. CASE DropSpent
  BY <1>4, DropSpentView
<1>5. CASE Execute
  <2>1. ~strayed
    BY <1>5 DEF Execute
  <2>2. \E u \in DOMAIN RestingView : PriceTime!Execute(u)
    BY <1>5, <2>1, ExecuteView
  <2>3. QED
    BY <2>2 DEF PriceTime!Next
<1>6. CASE Place
  <2>1. (\E u \in Id : PriceTime!Enter(u)) \/ UNCHANGED <<RestingView, executions>>
    BY <1>6, PlaceView
  <2>2. QED
    BY <2>1 DEF PriceTime!Next
<1>7. CASE \E i \in Id : Unknown(i)
  BY <1>1, <1>7 DEF Unknown
<1>8. CASE \E i \in Id : CancelOrder(i)
  <2>1. (\E u \in DOMAIN RestingView : PriceTime!Leave(u)) \/ UNCHANGED <<RestingView, executions>>
    BY <1>8, CancelView
  <2>2. QED
    BY <2>1 DEF PriceTime!Next
<1>9. CASE \E i \in Id : \E am \in Amendments : ModifyInPlace(i, am)
  <2>1. \/ \E u \in DOMAIN RestingView : PriceTime!Leave(u) \/ PriceTime!Reduce(u)
        \/ UNCHANGED <<RestingView, executions>>
    BY <1>9, ModifyInPlaceView
  <2>2. QED
    BY <2>1 DEF PriceTime!Next
<1>10. CASE \E i \in Id : \E am \in Amendments : ModifyRequeue(i, am)
  <2>1. PICK i \in Id : \/ PriceTime!Enter(i)
                        \/ \E u \in DOMAIN RestingView : PriceTime!Leave(u) \/ PriceTime!Requote(u)
                        \/ UNCHANGED <<RestingView, executions>>
    BY <1>10, ModifyRequeueView
  <2>2. QED
    BY <2>1 DEF PriceTime!Next
<1>11. QED
  BY <1>1, <1>2, <1>3, <1>4, <1>5, <1>6, <1>7, <1>8, <1>9, <1>10 DEF Next, Step

(* process_order_fast, cancel_order_fast and modify_order_fast implement   *)
(* the price-time book step by step as long as prices stay in the arena:   *)
(* whatever is traded comes from an order that nothing on its side         *)
(* precedes, and priority is only lost by an amendment that asks for it.   *)
THEOREM ArenaKeepsPriority == Spec => ArenaPriority
<1>1. NativeInv /\ NativeInv' /\ [Next]_vars => [~strayed' => PriceTime!Next]_<<RestingView, executions>>
  BY StepView
<1>2. QED
  BY <1>1, NativeInvHolds, PTL DEF Spec, ArenaPriority

=============================================================================
