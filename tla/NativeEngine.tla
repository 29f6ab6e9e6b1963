---------------------------- MODULE NativeEngine ----------------------------
(***************************************************************************)
(* The C++ core, src/zerene_core: order_book.hpp, matching_engine.hpp and  *)
(* memory_pool.hpp.  Orders live in the slots of a pool; a free slot is on *)
(* the free list, one in use is linked into the queue of a price level.    *)
(* Levels within an arena of ticks always exist, the others are kept in a  *)
(* map; the best tick of each side is cached.  process_order_fast takes a  *)
(* step here for each turn of its two loops.  Orders have distinct ids,    *)
(* the number of their call.                                               *)
(***************************************************************************)
EXTENDS Integers, SequencesExt, FiniteSetsExt

CONSTANTS
  LastTick,          \* from the next one on, a best ask counts as none
  Tick, Arena,       \* the price ticks, those within the arena
  Tickets,           \* [side, type, price, quantity] of what is submitted
  Amendments,        \* [price, quantity] of modifications
  ChunkSize,         \* slots that expand adds to the pool
  MaxCalls           \* bound on the calls that change the book

Side == {"BUY", "SELL"}
OrderType == {"LIMIT", "MARKET", "IOC", "FOK", "POST_ONLY"}

(* Ticks are not negative, as the cached best ticks need them to be.       *)
ASSUME NativeAssumption ==
  /\ LastTick \in Nat /\ Tick \subseteq 0 .. LastTick
  /\ Arena \subseteq Tick
  /\ Tickets \subseteq [side : Side, type : OrderType, price : Int, quantity : Int]
  /\ \A tk \in Tickets : tk.type # "MARKET" => tk.price \in Tick
  /\ Amendments \subseteq [price : Tick, quantity : Int]
  /\ ChunkSize \in Nat \ {0}
  /\ MaxCalls \in Nat

VARIABLES
  slot,              \* the orders in the slots of the pool
  free,              \* the free list, its head first
  queue,             \* the levels: [side -> [tick -> slots, head first]]
  keys,              \* the ticks in the maps of outlier levels, on each side
  best,              \* best_bid_ticks_ and best_ask_ticks_
  index,             \* order_index_: [id -> slot]
  incoming,          \* the slot of the order being processed
  pc,                \* "idle", "match", "level" or "place"
  calls,
  executions,        \* trade_counter_
  strayed            \* history: a price outside the arena was used

vars == <<slot, free, queue, keys, best, index, incoming, pc, calls, executions, strayed>>

Null == 0
None == -1
Id == 1 .. MaxCalls

Contra(side) == IF side = "BUY" THEN "SELL" ELSE "BUY"

Better(side, t, u) == IF side = "BUY" THEN t > u ELSE t < u

BestOf(side, ticks) == CHOOSE t \in ticks : \A u \in ticks \ {t} : Better(side, t, u)

Remaining(o) == o.quantity - o.filled

Init ==
  /\ slot = <<>> /\ free = <<>>
  /\ queue = [s \in Side |-> [t \in Tick |-> <<>>]]
  /\ keys = [s \in Side |-> {}]
  /\ best = [s \in Side |-> None]
  /\ index = [i \in Id |-> Null]
  /\ incoming = Null /\ pc = "idle"
  /\ calls = 0 /\ executions = 0 /\ strayed = FALSE

-----------------------------------------------------------------------------
(* The pool: expand threads the new chunk so that its last slot is first.  *)
Threaded(n) == [i \in 1 .. ChunkSize |-> n + ChunkSize + 1 - i]

FreeList == IF free = <<>> THEN Threaded(Len(slot)) ELSE free

(* Fault: the rest of the free list is lost.                               *)
DeallocateAlone(s, list) == <<s>>

Deallocate(s, list) == <<s>> \o list

-----------------------------------------------------------------------------
(* The book.  The search for the next best level starts at the present     *)
(* best one; outliers only count when the arena has nothing from there on. *)
Occupied(q, side, ticks) == {t \in ticks : q[side][t] # <<>>}

(* Fault: the loop ends before the first tick of the arena.                *)
NextBestAboveFirst(q, ks, side) ==
  LET found == Occupied(q, side, Arena \ {Min(Arena)})
  IN  IF found = {} THEN None ELSE BestOf(side, found)

NextBest(q, ks, side) ==
  LET b == best[side]
      found == {t \in Occupied(q, side, Arena) : ~Better(side, t, b)}
  IN  CASE b \in Arena /\ found # {} -> BestOf(side, found)
        [] b \notin Arena \/ found = {} -> IF ks[side] = {} THEN None ELSE BestOf(side, ks[side])

(* update_best_bid, update_best_ask, where the best level is left empty.   *)
Updated(q, ks, side, t) ==
  IF best[side] = t /\ q[side][t] = <<>> THEN [best EXCEPT ![side] = NextBest(q, ks, side)] ELSE best

Linked(q, side, t, s) == [q EXCEPT ![side][t] = Append(@, s)]

KeysWith(ks, side, t) == IF t \in Arena THEN ks ELSE [ks EXCEPT ![side] = @ \cup {t}]

Raised(b, side, t) == IF b[side] = None \/ Better(side, t, b[side]) THEN [b EXCEPT ![side] = t] ELSE b

InsertOrder(side, t, s, i) ==
  /\ queue' = Linked(queue, side, t, s)
  /\ keys' = KeysWith(keys, side, t)
  /\ best' = Raised(best, side, t)
  /\ index' = [index EXCEPT ![i] = s]
  /\ strayed' = (strayed \/ t \notin Arena)

Without(level, s) == RemoveAt(level, CHOOSE i \in DOMAIN level : level[i] = s)

Unlinked(s) == [queue EXCEPT ![slot[s].side][slot[s].price] = Without(@, s)]

KeysWithout(q, side, t) == IF q[side][t] = <<>> THEN [keys EXCEPT ![side] = @ \ {t}] ELSE keys

-----------------------------------------------------------------------------
NewOrder == [id |-> 0, side |-> "BUY", type |-> "LIMIT", price |-> 0, quantity |-> 0, filled |-> 0, since |-> 0]

Slots == IF free = <<>> THEN slot \o [i \in 1 .. ChunkSize |-> NewOrder] ELSE slot

(* process_order_fast; an order of no lots is turned away unseen.          *)
Order(tk) == [id |-> calls + 1, side |-> tk.side, type |-> tk.type, price |-> tk.price,
              quantity |-> tk.quantity, filled |-> 0, since |-> calls + 1]

ProcessOrder(tk) ==
  /\ pc = "idle" /\ calls < MaxCalls /\ tk.quantity > 0
  /\ calls' = calls + 1
  /\ pc' = "match"
  /\ incoming' = Head(FreeList)
  /\ free' = Tail(FreeList)
  /\ slot' = [Slots EXCEPT ![Head(FreeList)] = Order(tk)]
  /\ UNCHANGED <<queue, keys, best, index, executions, strayed>>

Taker == slot[incoming]
Facing == Contra(Taker.side)
Touch == best[Facing]

Crosses ==
  /\ Touch # None
  /\ Taker.type = "MARKET" \/ Taker.price = Touch \/ Better(Taker.side, Taker.price, Touch)

TouchQueue == queue[Facing][Touch]

StartLevel ==
  /\ pc = "match" /\ Remaining(Taker) > 0 /\ Crosses /\ TouchQueue # <<>>
  /\ pc' = "level"
  /\ UNCHANGED <<slot, free, queue, keys, best, index, incoming, calls, executions, strayed>>

(* The best level is there, but nobody is on it.                           *)
SkipLevel ==
  /\ pc = "match" /\ Remaining(Taker) > 0 /\ Crosses /\ TouchQueue = <<>>
  /\ best' = Updated(queue, keys, Facing, Touch)
  /\ UNCHANGED <<slot, free, queue, keys, index, incoming, pc, calls, executions, strayed>>

MatchOver ==
  /\ pc = "match" /\ (Remaining(Taker) <= 0 \/ ~Crosses)
  /\ pc' = "place"
  /\ UNCHANGED <<slot, free, queue, keys, best, index, incoming, calls, executions, strayed>>

(* Fault: an order that has filled stays in the index.                     *)
PopKeepsIndex(m) ==
  /\ queue' = [queue EXCEPT ![Facing][Touch] = Tail(@)]
  /\ free' = Deallocate(m, free)
  /\ UNCHANGED index

Pop(m) ==
  /\ queue' = [queue EXCEPT ![Facing][Touch] = Tail(@)]
  /\ index' = [index EXCEPT ![slot[m].id] = Null]
  /\ free' = Deallocate(m, free)

(* A turn of match_against_level: an order with nothing left, which a      *)
(* modification made so, is dropped; any other trades.                     *)
DropSpent ==
  /\ pc = "level" /\ Remaining(Taker) > 0 /\ TouchQueue # <<>>
  /\ Remaining(slot[Head(TouchQueue)]) <= 0
  /\ Pop(Head(TouchQueue))
  /\ UNCHANGED <<slot, keys, best, incoming, pc, calls, executions, strayed>>

Execute ==
  /\ pc = "level" /\ Remaining(Taker) > 0 /\ TouchQueue # <<>>
  /\ LET m == Head(TouchQueue)
         q == Min({Remaining(Taker), Remaining(slot[m])})
         taken == [slot EXCEPT ![incoming].filled = @ + q]
     IN  /\ Remaining(slot[m]) > 0
         /\ slot' = [taken EXCEPT ![m].filled = @ + q]
         /\ IF q = Remaining(slot[m]) THEN Pop(m) ELSE UNCHANGED <<queue, index, free>>
  /\ executions' = executions + 1
  /\ UNCHANGED <<keys, best, incoming, pc, calls, strayed>>

LevelOver ==
  /\ pc = "level" /\ (Remaining(Taker) <= 0 \/ TouchQueue = <<>>)
  /\ pc' = IF TouchQueue = <<>> THEN "match" ELSE "place"
  /\ best' = Updated(queue, keys, Facing, Touch)
  /\ UNCHANGED <<slot, free, queue, keys, index, incoming, calls, executions, strayed>>

(* What is left rests, unless it is a market or an IOC order; FOK and      *)
(* POST_ONLY are no different from LIMIT here.                             *)
Place ==
  /\ pc = "place"
  /\ pc' = "idle" /\ incoming' = Null
  /\ IF Remaining(Taker) > 0 /\ Taker.type \notin {"MARKET", "IOC"}
     THEN /\ InsertOrder(Taker.side, Taker.price, incoming, Taker.id)
          /\ UNCHANGED free
     ELSE /\ free' = Deallocate(incoming, free)
          /\ UNCHANGED <<queue, keys, best, index, strayed>>
  /\ UNCHANGED <<slot, calls, executions>>

-----------------------------------------------------------------------------
(* cancel_order_fast and modify_order_fast; an id that is not in the index *)
(* (any more) changes nothing.                                             *)
Unknown(i) == pc = "idle" /\ index[i] = Null /\ UNCHANGED vars

RemoveOrder(s) ==
  LET o == slot[s]
      q == Unlinked(s)
      ks == KeysWithout(q, o.side, o.price)
  IN  /\ queue' = q
      /\ keys' = ks
      /\ best' = Updated(q, ks, o.side, o.price)
      /\ index' = [index EXCEPT ![o.id] = Null]

CancelOrder(i) ==
  /\ pc = "idle" /\ index[i] # Null
  /\ RemoveOrder(index[i])
  /\ free' = Deallocate(index[i], free)
  /\ UNCHANGED <<slot, incoming, pc, calls, executions, strayed>>

(* Fault: more lots at the same price keep their place.                    *)
KeepsPlaceAtPrice(o, am) == am.price = o.price

KeepsPlace(o, am) == am.price = o.price /\ am.quantity <= o.quantity

ModifyInPlace(i, am) ==
  /\ pc = "idle" /\ index[i] # Null /\ KeepsPlace(slot[index[i]], am)
  /\ slot' = [slot EXCEPT ![index[i]].quantity = am.quantity]
  /\ UNCHANGED <<free, queue, keys, best, index, incoming, pc, calls, executions, strayed>>

(* Taken out and put back at the tail of its new level, without matching.  *)
ModifyRequeue(i, am) ==
  /\ pc = "idle" /\ calls < MaxCalls /\ index[i] # Null /\ ~KeepsPlace(slot[index[i]], am)
  /\ LET s == index[i]
         o == slot[s]
         q == Unlinked(s)
         ks == KeysWithout(q, o.side, o.price)
         b == Updated(q, ks, o.side, o.price)
         amended == [o EXCEPT !.quantity = am.quantity, !.price = am.price]
     IN  /\ slot' = [slot EXCEPT ![s] = [amended EXCEPT !.since = calls + 1]]
         /\ queue' = Linked(q, o.side, am.price, s)
         /\ keys' = KeysWith(ks, o.side, am.price)
         /\ best' = Raised(b, o.side, am.price)
         /\ strayed' = (strayed \/ am.price \notin Arena)
  /\ calls' = calls + 1
  /\ UNCHANGED <<free, index, incoming, pc, executions>>

Step == StartLevel \/ SkipLevel \/ MatchOver \/ DropSpent \/ Execute \/ LevelOver \/ Place

Next ==
  \/ \E tk \in Tickets : ProcessOrder(tk)
  \/ Step
  \/ \E i \in Id : Unknown(i) \/ CancelOrder(i) \/ \E am \in Amendments : ModifyInPlace(i, am) \/ ModifyRequeue(i, am)

Spec == Init /\ [][Next]_vars

-----------------------------------------------------------------------------
(* Every slot of the pool is in one place, on the free list, in a queue or *)
(* with the order being processed, and in no place twice: no order is lost *)
(* or handed out while it rests (allocate, deallocate, pop_head, remove).  *)
Level(x) == queue[x[1]][x[2]]

Levels == Side \X Tick

Queued == UNION {ToSet(Level(x)) : x \in Levels}

InHand == {incoming} \ {Null}

PoolConserved ==
  /\ ToSet(free) \cup Queued \cup InHand = 1 .. Len(slot)
  /\ ToSet(free) \cap Queued = {} /\ InHand \cap (ToSet(free) \cup Queued) = {}
  /\ IsInjective(free)
  /\ \A x \in Levels : IsInjective(Level(x))
  /\ \A x, y \in Levels : x # y => ToSet(Level(x)) \cap ToSet(Level(y)) = {}

(* The index names exactly the orders that rest, each in the queue that    *)
(* its side and price lead to, where remove_order looks for it.            *)
IndexFindsResting ==
  /\ {index[i] : i \in Id} \ {Null} = Queued
  /\ \A x \in Levels : \A s \in ToSet(Level(x)) :
        slot[s].side = x[1] /\ slot[s].price = x[2] /\ index[slot[s].id] = s

(* As long as every price is within the arena, the book changes only as    *)
(* PriceTimeBook allows: each execution takes from an order that nothing   *)
(* precedes in price and time, so the cached best tick is never behind.    *)
RestingView ==
  [i \in {slot[s].id : s \in {r \in Queued : Remaining(slot[r]) > 0}} |->
     LET o == slot[index[i]]
     IN  [side |-> o.side, price |-> o.price, tick |-> o.price, since |-> o.since, left |-> Remaining(o)]]

PriceTime == INSTANCE PriceTimeBook WITH Orders <- Id, resting <- RestingView

ArenaPriority == [][~strayed' => PriceTime!Next]_<<RestingView, executions>>

(* As long as every price is within the arena, the cached best ticks are   *)
(* those of the best levels with somebody on them whenever a call returns, *)
(* so that no order that should trade is passed over.                      *)
BestIsBest ==
  pc = "idle" /\ ~strayed =>
    \A s \in Side : best[s] = IF Occupied(queue, s, Tick) = {} THEN None ELSE BestOf(s, Occupied(queue, s, Tick))

=============================================================================
