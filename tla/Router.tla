------------------------------- MODULE Router -------------------------------
(***************************************************************************)
(* zerene/execution/router.py: the smart order router splits an order over *)
(* venues from snapshots of their books alone.  Quantities are in the unit *)
(* allocations are rounded to (0.0001), scores in twentieths of a basis    *)
(* point.                                                                  *)
(***************************************************************************)
EXTENDS Integers, SequencesExt, FiniteSetsExt

CONSTANTS
  Venue,             \* the venues, a sequence: dictionary order breaks ties
  MakerFee, TakerFee,\* fee schedules, [venue -> basis points]
  SplitAbove,        \* quantity up to which a passive order is not split (2.0)
  Snapshots,         \* what a venue's book may look like
  Parents            \* orders that may be routed

VARIABLES
  latest,            \* latest_snapshots, Unseen for a venue without one
  routed             \* the order being routed, the snapshots used, the children

vars == <<latest, routed>>

Unseen == [bids |-> <<>>, asks |-> <<>>, seen |-> FALSE]

NotRouting == [path |-> "none"]

Venues == Range(Venue)

NoPrice == 0

Max2(a, b) == IF a > b THEN a ELSE b

(* n / d rounded to a unit; how a tie goes is up to the floating point.    *)
Rounded(n, d, up) == (2 * n + d - (IF up THEN 0 ELSE 1)) \div (2 * d)

Total(f) == MapThenSumSet(LAMBDA v : f[v], DOMAIN f)

Init == latest = [v \in Venues |-> Unseen] /\ routed = NotRouting

UpdateSnapshot(v, s) ==
  /\ routed = NotRouting
  /\ latest' = [latest EXCEPT ![v] = s]
  /\ UNCHANGED routed

-----------------------------------------------------------------------------
(* _route_passive_rebate_optimized: the maker fee and the queue to join.   *)
Depth(s, side) == IF side = "BUY" THEN s.bids ELSE s.asks

QueueAhead(o, s) ==
  LET d == Depth(s, o.side)
      target == IF o.price # NoPrice THEN o.price ELSE IF d # <<>> THEN d[1].price ELSE NoPrice
  IN  MapThenSumSet(LAMBDA i : IF d[i].price = target THEN d[i].volume ELSE 0, DOMAIN d)

Score(o, seen, v) == 20 * MakerFee[v] + QueueAhead(o, seen[v])

ByScore(o, seen) ==
  LET rank(v) == CHOOSE i \in DOMAIN Venue : Venue[i] = v
      before(v, w) == \/ Score(o, seen, v) < Score(o, seen, w)
                      \/ Score(o, seen, v) = Score(o, seen, w) /\ rank(v) < rank(w)
  IN  SetToSortSeq(Venues, before)

(* The worst venue still weighs 1, or 0.1 if rounding put it lower.        *)
Weight(o, seen, v) ==
  LET worst == Max({Score(o, seen, w) : w \in Venues})
  IN  IF \A w \in Venues : Score(o, seen, w) = worst THEN 20 ELSE Max2(2, worst - Score(o, seen, v) + 20)

(* Fault: what the rounding leaves over is not given to anybody.           *)
RoundingLost(alloc, best, quantity) == alloc

RoundingToBest(alloc, best, quantity) == [alloc EXCEPT ![best] = @ + quantity - Total(alloc)]

Passive(o, seen, up) ==
  LET weights == [v \in Venues |-> Weight(o, seen, v)]
      best == Head(ByScore(o, seen))
  IN  IF Len(Venue) > 1 /\ o.quantity > SplitAbove
      THEN RoundingToBest([v \in Venues |-> Rounded(o.quantity * weights[v], Total(weights), up)], best, o.quantity)
      ELSE [v \in Venues |-> IF v = best THEN o.quantity ELSE 0]

-----------------------------------------------------------------------------
(* _route_aggressive_level_ii_sweep.  Fault: raw prices are compared.      *)
EffectiveRaw(o, v, p) == p

Effective(o, v, p) == p * (IF o.side = "BUY" THEN 10000 + TakerFee[v] ELSE 10000 - TakerFee[v])

Opposite(o, s) == Depth(s, IF o.side = "BUY" THEN "SELL" ELSE "BUY")

WithinLimit(o, p) == o.price = NoPrice \/ IF o.side = "BUY" THEN p <= o.price ELSE p >= o.price

(* [i-th venue, j-th level].                                               *)
Tranches(o, seen) ==
  {t \in UNION {{i} \X DOMAIN Opposite(o, seen[Venue[i]]) : i \in DOMAIN Venue} :
     WithinLimit(o, Opposite(o, seen[Venue[t[1]]])[t[2]].price)}

Cheapest(o, seen) ==
  LET cost(t) == (IF o.side = "BUY" THEN 1 ELSE -1) * Effective(o, Venue[t[1]], Opposite(o, seen[Venue[t[1]]])[t[2]].price)
      before(t, u) == \/ cost(t) < cost(u)
                      \/ cost(t) = cost(u) /\ t[1] < u[1]
                      \/ cost(t) = cost(u) /\ t[1] = u[1] /\ t[2] < u[2]
  IN  SetToSortSeq(Tranches(o, seen), before)

(* The cheapest tranches up to the quantity; what is then left goes to the *)
(* same venues in proportion, or to all evenly if there were no tranches.  *)
Sweep(o, seen, up) ==
  LET take(alloc, t) ==
        LET v == Venue[t[1]]
        IN  [alloc EXCEPT ![v] = @ + Min({o.quantity - Total(alloc), Opposite(o, seen[v])[t[2]].volume})]
      swept == FoldLeft(take, [v \in Venues |-> 0], Cheapest(o, seen))
      left == o.quantity - Total(swept)
  IN  [v \in Venues |-> CASE left = 0 -> swept[v]
                          [] left > 0 /\ Total(swept) > 0 -> swept[v] + Rounded(left * swept[v], Total(swept), up)
                          [] OTHER -> Rounded(left, Len(Venue), up)]

-----------------------------------------------------------------------------
(* _acquire_child_order: the parent's terms, the venue's quantity.         *)
Child(o, quantity) == [o EXCEPT !.quantity = quantity]

Children(o, alloc) == [v \in Venues |-> Child(o, alloc[v])]

(* route_order: a snapshot that is handed in or the latest one of the feed *)
(* or, failing both, one taken now.                                        *)
Resolved(handed, taken) ==
  [v \in Venues |-> IF v \notin handed /\ latest[v].seen THEN latest[v] ELSE taken[v]]

IsPassive(o, patient) == (o.type = "POST_ONLY" \/ patient) /\ o.type # "MARKET"

RouteOrder(o, patient, handed, taken, up) ==
  LET seen == Resolved(handed, taken)
  IN  /\ routed = NotRouting
      /\ \/ /\ IsPassive(o, patient)
            /\ routed' = [path |-> "passive", order |-> o, seen |-> seen, children |-> Children(o, Passive(o, seen, up))]
         \/ /\ ~IsPassive(o, patient)
            /\ routed' = [path |-> "sweep", order |-> o, seen |-> seen, children |-> Children(o, Sweep(o, seen, up))]
      /\ UNCHANGED latest

(* The children with a positive quantity are returned to the caller.       *)
Return == routed # NotRouting /\ routed' = NotRouting /\ UNCHANGED latest

Next ==
  \/ \E v \in Venues, s \in Snapshots : UpdateSnapshot(v, s)
  \/ \E o \in Parents, patient, up \in BOOLEAN, handed \in {{}, Venues}, taken \in [Venues -> Snapshots] :
       RouteOrder(o, patient, handed, taken, up)
  \/ Return

Spec == Init /\ [][Next]_vars

-----------------------------------------------------------------------------
(* What may go wrong.                                                      *)
SentTo(v) == routed.children[v].quantity

VisibleTo(o, seen) ==
  MapThenSumSet(LAMBDA t : Opposite(o, seen[Venue[t[1]]])[t[2]].volume, Tranches(o, seen))

(* The children add up to the parent to the last unit, however the weights *)
(* round, and none is negative; of a sweep, as long as the visible depth   *)
(* covers it ("Adjust residual rounding onto best venue").                 *)
ChildrenAddUp ==
  routed # NotRouting /\ (routed.path = "sweep" => VisibleTo(routed.order, routed.seen) >= routed.order.quantity) =>
    /\ MapThenSumSet(SentTo, Venues) = routed.order.quantity
    /\ \A v \in Venues : SentTo(v) >= 0

(* A sweep takes the cheapest there is, fees included: whatever it takes   *)
(* from a venue, no other venue is left with volume that was cheaper than  *)
(* the dearest unit taken ("Consumes cheapest effective liquidity").       *)
Cost(o, v, p) == IF o.side = "BUY" THEN p * (10000 + TakerFee[v]) ELSE -(p * (10000 - TakerFee[v]))

SweepsCheapest ==
  routed.path = "sweep" =>
    LET o == routed.order
        d(v) == Opposite(o, routed.seen[v])
        upTo(v, c) == MapThenSumSet(LAMBDA j : d(v)[j].volume,
                        {j \in DOMAIN d(v) : WithinLimit(o, d(v)[j].price) /\ Cost(o, v, d(v)[j].price) <= c})
    IN  VisibleTo(o, routed.seen) >= o.quantity =>
          \A v, w \in Venues : \A j \in DOMAIN d(w) :
            LET c == Cost(o, w, d(w)[j].price)
            IN  WithinLimit(o, d(w)[j].price) /\ SentTo(v) > upTo(v, c) => SentTo(w) >= upTo(w, c)

=============================================================================
