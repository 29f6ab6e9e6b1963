--------------------------- MODULE ExecutionAlgos ---------------------------
(***************************************************************************)
(* zerene/execution/algos.py: TWAP, VWAP, POV and implementation-shortfall *)
(* schedules.  Whoever drives a schedule asks it for the next slice, as    *)
(* often as they like and late if they like.  Quantities are in units that *)
(* divide evenly over the slices, prices in ticks of 0.01.                 *)
(***************************************************************************)
EXTENDS Integers, SequencesExt, FiniteSetsExt

CONSTANTS
  VolumeWeights,     \* the volume profiles VWAP may be given
  ShortfallWeights,  \* the decreasing weights IS computes from its urgency
  Total,             \* total_quantity
  Slices,            \* slices of TWAP and IS, or how many VWAP weights
  Interval,          \* ticks of the clock per slice, from time 0
  ParticipationPct,  \* target_participation_rate of POV
  MaxSlice,          \* POV's largest slice
  ThresholdPct,      \* urgency_threshold
  Pegging,           \* use_passive_pegging
  Market             \* market_data: [bid, ask, mid, volume], 0 for none

ASSUME AlgosAssumption ==
  /\ {Total, Slices, Interval, MaxSlice} \subseteq Nat \ {0}
  /\ ParticipationPct \in Int
  /\ Total % Slices = 0
  /\ VolumeWeights \cup ShortfallWeights \subseteq [1 .. Slices -> Nat]
  /\ \A w \in ShortfallWeights : \A i \in 2 .. Slices : w[i] <= w[i - 1]

VARIABLES
  algo,              \* which schedule, and its side
  executed,          \* executed_quantity
  idx,               \* current_slice_idx
  trigger,           \* next_trigger_time
  now,               \* current_time, up to one interval past the end
  child              \* the child order handed out last

vars == <<algo, executed, idx, trigger, now, child>>

End == Slices * Interval

NoChild == [quantity |-> 0, price |-> 0]

SumOf(w) == MapThenSumSet(LAMBDA i : w[i], DOMAIN w)

(* What the constructors of the schedules have in common.                  *)
Started(kind, weights) ==
  /\ \E side \in {"BUY", "SELL"} : algo = [kind |-> kind, weights |-> weights, side |-> side]
  /\ executed = 0 /\ idx = 0 /\ trigger = 0 /\ now = 0
  /\ child = NoChild

Even == [i \in 1 .. Slices |-> 1]

StartTwap == Started("TWAP", Even)

StartVwap == \E w \in VolumeWeights : Started("VWAP", w)

StartPov == Started("POV", Even)

StartShortfall == \E w \in ShortfallWeights : Started("IS", w)

Init == StartTwap \/ StartVwap \/ StartPov \/ StartShortfall

Tick ==
  /\ now < End + Interval
  /\ now' = now + 1
  /\ UNCHANGED <<algo, executed, idx, trigger, child>>

-----------------------------------------------------------------------------
IsFinished == executed >= Total

Left == Total - executed

SliceSize == Total \div Slices

(* The part of the total the weight stands for, once normalised.           *)
Share(i) == IF SumOf(algo.weights) = 0 THEN 0 ELSE (Total * algo.weights[i]) \div SumOf(algo.weights)

(* Urgency in percent: of the time gone by and the quantity left for TWAP, *)
(* of the slices for VWAP and IS, fixed for POV.  Compared, not divided.   *)
TwapPassive(left) == 100 * Min({now, End}) * left < ThresholdPct * End * Total

WeightedPassive(slice) == 100 * slice < ThresholdPct * Slices

PovPassive == 10 < ThresholdPct

(* _acquire_slice_order: a patient slice is pegged to its own side of the  *)
(* book, one tick inside when the spread is at most two ticks.             *)
PegPrice(m) ==
  CASE algo.side = "BUY" /\ m.bid # 0 -> IF m.ask = 0 \/ m.ask - m.bid > 2 THEN m.bid ELSE m.bid + 1
    [] algo.side = "SELL" /\ m.ask # 0 -> IF m.bid = 0 \/ m.ask - m.bid > 2 THEN m.ask ELSE m.ask - 1
    [] OTHER -> m.mid

AcquireSliceOrder(quantity, passive, m) ==
  child' = [quantity |-> quantity, price |-> IF Pegging /\ passive THEN PegPrice(m) ELSE 0]

TwapSlice(m) ==
  LET q == Min({SliceSize, Left})
  IN  /\ algo.kind = "TWAP" /\ ~IsFinished /\ now >= trigger
      /\ executed' = executed + q
      /\ trigger' = trigger + Interval
      /\ AcquireSliceOrder(q, TwapPassive(Left - q), m)
      /\ UNCHANGED idx

(* Fault: slices whose time has passed are skipped.                        *)
SkippedTo(i) == Max({i + 1, now \div Interval})

NextSlice(i) == i + 1

(* Fault: the trigger is set to the time of the call, so that the next     *)
(* slice is due at once.                                                   *)
Rebased(t) == now

Following(t) == t + Interval

(* VWAP and IS: the next weight, which is used up even if it is nothing.   *)
WeightedSlice(m) ==
  LET q == Min({Share(idx + 1), Left})
  IN  /\ algo.kind \in {"VWAP", "IS"} /\ ~IsFinished
      /\ idx < Slices /\ now >= trigger
      /\ idx' = NextSlice(idx)
      /\ trigger' = Following(trigger)
      /\ executed' = executed + q
      /\ IF q > 0 THEN AcquireSliceOrder(q, WeightedPassive(idx'), m) ELSE UNCHANGED child

(* At least a percent, at most half of the market's volume.                *)
ParticipationRate == Max({1, Min({50, ParticipationPct})})

PovSlice(m) ==
  LET q == Min({MaxSlice, (m.volume * ParticipationRate) \div 100, Left})
  IN  /\ algo.kind = "POV" /\ ~IsFinished
      /\ m.volume > 0 /\ q > 0
      /\ executed' = executed + q
      /\ AcquireSliceOrder(q, PovPassive, m)
      /\ UNCHANGED <<idx, trigger>>

GetNextSlice == \E m \in Market : (TwapSlice(m) \/ WeightedSlice(m) \/ PovSlice(m)) /\ UNCHANGED <<algo, now>>

(* Nothing is left to hand out, or to wait for.                            *)
Done == IsFinished /\ now = End + Interval /\ UNCHANGED vars

Next == Tick \/ GetNextSlice \/ Done

(* Time passes, and whoever drives the schedule goes on asking; for POV,   *)
(* the market goes on trading.                                             *)
Spec == Init /\ [][Next]_vars /\ WF_vars(Tick) /\ WF_vars(GetNextSlice)

-----------------------------------------------------------------------------
(* What may go wrong.                                                      *)

(* However late and however often it is asked, a schedule has handed out   *)
(* no more than the slices that are due by now, nor than the order itself  *)
(* (get_next_slice of TWAP, VWAP and IS).                                  *)
DueBy(t) == {i \in 1 .. Slices : (i - 1) * Interval <= t}

NeverAheadOfSchedule ==
  /\ executed <= Total
  /\ algo.kind = "TWAP" => executed <= Cardinality(DueBy(now)) * SliceSize
  /\ algo.kind \in {"VWAP", "IS"} => executed <= MapThenSumSet(Share, DueBy(now))

(* Every schedule hands out the whole order in the end, also after calls   *)
(* that came late or not at all for a while (is_finished).                 *)
Completes == <>(executed = Total)

=============================================================================
