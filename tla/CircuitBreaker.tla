--------------------------- MODULE CircuitBreaker ---------------------------
(***************************************************************************)
(* zerene/engine/circuit_breaker.py as a record: whether trading is        *)
(* halted, for how long it has been, and the reference price the bands are *)
(* drawn around (0 before the first).  The halt's age replaces its start   *)
(* time, so that a behaviour may be unbounded and its states few.          *)
(***************************************************************************)
EXTENDS Integers

CONSTANTS
  BandPct,           \* band_pct, in percent
  HaltDuration       \* halt_duration_sec, in ticks of the clock

NewBreaker(reference) == [halted |-> FALSE, age |-> 0, reference |-> reference]

Breaker == [halted : BOOLEAN, age : 0 .. HaltDuration, reference : Nat]

Lower(br) == br.reference - (br.reference * BandPct) \div 100

Upper(br) == br.reference + (br.reference * BandPct) \div 100

UpdateReference(br, price) ==
  IF price > 0 /\ ~br.halted THEN [br EXCEPT !.reference = price] ELSE br

CheckHaltExpiry(br) ==
  IF br.halted /\ br.age >= HaltDuration THEN [br EXCEPT !.halted = FALSE, !.age = 0] ELSE br

TriggerHalt(br) == [br EXCEPT !.halted = TRUE, !.age = 0]

Older(br) == IF br.halted /\ br.age < HaltDuration THEN [br EXCEPT !.age = @ + 1] ELSE br

Collared(br, o) ==
  /\ br.reference # 0 /\ o.price # 0
  /\ IF o.side = "BUY" THEN o.price > Upper(br) ELSE o.price < Lower(br)

(* validate_order: what becomes of the breaker and whether the order may   *)
(* pass.  An order stamped 0.0 never finds the halt expired; the first     *)
(* limit order draws the bands.                                            *)
Timely(br, o) == IF o.stamped THEN CheckHaltExpiry(br) ELSE br

BreakerAfter(br, o) ==
  LET checked == Timely(br, o)
  IN  IF checked.reference = 0 THEN UpdateReference(checked, o.price) ELSE checked

BreakerAdmits(br, o) == ~Timely(br, o).halted /\ ~Collared(br, o)

=============================================================================
