---------------------------- MODULE VenueProofs -----------------------------
(***************************************************************************)
(* The kill switch and the accounts of the venue (module Venue), for any   *)
(* number of participants, symbols, limits, tickets, amendments and calls. *)
(*                                                                         *)
(* For the kill switch nothing is assumed of prices, exposures and         *)
(* profits, only that a participant's record keeps its fields: whatever    *)
(* the money says, an order reaches the book only past a check of the      *)
(* switch, and whoever is killed is swept from the book in the same step.  *)
(*                                                                         *)
(* The accounts are about that money: the sums the risk engine carries     *)
(* along are taken apart by symbol and put together again after each       *)
(* price change and each fill, and then by participant.                    *)
(***************************************************************************)
EXTENDS Venue, CommonLemmas

Fields == {"pos", "avg", "realized", "peak", "gross", "net", "unreal", "dirty", "killed"}

StateOK(st) == DOMAIN st = Fields /\ st.pos \in [Symbol -> Int]

RiskOK(rk) == DOMAIN rk = Owner /\ \A o \in Owner : StateOK(rk[o])

VenueTyped ==
  /\ RiskOK(risk)
  /\ book \subseteq Order
  /\ taker \in Order \cup {NoOrder}
  /\ trades \in Seq(Trade)
  /\ calls \in Nat
  /\ spanned \in Holdings
  /\ traded \in Holdings
  /\ settled \subseteq Owner
  /\ victim \in Owner \cup {Nobody}

(* While an order is matched, it is not of a killed participant, and those *)
(* who were killed when the call began still are; they are in no trade     *)
(* that waits to be booked.  Outside of a call nothing waits.              *)
Apart ==
  /\ pc = "matching" => /\ taker \in Order
                        /\ taker.owner \in Owner => ~risk[taker.owner].killed
                        /\ \A o \in settled : risk[o].killed
  /\ \A i \in 1 .. Len(trades) : trades[i].maker \notin settled /\ trades[i].taker \notin settled
  /\ pc \notin {"matching", "booking"} => trades = <<>>
  /\ pc = "liquidating" => victim \in Owner

KillInv == VenueTyped /\ KilledRestNothing /\ Apart

-----------------------------------------------------------------------------
(* Arithmetic.                                                             *)
LEMMA MinIs ==
  ASSUME NEW a \in Int, NEW b \in Int
  PROVE  Min({a, b}) = IF a <= b THEN a ELSE b
<1> DEFINE m == IF a <= b THEN a ELSE b
<1>1. m \in {a, b} /\ \A y \in {a, b} : m <= y
  OBVIOUS
<1>2. \A x \in {a, b} : (\A y \in {a, b} : x <= y) => x = m
  OBVIOUS
<1> HIDE DEF m
<1>3. Min({a, b}) = m
  BY <1>1, <1>2 DEF Min
<1>4. QED
  BY <1>3 DEF m

LEMMA MaxIs ==
  ASSUME NEW a \in Int, NEW b \in Int
  PROVE  Max({a, b}) = IF a >= b THEN a ELSE b
<1> DEFINE m == IF a >= b THEN a ELSE b
<1>1. m \in {a, b} /\ \A y \in {a, b} : m >= y
  OBVIOUS
<1>2. \A x \in {a, b} : (\A y \in {a, b} : x >= y) => x = m
  OBVIOUS
<1> HIDE DEF m
<1>3. Max({a, b}) = m
  BY <1>1, <1>2 DEF Max
<1>4. QED
  BY <1>3 DEF m

LEMMA AbsInt ==
  ASSUME NEW n \in Int
  PROVE  Abs(n) \in Int
BY DEF Abs

LEMMA SignedInt ==
  ASSUME NEW side, NEW n \in Int
  PROVE  Signed(side, n) \in Int
BY DEF Signed

(* Multiplication.                                                         *)
LEMMA Products ==
  ASSUME NEW a \in Int, NEW b \in Int, NEW c \in Int
  PROVE  /\ a * b \in Int /\ a * (b - c) = a * b - a * c /\ (a + b) * c = a * c + b * c
         /\ a * b = b * a
OBVIOUS

LEMMA Signs ==
  ASSUME NEW a \in Int, NEW b \in Int
  PROVE  /\ a >= 0 /\ b >= 0 => a * b >= 0
         /\ a > 0 /\ b > 0 => a * b > 0
         /\ a <= 0 /\ b <= 0 => a * b >= 0
         /\ a > 0 /\ b < 0 => a * b < 0
         /\ a < 0 /\ b > 0 => a * b < 0
OBVIOUS

LEMMA Quotient ==
  ASSUME NEW a \in Int, NEW b \in Int, b > 0, a % b = 0
  PROVE  a \div b \in Int /\ a = b * (a \div b)
OBVIOUS

-----------------------------------------------------------------------------
(* What the methods of the risk engine do to a participant's record.       *)
Kept(new, st) == StateOK(new) /\ new.pos = st.pos /\ new.killed = st.killed

LEMMA SyncedKeeps ==
  ASSUME NEW st, NEW mk, StateOK(st)
  PROVE  Kept(Synced(st, mk), st)
BY DEF Kept, StateOK, Fields, Synced

LEMMA MarkedKeeps ==
  ASSUME NEW st, NEW s, NEW d, StateOK(st)
  PROVE  Kept(Marked(st, s, d), st)
BY DEF Kept, StateOK, Fields, Marked

LEMMA PeakedKeeps ==
  ASSUME NEW st, StateOK(st)
  PROVE  Kept(Peaked(st), st)
BY DEF Kept, StateOK, Fields, Peaked

LEMMA KilledKeeps ==
  ASSUME NEW st, NEW b, StateOK(st)
  PROVE  /\ StateOK([st EXCEPT !.killed = b])
         /\ [st EXCEPT !.killed = b].pos = st.pos
BY DEF StateOK, Fields

(* An admitted order is of a participant who is not killed, and only the   *)
(* drawdown check trips the switch.                                        *)
Verdict(v, st) ==
  /\ StateOK(v.state)
  /\ v.state.pos = st.pos
  /\ v.quantity \in Int
  /\ v.verdict # "MAX_DRAWDOWN" => v.state.killed = st.killed
  /\ v.verdict = "OK" => ~st.killed

LEMMA ValidateKeeps ==
  ASSUME NEW o \in Order, NEW st, NEW mk, StateOK(st)
  PROVE  Verdict(ValidateOrder(o, st, mk), st)
<1> DEFINE q == Reduced(o, st)
           synced == Synced(st, mk)
           peaked == Peaked(synced)
           Say(verdict, state) == [verdict |-> verdict, state |-> state, quantity |-> q]
<1>1. q \in Int /\ o.quantity \in Int
  BY MinIs, AbsInt DEF Reduced, Order, StateOK
<1>2. Kept(synced, st)
  BY SyncedKeeps
<1>3. Kept(peaked, st)
  BY <1>2, PeakedKeeps DEF Kept
<1>4. StateOK([peaked EXCEPT !.killed = TRUE]) /\ [peaked EXCEPT !.killed = TRUE].pos = st.pos
  BY <1>3, KilledKeeps DEF Kept
<1>5. Verdict(Say("KILL_SWITCH_ACTIVE", st), st) /\ Verdict(Say("REDUCE_ONLY", st), st)
      /\ Verdict(Say("POSITION_LIMIT", st), st)
  BY <1>1 DEF Verdict
<1>6. Verdict(Say("GROSS_EXPOSURE", synced), st)
  BY <1>1, <1>2 DEF Verdict, Kept
<1>7. Verdict(Say("MAX_DRAWDOWN", [peaked EXCEPT !.killed = TRUE]), st)
  BY <1>1, <1>4 DEF Verdict
<1>8. ~st.killed => Verdict(Say("OK", peaked), st)
  BY <1>1, <1>3 DEF Verdict, Kept
<1>9. ~st.killed => Verdict([verdict |-> "OK", state |-> st, quantity |-> o.quantity], st)
  BY <1>1 DEF Verdict
<1>10. QED
  BY <1>5, <1>6, <1>7, <1>8, <1>9 DEF ValidateOrder, Barred

LEMMA BookedKeepsShape ==
  ASSUME NEW st, NEW mk, NEW s \in Symbol, NEW side, NEW p, NEW n \in Int, StateOK(st)
  PROVE  StateOK(Booked(st, mk, s, side, p, n))
<1> DEFINE synced == Synced(st, mk)
           filled == Filled(synced, s, side, p, n)
           peaked == Peaked(filled)
<1>1. StateOK(synced)
  BY SyncedKeeps DEF Kept
<1>2. synced.pos[s] + Signed(side, n) \in Int
  BY <1>1, SignedInt DEF StateOK
<1>3. StateOK(filled)
  BY <1>1, <1>2 DEF Filled, StateOK, Fields
<1>4. StateOK(peaked)
  BY <1>3, PeakedKeeps DEF Kept
<1>5. QED
  BY <1>4, KilledKeeps DEF Booked, Judged

-----------------------------------------------------------------------------
(* The steps of the venue.                                                 *)
Frozen == \A o \in settled : risk[o].killed => risk'[o].pos = risk[o].pos

LEMMA InitHolds == Init => KillInv
<1> SUFFICES ASSUME Init PROVE KillInv
  OBVIOUS
<1>1. PICK x \in Endowments : StartWith(x.positions, x.entries, x.price)
  BY DEF Init
<1>2. x.positions \in Holdings
  BY VenueAssumption
<1>3. RiskOK(risk)
  <2>1. risk = [o \in Owner |-> Written(Fresh, x.positions[o], x.entries[o])]
    BY <1>1 DEF StartWith
  <2>2. \A o \in Owner : x.positions[o] \in [Symbol -> Int]
    BY <1>2 DEF Holdings
  <2>3. QED
    BY <2>1, <2>2 DEF RiskOK, StateOK, Fields, Fresh, Written
<1>4. /\ book = {} /\ trades = << >> /\ taker = NoOrder /\ pc = "idle" /\ calls = 0
      /\ spanned = x.positions /\ traded = x.positions /\ settled = {}
      /\ victim = Nobody
  BY <1>1 DEF StartWith
<1>5. VenueTyped
  BY <1>2, <1>3, <1>4 DEF VenueTyped
<1>6. KilledRestNothing /\ Apart
  BY <1>4 DEF KilledRestNothing, Apart
<1>7. QED
  BY <1>5, <1>6 DEF KillInv

LEMMA PlaceStep ==
  ASSUME KillInv, NEW o \in Order, Place(o), trades = <<>>, spanned' \in Holdings, victim' = victim
  PROVE  KillInv' /\ Frozen
<1> USE DEF Order
<1> DEFINE known == o.owner \in Owner
           v == IF known THEN ValidateOrder(o, risk[o.owner], mark)
                         ELSE [verdict |-> "OK", quantity |-> o.quantity]
           admitted == v.verdict = "OK" /\ BreakerAdmits(breaker[o.symbol], o)
<1>1. /\ calls' = calls + 1
      /\ risk' = IF known THEN [risk EXCEPT ![o.owner] = v.state] ELSE risk
      /\ book' = IF v.verdict = "MAX_DRAWDOWN" THEN book \ Owned(o.owner) ELSE book
      /\ settled' = Killed(risk)
      /\ UNCHANGED <<trades, traded>>
      /\ admitted => pc' = "matching" /\ taker' = [o EXCEPT !.quantity = v.quantity, !.since = calls]
      /\ ~admitted => Return /\ taker' = NoOrder
  BY DEF Place
<1>2. known => Verdict(v, risk[o.owner])
  BY ValidateKeeps DEF KillInv, VenueTyped, RiskOK
<1>3. v.quantity \in Int
  BY <1>2 DEF Verdict
<1>4. RiskOK(risk') /\ \A w \in Owner : risk'[w].pos = risk[w].pos
  BY <1>1, <1>2 DEF Verdict, KillInv, VenueTyped, RiskOK
<1>5. \A w \in Owner : w # o.owner \/ v.verdict # "MAX_DRAWDOWN" => risk'[w].killed = risk[w].killed
  BY <1>1, <1>2 DEF Verdict, KillInv, VenueTyped, RiskOK
<1>6. admitted /\ known => ~risk[o.owner].killed
  BY <1>2 DEF Verdict
<1>7. admitted => taker' \in Order /\ taker'.owner = o.owner
  BY <1>1, <1>3 DEF KillInv, VenueTyped
<1>8. VenueTyped'
  BY <1>1, <1>4, <1>7 DEF KillInv, VenueTyped, Killed
<1>9. KilledRestNothing'
  BY <1>1, <1>5 DEF KillInv, VenueTyped, KilledRestNothing, Owned
<1>10. pc' = "matching" => admitted
  BY <1>1 DEF Return
<1>11. Apart'
  <2>1. \A w \in settled' : w \in Owner /\ risk[w].killed
    BY <1>1 DEF Killed
  <2>2. ASSUME admitted
        PROVE  /\ taker'.owner \in Owner => ~risk'[taker'.owner].killed
               /\ \A w \in settled' : risk'[w].killed
    BY <1>5, <1>6, <1>7, <2>1, <2>2
  <2>3. trades' = <<>>
    BY <1>1
  <2>4. pc' = "liquidating" => victim' \in Owner
    BY <1>1 DEF Return, KillInv, VenueTyped
  <2>5. QED
    BY <1>7, <1>10, <2>2, <2>3, <2>4 DEF Apart
<1>12. QED
  BY <1>4, <1>8, <1>9, <1>11 DEF KillInv, VenueTyped, Frozen

LEMMA MatchStep ==
  ASSUME KillInv, Match
  PROVE  KillInv' /\ Frozen
<1> USE DEF Order
<1>1. PICK r \in Opposing(taker) :
        LET q == Min({Left(taker), Left(r)})
            t == TradeOf(r, taker, q)
            rested == [r EXCEPT !.filled = @ + q]
        IN  /\ book' = (book \ {r}) \cup (IF Left(rested) > 0 THEN {rested} ELSE {})
            /\ taker' = [taker EXCEPT !.filled = @ + q]
            /\ trades' = Append(trades, t)
            /\ traded' = [o \in Owner |-> [traded[o] EXCEPT ![t.symbol] =
                            @ + (IF o = t.taker THEN Signed(t.side, q) ELSE 0)
                              - (IF o = t.maker THEN Signed(t.side, q) ELSE 0)]]
  BY DEF Match
<1> DEFINE q == Min({Left(taker), Left(r)})
           t == TradeOf(r, taker, q)
           rested == [r EXCEPT !.filled = @ + q]
<1>2. pc = "matching" /\ UNCHANGED <<risk, pc, calls, settled, spanned, victim>>
  BY DEF Match, spanVars
<1>3. taker \in Order /\ r \in book /\ r \in Order
  BY <1>2 DEF KillInv, VenueTyped, Apart, Opposing
<1>4. q \in Int
  BY <1>3, MinIs DEF Left
<1>5. rested \in Order /\ rested.owner = r.owner
  BY <1>3, <1>4
<1>6. taker' \in Order /\ taker'.owner = taker.owner
  <2>1. taker' = [taker EXCEPT !.filled = @ + q]
    BY <1>1
  <2>2. taker.filled + q \in Int
    BY <1>3, <1>4
  <2>3. QED
    BY <1>3, <2>1, <2>2
<1>7. t \in Trade /\ t.maker = r.owner /\ t.taker = taker.owner
  BY <1>3, <1>4 DEF Trade, TradeOf
<1>8. traded' \in Holdings
  <2>1. Signed(t.side, q) \in Int
    BY <1>4, SignedInt
  <2>2. \A o \in Owner : traded[o] \in [Symbol -> Int]
    BY DEF KillInv, VenueTyped, Holdings
  <2>3. QED
    BY <1>1, <1>7, <2>1, <2>2 DEF Holdings, Trade
<1>9. trades' = Append(trades, t) /\ trades' \in Seq(Trade)
  <2>1. trades' = Append(trades, t)
    BY <1>1
  <2> HIDE DEF t
  <2>2. QED
    BY <1>7, <2>1 DEF KillInv, VenueTyped
<1>10. VenueTyped'
  <2>1. book' \subseteq Order
    BY <1>1, <1>5 DEF KillInv, VenueTyped
  <2>2. QED
    BY <1>2, <1>6, <1>8, <1>9, <2>1 DEF KillInv, VenueTyped
<1>11. KilledRestNothing'
  BY <1>1, <1>2, <1>3, <1>5 DEF KillInv, KilledRestNothing
<1>12. Apart'
  <2>1. r.owner \notin settled /\ taker.owner \notin settled
    BY <1>2, <1>3 DEF KillInv, VenueTyped, KilledRestNothing, Apart
  <2>2. \A i \in 1 .. Len(trades') : trades'[i].maker \notin settled' /\ trades'[i].taker \notin settled'
    BY <1>2, <1>7, <1>9, <2>1 DEF KillInv, VenueTyped, Apart
  <2>3. QED
    BY <1>2, <1>6, <2>2 DEF KillInv, Apart
<1>13. QED
  BY <1>2, <1>10, <1>11, <1>12 DEF KillInv, Frozen

LEMMA MatchDoneStep ==
  ASSUME KillInv, MatchDone
  PROVE  KillInv' /\ Frozen
<1>1. /\ pc = "matching"
      /\ book' = book \cup (IF Left(taker) > 0 /\ taker.price # NoPrice THEN {taker} ELSE {})
      /\ taker' = NoOrder
      /\ \/ trades' = << >> /\ Return
         \/ trades' = trades /\ pc' = "booking"
      /\ UNCHANGED <<risk, traded, calls, settled, spanned, victim>>
  BY DEF MatchDone, spanVars
<1>2. taker \in Order
  BY <1>1 DEF KillInv, Apart
<1>3. VenueTyped'
  <2>1. trades' \in Seq(Trade)
    <3>1. << >> \in Seq(Trade)
      OBVIOUS
    <3>2. QED
      BY <1>1, <3>1 DEF KillInv, VenueTyped
  <2>2. QED
    BY <1>1, <1>2, <2>1 DEF KillInv, VenueTyped
<1>4. KilledRestNothing'
  BY <1>1 DEF KillInv, KilledRestNothing, Apart
<1>5. Apart'
  <2>1. CASE trades' = << >> /\ Return
    <3>1. victim = Nobody \/ victim \in Owner
      BY DEF KillInv, VenueTyped
    <3>2. pc' # "matching" /\ (pc' = "liquidating" => victim' \in Owner)
      BY <1>1, <2>1, <3>1 DEF Return
    <3>3. QED
      BY <2>1, <3>2 DEF Apart
  <2>2. CASE trades' = trades /\ pc' = "booking"
    BY <1>1, <2>2 DEF KillInv, Apart
  <2>3. QED
    BY <1>1, <2>1, <2>2
<1>6. QED
  BY <1>1, <1>3, <1>4, <1>5 DEF KillInv, Frozen

LEMMA BookStep ==
  ASSUME KillInv, Book
  PROVE  KillInv' /\ Frozen
<1> DEFINE t == Head(trades)
           marked == [o \in Owner |-> Marked(risk[o], t.symbol, Delta(mark, t.symbol, t.price))]
           mark2 == [mark EXCEPT ![t.symbol] = t.price]
           Party(rk, o, side) ==
             IF o \in Owner THEN [rk EXCEPT ![o] = Booked(@, mark2, t.symbol, side, t.price, t.quantity)] ELSE rk
<1>1. /\ pc = "booking" /\ trades # << >>
      /\ risk' = Party(Party(marked, t.maker, Opposite(t.side)), t.taker, t.side)
      /\ book' = CancelKilled(Killed(risk'), t)
      /\ trades' = Tail(trades)
      /\ UNCHANGED <<pc, taker, calls, traded, settled, spanned, victim>>
  BY DEF Book, spanVars
<1>2. t \in Trade /\ t.maker \notin settled /\ t.taker \notin settled
  <2>1. t = trades[1] /\ trades \in Seq(Trade) /\ 1 \in 1 .. Len(trades)
    BY <1>1, EmptySeq, LenProperties DEF KillInv, VenueTyped
  <2>2. t \in Trade
    BY <2>1
  <2>3. QED
    BY Zenon, <2>1, <2>2 DEF KillInv, Apart
<1>3. RiskOK(marked) /\ \A o \in Owner : marked[o].pos = risk[o].pos /\ marked[o].killed = risk[o].killed
  BY MarkedKeeps DEF KillInv, VenueTyped, RiskOK, Kept
<1> HIDE DEF marked, mark2
<1>4. ASSUME NEW rk, RiskOK(rk), NEW o, NEW side
      PROVE  RiskOK(Party(rk, o, side)) /\ \A w \in Owner \ {o} : Party(rk, o, side)[w] = rk[w]
  <2>1. CASE o \in Owner
    <3>1. StateOK(Booked(rk[o], mark2, t.symbol, side, t.price, t.quantity))
      BY <1>2, <1>4, <2>1, BookedKeepsShape DEF RiskOK, Trade
    <3>2. QED
      BY <1>4, <2>1, <3>1 DEF RiskOK
  <2>2. CASE o \notin Owner
    BY <1>4, <2>2
  <2>3. QED
    BY <2>1, <2>2
<1> HIDE DEF Party
<1>5. RiskOK(risk') /\ \A w \in Owner \ {t.maker, t.taker} : risk'[w].pos = risk[w].pos /\ risk'[w].killed = risk[w].killed
  <2>1. RiskOK(Party(marked, t.maker, Opposite(t.side)))
    BY <1>3, <1>4
  <2>2. RiskOK(risk')
    BY <1>1, <1>4, <2>1
  <2>3. QED
    BY <1>1, <1>3, <1>4, <2>1, <2>2
<1> HIDE DEF t
<1>6. Frozen
  BY <1>2, <1>5 DEF Frozen, KillInv, VenueTyped
<1>7. book' = {r \in book : r.owner \notin Killed(risk') \cap {t.maker, t.taker}}
  BY <1>1 DEF CancelKilled
<1>8. VenueTyped'
  <2>1. trades' \in Seq(Trade)
    BY <1>1, HeadTailProperties DEF KillInv, VenueTyped
  <2>2. book' \subseteq Order
    BY <1>7 DEF KillInv, VenueTyped
  <2>3. QED
    BY <1>1, <1>5, <2>1, <2>2 DEF KillInv, VenueTyped
<1>9. KilledRestNothing'
  <2> SUFFICES ASSUME NEW r \in book', r.owner \in Owner PROVE ~risk'[r.owner].killed
    BY DEF KilledRestNothing
  <2>1. CASE r.owner \in {t.maker, t.taker}
    BY <1>7, <2>1 DEF Killed
  <2>2. CASE r.owner \notin {t.maker, t.taker}
    BY <1>5, <1>7, <2>2 DEF KillInv, KilledRestNothing
  <2>3. QED
    BY <2>1, <2>2
<1>10. Apart'
  <2>1. \A i \in 1 .. Len(trades') : i + 1 \in 1 .. Len(trades) /\ trades'[i] = trades[i + 1]
    <3>1. Len(trades) \in Nat /\ Len(trades') = Len(trades) - 1 /\ \A i \in 1 .. Len(trades') : trades'[i] = trades[i + 1]
      BY <1>1, HeadTailProperties, LenProperties DEF KillInv, VenueTyped
    <3>2. QED
      BY <3>1
  <2>2. QED
    BY <1>1, <2>1 DEF KillInv, Apart
<1>11. QED
  BY <1>6, <1>8, <1>9, <1>10 DEF KillInv

(* A modification may put its order to matching.                           *)
LEMMA ModifyStep ==
  ASSUME KillInv, NEW r \in book, NEW am \in Amendments, ModifyOrder(r, am)
  PROVE  KillInv' /\ Frozen
<1> USE DEF Order
<1> DEFINE new == Amended(r, am)
           less == [r EXCEPT !.quantity = am.quantity]
<1>1. /\ pc = "idle" /\ trades = << >> /\ calls' = calls + 1
      /\ UNCHANGED <<risk, trades, traded, spanned, victim>>
      /\ \/ /\ book' = book \ {r}
            /\ UNCHANGED <<pc, taker, settled>>
         \/ /\ book' = (book \ {r}) \cup {less}
            /\ UNCHANGED <<pc, taker, settled>>
         \/ /\ book' = book \ {r}
            /\ pc' = "matching" /\ taker' = new
            /\ settled' = Killed(risk)
  BY DEF ModifyOrder, Idle, spanVars, KillInv, Apart
<1>2. r \in Order /\ am.quantity \in Int /\ am.price \in Int
  BY VenueAssumption DEF KillInv, VenueTyped
<1>3. less \in Order /\ less.owner = r.owner
  BY <1>2
<1>4. new \in Order /\ new.owner = r.owner
  BY <1>2 DEF Amended, KillInv, VenueTyped
<1>5. VenueTyped'
  <2>1. settled' \subseteq Owner
    BY <1>1 DEF KillInv, VenueTyped, Killed
  <2>2. book' \subseteq Order /\ taker' \in Order \cup {NoOrder}
    BY <1>1, <1>3, <1>4 DEF KillInv, VenueTyped
  <2>3. QED
    BY <1>1, <2>1, <2>2 DEF KillInv, VenueTyped
<1>6. KilledRestNothing'
  BY <1>1, <1>3 DEF KillInv, KilledRestNothing
<1>7. Apart'
  BY <1>1, <1>4 DEF KillInv, KilledRestNothing, Apart, Killed
<1>8. QED
  BY <1>1, <1>5, <1>6, <1>7 DEF KillInv, Frozen

(* Steps that only take orders off the book, or do not touch it.           *)
LEMMA QuietStep ==
  ASSUME KillInv, book' \subseteq book, spanned' \in Holdings,
         UNCHANGED <<risk, taker, trades, calls, traded, settled>>,
         victim' \in Owner \cup {Nobody},
         \/ pc' = pc /\ victim' = victim
         \/ trades = << >> /\ pc' = "idle"
         \/ trades = << >> /\ pc' = "liquidating" /\ victim' \in Owner
  PROVE  KillInv' /\ Frozen
<1>1. VenueTyped'
  BY DEF KillInv, VenueTyped
<1>2. KilledRestNothing'
  BY DEF KillInv, KilledRestNothing
<1>3. Apart'
  BY DEF KillInv, Apart
<1>4. QED
  BY <1>1, <1>2, <1>3 DEF KillInv, Frozen

LEMMA LiquidatePositionStep ==
  ASSUME KillInv, NEW s \in Symbol, LiquidatePosition(s)
  PROVE  KillInv' /\ Frozen
<1>1. victim \in Owner /\ spanned[victim][s] \in Int
  BY DEF LiquidatePosition, KillInv, VenueTyped, Apart, Holdings
<1>2. LiquidationOrder(victim, s) \in Order
  BY <1>1, AbsInt DEF LiquidationOrder, Order, Participant, NoPrice
<1>3. spanned' \in Holdings
  BY <1>1 DEF LiquidatePosition, KillInv, VenueTyped, Holdings
<1>4. trades = << >> /\ Place(LiquidationOrder(victim, s)) /\ victim' = victim
  BY DEF LiquidatePosition, KillInv, Apart
<1>5. QED
  BY <1>2, <1>3, <1>4, PlaceStep

LEMMA VenueStep == KillInv /\ [Next]_vars => KillInv' /\ Frozen
<1> SUFFICES ASSUME KillInv, [Next]_vars PROVE KillInv' /\ Frozen
  OBVIOUS
<1>0. spanned \in Holdings /\ victim \in Owner \cup {Nobody} /\ (Idle => trades = << >>)
  BY DEF KillInv, VenueTyped, Apart, Idle
<1>1. ASSUME NEW tk \in Tickets, Submit(tk)
      PROVE  KillInv' /\ Frozen
  BY <1>0, <1>1, PlaceStep, VenueAssumption DEF Submit, spanVars
<1>2. CASE Match
  BY <1>2, MatchStep
<1>3. CASE MatchDone
  BY <1>3, MatchDoneStep
<1>4. CASE Book
  BY <1>4, BookStep
<1>5. CASE BookDone
  BY <1>0, <1>5, QuietStep DEF BookDone, Return, spanVars
<1>6. ASSUME NEW r \in book, CancelOrder(r)
      PROVE  KillInv' /\ Frozen
  BY <1>0, <1>6, QuietStep DEF CancelOrder, spanVars
<1>7. ASSUME NEW r \in book, NEW am \in Amendments, ModifyOrder(r, am)
      PROVE  KillInv' /\ Frozen
  BY <1>7, ModifyStep
<1>8. ASSUME NEW o \in Owner, CancelAllForParticipant(o)
      PROVE  KillInv' /\ Frozen
  BY <1>0, <1>8, QuietStep DEF CancelAllForParticipant, spanVars
<1>9. ASSUME NEW o \in Owner, UpdatePosition(o)
      PROVE  KillInv' /\ Frozen
  <2>1. spanned' \in Holdings
    BY <1>9 DEF UpdatePosition, KillInv, VenueTyped, Holdings
  <2>2. QED
    BY <1>0, <1>9, <2>1, QuietStep DEF UpdatePosition
<1>10. ASSUME NEW o \in Owner, Liquidate(o)
       PROVE  KillInv' /\ Frozen
  BY <1>0, <1>10, QuietStep DEF Liquidate
<1>11. ASSUME NEW s \in Symbol, Halt(s)
       PROVE  KillInv' /\ Frozen
  BY <1>0, <1>11, QuietStep DEF Halt, spanVars
<1>12. ASSUME NEW s \in Symbol, LiquidatePosition(s)
       PROVE  KillInv' /\ Frozen
  BY <1>12, LiquidatePositionStep
<1>13. ASSUME NEW o \in Owner, NEW c \in Cash, SetCashBalance(o, c)
       PROVE  KillInv' /\ Frozen
  BY <1>0, <1>13, QuietStep DEF SetCashBalance
<1>14. CASE TimePasses
  BY <1>0, <1>14, QuietStep DEF TimePasses, spanVars
<1>15. CASE LiquidationDone
  <2>1. trades = << >>
    BY <1>15 DEF LiquidationDone, KillInv, Apart
  <2>2. QED
    BY <1>0, <1>15, <2>1, QuietStep DEF LiquidationDone
<1>16. CASE (\E tk \in Tickets : Refuse(tk)) \/ UNCHANGED vars
  BY <1>0, <1>16, QuietStep DEF Refuse, vars
<1>17. QED
  BY <1>1, <1>2, <1>3, <1>4, <1>5, <1>6, <1>7, <1>8, <1>9, <1>10, <1>11, <1>12, <1>13,
     <1>14, <1>15, <1>16 DEF Next

THEOREM KillInvHolds == Spec => []KillInv
<1>1. KillInv /\ [Next]_vars => KillInv'
  BY VenueStep
<1>2. QED
  BY <1>1, InitHolds, PTL DEF Spec

(* Nothing of a killed participant rests on a book at any step of a call   *)
(* (cancel_all_for_participant as the kill switch callback, validate_order *)
(* at the entrance).                                                       *)
THEOREM KilledNeverRest == Spec => []KilledRestNothing
<1>1. KillInv => KilledRestNothing
  BY DEF KillInv
<1>2. QED
  BY <1>1, KillInvHolds, PTL

(* The position of a participant who was killed before the call began does *)
(* not change (validate_order, on_trade_fill).                             *)
THEOREM KilledNeverTrade == Spec => KilledPositionsFrozen
<1>1. KillInv /\ [Next]_vars =>
        [\A o \in settled : risk[o].killed => risk'[o].pos = risk[o].pos]_vars
  BY VenueStep DEF Frozen
<1>2. QED
  BY <1>1, KillInvHolds, PTL DEF Spec, KilledPositionsFrozen

-----------------------------------------------------------------------------
(* Entry prices and fills.                                                 *)
LEMMA Quotients ==
  ASSUME NEW a \in Int, NEW b \in Int, a > 0, b > 0, a % b = 0
  PROVE  Exactly(a, b) \in Nat /\ Exactly(a, b) > 0 /\ b * Exactly(a, b) = a
<1> DEFINE k == a \div b
<1>1. k \in Int /\ a = b * k
  BY Quotient
<1>2. Exactly(a, b) = k
  BY Zenon DEF Exactly
<1> HIDE DEF k
<1>3. k > 0
  BY <1>1, Signs
<1>4. QED
  BY <1>1, <1>2, <1>3

(* What a fill does to an entry price.                                     *)
WholeAverage(old, new, avg, p) ==
  new # 0 /\ old * (new - old) >= 0 => (Abs(old) * avg + Abs(new - old) * p) % Abs(new) = 0

LEMMA AverageGrown ==
  ASSUME NEW old \in Int, NEW new \in Int, NEW avg \in Nat, NEW p \in Nat, p > 0, new # 0,
         \/ old >= 0 /\ new > old
         \/ old <= 0 /\ new < old,
         WholeAverage(old, new, avg, p)
  PROVE  LET na == NewAverage(old, new, avg, p)
         IN  na \in Nat /\ na > 0 /\ new * na = old * avg + (new - old) * p
<1> DEFINE n == new - old
           a == Abs(old) * avg + Abs(n) * p
           na == NewAverage(old, new, avg, p)
<1>1. n \in Int /\ n # 0 /\ Abs(old) \in Nat /\ Abs(n) \in Nat /\ Abs(n) > 0 /\ Abs(new) \in Nat /\ Abs(new) > 0
  BY DEF Abs
<1>2. old * n >= 0
  BY <1>1, Signs
<1>3. a \in Int /\ a > 0
  <2>1. Abs(old) * avg >= 0 /\ Abs(n) * p > 0 /\ Abs(old) * avg \in Int /\ Abs(n) * p \in Int
    BY <1>1, Signs, Products
  <2>2. QED
    BY <2>1
<1>4. a % Abs(new) = 0
  BY <1>2 DEF WholeAverage
<1>5. na = Exactly(a, Abs(new))
  BY <1>2 DEF NewAverage
<1> HIDE DEF na
<1>6. na \in Nat /\ na > 0 /\ Abs(new) * na = a
  BY <1>1, <1>3, <1>4, <1>5, Quotients
<1>7. new * na = old * avg + n * p
  <2>1. CASE old >= 0 /\ new > old
    BY <1>6, <2>1 DEF Abs
  <2>2. CASE old <= 0 /\ new < old
    <3>1. Abs(new) = -new /\ Abs(old) = -old /\ Abs(n) = -n
      BY <2>2 DEF Abs
    <3>2. (-new) * na = (-old) * avg + (-n) * p
      BY <1>6, <3>1
    <3>3. (-new) * na = -(new * na) /\ (-old) * avg = -(old * avg) /\ (-n) * p = -(n * p)
          /\ new * na \in Int /\ old * avg \in Int /\ n * p \in Int
      BY <1>1, <1>6
    <3>4. QED
      BY <3>2, <3>3
  <2>3. QED
    BY <2>1, <2>2
<1>8. QED
  BY <1>6, <1>7 DEF na

LEMMA AverageShrunk ==
  ASSUME NEW old \in Int, NEW new \in Int, NEW avg \in Nat, avg > 0, NEW p \in Nat, p > 0,
         \/ old > 0 /\ new < old
         \/ old < 0 /\ new > old
  PROVE  NewAverage(old, new, avg, p) = IF new = 0 THEN NoPrice ELSE IF old * new < 0 THEN p ELSE avg
<1>1. old * (new - old) < 0
  BY Signs
<1>2. new = 0 => ~(old * new < 0)
  OBVIOUS
<1>3. QED
  BY <1>1, <1>2 DEF NewAverage

(* The profit that a fill takes.                                           *)
Gain(old, side, q, avg, p) ==
  IF old * Signed(side, 1) < 0 THEN Signed(Opposite(side), Min({Abs(old), q})) * (p - avg) ELSE 0

(* A fill costs its lots at its price, less the profit taken.              *)
LEMMA FillCosts ==
  ASSUME NEW old \in Int, NEW side \in {"BUY", "SELL"}, NEW q \in Nat, q > 0, NEW avg \in Nat, NEW p \in Nat, p > 0,
         old # 0 => avg > 0,
         WholeAverage(old, old + Signed(side, q), avg, p)
  PROVE  LET new == old + Signed(side, q)
             na == NewAverage(old, new, avg, p)
         IN  /\ na \in Nat /\ (new # 0 => na > 0)
             /\ Gain(old, side, q, avg, p) \in Int
             /\ new * na - old * avg = Gain(old, side, q, avg, p) + Signed(side, q) * p
<1> DEFINE n == Signed(side, q)
           new == old + n
           na == NewAverage(old, new, avg, p)
           gain == Gain(old, side, q, avg, p)
<1>1. n \in Int /\ new \in Int /\ (side = "BUY" => n = q) /\ (side = "SELL" => n = -q)
  BY DEF Signed
<1>2. CASE (side = "BUY" /\ old >= 0) \/ (side = "SELL" /\ old <= 0)
  <2>1. ~(old * Signed(side, 1) < 0)
    BY <1>2 DEF Signed
  <2>2. gain = 0
    BY <2>1 DEF Gain
  <2>3. (old >= 0 /\ new > old) \/ (old <= 0 /\ new < old)
    BY <1>1, <1>2
  <2>4. new # 0 /\ new - old = n
    BY <1>1, <1>2
  <2> HIDE DEF na, gain, new
  <2>5. na \in Nat /\ na > 0 /\ new * na = old * avg + (new - old) * p
    BY <1>1, <2>3, <2>4, AverageGrown DEF na, new
  <2>6. new * na \in Int /\ old * avg \in Int /\ n * p \in Int
    BY <1>1, <2>5
  <2>7. na \in Nat /\ na > 0 /\ gain \in Int /\ new * na - old * avg = gain + n * p
    BY <2>2, <2>4, <2>5, <2>6
  <2>8. QED
    BY <2>7 DEF na, gain, new
<1>3. CASE (side = "BUY" /\ old < 0) \/ (side = "SELL" /\ old > 0)
  <2>1. old * Signed(side, 1) < 0 /\ avg > 0
    BY <1>3 DEF Signed
  <2>2. Abs(old) \in Int /\ Abs(old) = (IF side = "BUY" THEN -old ELSE old)
    BY <1>3 DEF Abs
  <2>3. gain = (IF q <= Abs(old) THEN -n ELSE old) * (p - avg)
    <3>1. Min({Abs(old), q}) = IF q <= Abs(old) THEN q ELSE Abs(old)
      BY <2>2, MinIs
    <3>2. Signed(Opposite(side), Min({Abs(old), q})) = IF q <= Abs(old) THEN -n ELSE old
      BY <1>1, <1>3, <2>2, <3>1 DEF Signed, Opposite
    <3>3. QED
      BY <2>1, <3>2 DEF Gain
  <2>4. (old > 0 /\ new < old) \/ (old < 0 /\ new > old)
    BY <1>1, <1>3
  <2> HIDE DEF na, new, gain
  <2>5. na = IF new = 0 THEN NoPrice ELSE IF old * new < 0 THEN p ELSE avg
    BY <1>1, <2>1, <2>4, AverageShrunk DEF na, new
  <2>6. q <= Abs(old) <=> ~(old * new < 0)
    <3>1. CASE q <= Abs(old)
      <4>1. (old < 0 /\ new <= 0) \/ (old > 0 /\ new >= 0)
        BY <1>1, <1>3, <2>2, <3>1 DEF new
      <4>2. QED
        BY <1>1, <3>1, <4>1, Signs DEF new
    <3>2. CASE q > Abs(old)
      <4>1. (old < 0 /\ new > 0) \/ (old > 0 /\ new < 0)
        BY <1>1, <1>3, <2>2, <3>2 DEF new
      <4>2. QED
        BY <1>1, <2>2, <3>2, <4>1, Signs
    <3>3. QED
      BY <2>2, <3>1, <3>2
  <2>7. na \in Nat /\ (new # 0 => na > 0)
    BY <2>1, <2>5 DEF NoPrice
  <2>8. gain \in Int /\ new * na - old * avg = gain + n * p
    <3>1. /\ n * (p - avg) = n * p - n * avg /\ old * (p - avg) = old * p - old * avg
          /\ (-n) * (p - avg) = n * avg - n * p
          /\ new * p = old * p + n * p /\ new * avg = old * avg + n * avg
          /\ old * p \in Int /\ old * avg \in Int /\ n * p \in Int /\ n * avg \in Int
      BY <1>1 DEF new
    <3>2. CASE new = 0
      <4>1. q <= Abs(old) /\ na = 0
        BY <3>2, <2>5, <2>6 DEF NoPrice
      <4>2. new * na = 0 /\ old * avg + n * avg = 0
        BY <3>1, <3>2, <4>1
      <4>3. QED
        BY <2>3, <3>1, <4>1, <4>2
    <3>3. CASE new # 0 /\ q <= Abs(old)
      <4>1. na = avg
        BY <3>3, <2>5, <2>6
      <4>2. QED
        BY <2>3, <3>1, <3>3, <4>1
    <3>4. CASE new # 0 /\ q > Abs(old)
      <4>1. na = p /\ ~(q <= Abs(old))
        BY <2>2, <3>4, <2>5, <2>6
      <4>2. QED
        BY <2>3, <3>1, <4>1
    <3>5. QED
      BY <2>2, <3>2, <3>3, <3>4
  <2>9. QED
    BY <2>7, <2>8 DEF na, new, gain
<1>4. QED
  BY <1>2, <1>3

-----------------------------------------------------------------------------
(* The sheet of a participant: what the risk engine carries of him.        *)
Prices == [Symbol -> Nat]

Value(pos, rate) == SumFunctionOnSet([s \in Symbol |-> pos[s] * rate[s]], Symbol)

Turnover(pos, rate) == SumFunctionOnSet([s \in Symbol |-> Abs(pos[s]) * rate[s]], Symbol)

(* Open positions have an entry price; quoted ones have a market price.    *)
Entered(st) == \A s \in Symbol : st.pos[s] # 0 => st.avg[s] > 0

Quoted(st, mk) == \A s \in Symbol : st.pos[s] # 0 => mk[s] > 0

Carried(st, mk) ==
  /\ st.gross = Turnover(st.pos, mk)
  /\ st.net = Value(st.pos, mk)
  /\ st.unreal = Value(st.pos, mk) - Value(st.pos, st.avg)

Sheet(st) ==
  /\ StateOK(st)
  /\ st.avg \in Prices
  /\ st.realized \in Int
  /\ st.dirty \in BOOLEAN
  /\ Entered(st)

(* What is carried is right, of whoever was not valued at a guess.         *)
Reckoned(st, mk) == ~st.dirty => Quoted(st, mk) /\ Carried(st, mk)

Worth(st) == st.realized - Value(st.pos, st.avg)

LEMMA ValueInt ==
  ASSUME IsFiniteSet(Symbol), NEW pos \in [Symbol -> Int], NEW rate \in Prices
  PROVE  Value(pos, rate) \in Int /\ Turnover(pos, rate) \in Nat
<1> DEFINE f == [s \in Symbol |-> pos[s] * rate[s]]
           g == [s \in Symbol |-> Abs(pos[s]) * rate[s]]
<1>1. Ints(f, Symbol)
  BY DEF Ints, Prices
<1>2. \A s \in Symbol : g[s] \in Nat
  <2> TAKE s \in Symbol
  <2>1. Abs(pos[s]) \in Nat /\ rate[s] \in Nat
    BY DEF Prices, Abs
  <2>2. Abs(pos[s]) * rate[s] \in Nat
    BY <2>1
  <2>3. QED
    BY <2>2
<1> HIDE DEF f, g
<1>3. SumFunctionOnSet(f, Symbol) \in Int /\ SumFunctionOnSet(g, Symbol) \in Nat
  BY <1>1, <1>2, SumInt, SumNat
<1>4. QED
  BY <1>3 DEF f, g, Value, Turnover

(* A sum moves with the one position or the one rate that changes.         *)
Moved(new, old, s, n) == new = [old EXCEPT ![s] = n]

SumsMove(pos2, rate2, pos, rate, s, n, p) ==
  /\ pos2 \in [Symbol -> Int] /\ rate2 \in Prices
  /\ Value(pos2, rate2) = Value(pos, rate) - pos[s] * rate[s] + n * p
  /\ Turnover(pos2, rate2) = Turnover(pos, rate) - Abs(pos[s]) * rate[s] + Abs(n) * p
  /\ Turnover(pos, rate) - Abs(pos[s]) * rate[s] >= 0

LEMMA ValueMoves ==
  ASSUME IsFiniteSet(Symbol), NEW pos \in [Symbol -> Int], NEW rate \in Prices,
         NEW s \in Symbol, NEW n \in Int, NEW p \in Nat,
         NEW pos2, NEW rate2, Moved(pos2, pos, s, n), Moved(rate2, rate, s, p)
  PROVE  SumsMove(pos2, rate2, pos, rate, s, n, p)
<1> DEFINE f == [x \in Symbol |-> pos[x] * rate[x]]
           g == [x \in Symbol |-> Abs(pos[x]) * rate[x]]
           f2 == [x \in Symbol |-> pos2[x] * rate2[x]]
           g2 == [x \in Symbol |-> Abs(pos2[x]) * rate2[x]]
<1>0. pos2 = [pos EXCEPT ![s] = n] /\ rate2 = [rate EXCEPT ![s] = p]
  BY DEF Moved
<1>1. pos2 \in [Symbol -> Int] /\ rate2 \in Prices
  BY <1>0 DEF Prices
<1>2. \A x \in Symbol : f[x] \in Int /\ f2[x] \in Int /\ g[x] \in Nat /\ g2[x] \in Nat
  <2> TAKE x \in Symbol
  <2>1. /\ Abs(pos[x]) \in Nat /\ rate[x] \in Nat /\ pos[x] \in Int
        /\ Abs(pos2[x]) \in Nat /\ rate2[x] \in Nat /\ pos2[x] \in Int
    BY <1>1 DEF Prices, Abs
  <2>2. QED
    BY <2>1
<1>3. \A x \in Symbol : x # s => f[x] = f2[x] /\ g[x] = g2[x]
  BY <1>0
<1>4. f2[s] = n * p /\ g2[s] = Abs(n) * p /\ f[s] = pos[s] * rate[s] /\ g[s] = Abs(pos[s]) * rate[s]
  BY <1>0 DEF Prices
<1>5. /\ Value(pos, rate) = SumFunctionOnSet(f, Symbol) /\ Turnover(pos, rate) = SumFunctionOnSet(g, Symbol)
      /\ Value(pos2, rate2) = SumFunctionOnSet(f2, Symbol) /\ Turnover(pos2, rate2) = SumFunctionOnSet(g2, Symbol)
  BY DEF Value, Turnover
<1> HIDE DEF f, g, f2, g2
<1>6. Ints(f, Symbol) /\ Ints(g, Symbol) /\ Ints(f2, Symbol) /\ Ints(g2, Symbol)
  BY <1>2 DEF Ints
<1>7. /\ SumFunctionOnSet(f2, Symbol) = SumFunctionOnSet(f, Symbol) - f[s] + f2[s]
      /\ SumFunctionOnSet(g2, Symbol) = SumFunctionOnSet(g, Symbol) - g[s] + g2[s]
  BY <1>3, <1>6, SumChange
<1>8. SumFunctionOnSet(g, Symbol) - g[s] >= 0
  <2>1. IsFiniteSet(Symbol \ {s}) /\ \A x \in Symbol \ {s} : g[x] \in Nat
    BY <1>2, FS_RemoveElement
  <2>2. SumFunctionOnSet(g, Symbol \ {s}) \in Nat
    BY <2>1, SumNat
  <2>3. SumFunctionOnSet(g, Symbol) = g[s] + SumFunctionOnSet(g, Symbol \ {s}) /\ g[s] \in Int
    BY <1>6, SumTake
  <2>4. QED
    BY <2>2, <2>3
<1>9. QED
  BY <1>1, <1>4, <1>5, <1>7, <1>8 DEF SumsMove

(* The open profit is the value less the cost, whatever prices are known.  *)
LEMMA OpenProfit ==
  ASSUME IsFiniteSet(Symbol), NEW st, NEW mk \in Prices, StateOK(st), st.avg \in Prices, Entered(st)
  PROVE  /\ UnrealOf(st, mk) = NetOf(st, mk) - Value(st.pos, st.avg)
         /\ NetOf(st, mk) \in Int
<1> DEFINE net == [s \in Symbol |-> st.pos[s] * PriceOf(st, mk, s)]
           unreal == [s \in Symbol |-> IF st.avg[s] > 0 THEN st.pos[s] * (PriceOf(st, mk, s) - st.avg[s]) ELSE 0]
           e == [s \in Symbol |-> st.pos[s] * st.avg[s]]
<1>1. ASSUME NEW s \in Symbol
      PROVE  unreal[s] = net[s] - e[s] /\ net[s] \in Int /\ e[s] \in Int
  <2>1. st.pos[s] \in Int /\ st.avg[s] \in Nat /\ PriceOf(st, mk, s) \in Nat
    BY DEF StateOK, Prices, PriceOf
  <2>2. CASE st.pos[s] = 0
    <3>1. \A n \in Int : st.pos[s] * n = 0
      BY <2>2
    <3>2. PriceOf(st, mk, s) - st.avg[s] \in Int
      BY <2>1
    <3>3. unreal[s] = 0 /\ net[s] = 0 /\ e[s] = 0
      BY <2>1, <3>1, <3>2
    <3>4. QED
      BY <3>3
  <2>3. CASE st.pos[s] # 0
    <3>1. st.avg[s] > 0
      BY <2>3 DEF Entered
    <3>2. QED
      BY <2>1, <3>1, Products
  <2>4. QED
    BY <2>2, <2>3
<1>2. /\ NetOf(st, mk) = SumFunctionOnSet(net, Symbol) /\ UnrealOf(st, mk) = SumFunctionOnSet(unreal, Symbol)
      /\ Value(st.pos, st.avg) = SumFunctionOnSet(e, Symbol)
  BY DEF NetOf, UnrealOf, Value, SumFunction
<1> HIDE DEF net, unreal, e
<1>3. Ints(net, Symbol) /\ Ints(e, Symbol)
  BY <1>1 DEF Ints
<1>4. SumFunctionOnSet(unreal, Symbol) = SumFunctionOnSet(net, Symbol) - SumFunctionOnSet(e, Symbol)
  BY <1>1, <1>3, SumMinus
<1>5. SumFunctionOnSet(net, Symbol) \in Int
  BY <1>3, SumInt
<1>6. QED
  BY <1>2, <1>4, <1>5

(* What the exposures are, in these terms.                                 *)
LEMMA ExposuresAre ==
  ASSUME IsFiniteSet(Symbol), NEW st, NEW mk \in Prices, StateOK(st), st.avg \in Prices, Entered(st), Quoted(st, mk)
  PROVE  /\ GrossOf(st, mk) = Turnover(st.pos, mk)
         /\ NetOf(st, mk) = Value(st.pos, mk)
         /\ UnrealOf(st, mk) = Value(st.pos, mk) - Value(st.pos, st.avg)
<1> DEFINE gross == [s \in Symbol |-> Abs(st.pos[s]) * PriceOf(st, mk, s)]
           net == [s \in Symbol |-> st.pos[s] * PriceOf(st, mk, s)]
           g == [s \in Symbol |-> Abs(st.pos[s]) * mk[s]]
           f == [s \in Symbol |-> st.pos[s] * mk[s]]
<1>1. ASSUME NEW s \in Symbol
      PROVE  gross[s] = g[s] /\ net[s] = f[s]
  <2>1. st.pos[s] \in Int /\ st.avg[s] \in Nat /\ mk[s] \in Nat /\ PriceOf(st, mk, s) \in Nat
    BY DEF StateOK, Prices, PriceOf
  <2>2. CASE st.pos[s] = 0
    <3>1. Abs(st.pos[s]) = 0
      BY <2>2 DEF Abs
    <3>2. QED
      BY <2>1, <2>2, <3>1
  <2>3. CASE st.pos[s] # 0
    <3>1. PriceOf(st, mk, s) = mk[s]
      BY <2>3 DEF Quoted, PriceOf, NoPrice
    <3>2. QED
      BY <3>1
  <2>4. QED
    BY <2>2, <2>3
<1>2. /\ GrossOf(st, mk) = SumFunctionOnSet(gross, Symbol) /\ NetOf(st, mk) = SumFunctionOnSet(net, Symbol)
      /\ Turnover(st.pos, mk) = SumFunctionOnSet(g, Symbol) /\ Value(st.pos, mk) = SumFunctionOnSet(f, Symbol)
  BY DEF GrossOf, NetOf, Turnover, Value, SumFunction
<1> HIDE DEF gross, net, f, g
<1>3. /\ SumFunctionOnSet(gross, Symbol) = SumFunctionOnSet(g, Symbol)
      /\ SumFunctionOnSet(net, Symbol) = SumFunctionOnSet(f, Symbol)
  BY <1>1, SumSame
<1>4. UnrealOf(st, mk) = NetOf(st, mk) - Value(st.pos, st.avg)
  BY OpenProfit
<1>5. QED
  BY <1>2, <1>3, <1>4

(* The methods of the risk engine keep the sheets.                         *)
Holding(new, st) == new.pos = st.pos /\ new.avg = st.avg /\ new.realized = st.realized

LEMMA HoldingWorth ==
  ASSUME NEW new, NEW st, Holding(new, st)
  PROVE  Worth(new) = Worth(st)
BY DEF Worth, Holding

(* Whoever is not valued by a step, or has all positions quoted when he    *)
(* is, does not become a guess.                                            *)
Surely(new, st, mk) == st.dirty /\ ~new.dirty => Quoted(st, mk)

LEMMA SyncedSheet ==
  ASSUME IsFiniteSet(Symbol), NEW st, NEW mk \in Prices, Sheet(st)
  PROVE  LET new == Synced(st, mk)
         IN  /\ Sheet(new) /\ ~new.dirty /\ Holding(new, st)
             /\ Reckoned(st, mk) /\ Surely(new, st, mk) => Reckoned(new, mk)
<1> DEFINE new == [st EXCEPT !.gross = GrossOf(st, mk), !.net = NetOf(st, mk),
                             !.unreal = UnrealOf(st, mk), !.dirty = FALSE]
<1>1. CASE ~st.dirty
  BY <1>1 DEF Synced, Holding, Sheet
<1>2. CASE st.dirty
  <2>1. Synced(st, mk) = new
    BY <1>2 DEF Synced
  <2>2. StateOK(new)
    BY DEF Sheet, StateOK, Fields
  <2>3. Holding(new, st)
    BY DEF Sheet, StateOK, Fields, Holding
  <2>4. /\ new.gross = GrossOf(st, mk) /\ new.net = NetOf(st, mk) /\ new.unreal = UnrealOf(st, mk)
        /\ new.dirty = FALSE
    BY DEF Sheet, StateOK, Fields
  <2> HIDE DEF new
  <2>5. ASSUME Quoted(st, mk)
        PROVE  Quoted(new, mk) /\ Carried(new, mk)
    <3>1. Quoted(new, mk)
      BY <2>3, <2>5 DEF Holding, Quoted
    <3>2. Carried(new, mk)
      BY <2>3, <2>4, <2>5, ExposuresAre DEF Sheet, Carried, Holding
    <3>3. QED
      BY <3>1, <3>2
  <2>6. Sheet(new)
    BY <2>2, <2>3, <2>4 DEF Sheet, Holding, Entered
  <2>7. Surely(new, st, mk) => Reckoned(new, mk)
    BY <1>2, <2>4, <2>5 DEF Surely, Reckoned
  <2>8. QED
    BY <2>1, <2>3, <2>4, <2>6, <2>7
<1>3. QED
  BY <1>1, <1>2

(* The record is the same but for the peak or the switch.                  *)
Alike(new, st) ==
  /\ StateOK(new) /\ Holding(new, st) /\ new.dirty = st.dirty
  /\ new.gross = st.gross /\ new.net = st.net /\ new.unreal = st.unreal

LEMMA AlikeSheet ==
  ASSUME NEW st, NEW new, Sheet(st), Alike(new, st)
  PROVE  Sheet(new) /\ \A mk : Reckoned(st, mk) => Reckoned(new, mk)
<1>1. Sheet(new)
  BY DEF Sheet, Alike, Holding, Entered
<1>2. ASSUME NEW mk, Reckoned(st, mk)
      PROVE  Reckoned(new, mk)
  BY <1>2 DEF Reckoned, Alike, Holding, Quoted, Carried
<1>3. QED
  BY <1>1, <1>2

LEMMA PeakedAlike ==
  ASSUME NEW st, StateOK(st)
  PROVE  Alike(Peaked(st), st) /\ \A b : Alike([st EXCEPT !.killed = b], st)
<1>1. Alike(Peaked(st), st)
  BY DEF StateOK, Fields, Peaked, Alike, Holding
<1>2. ASSUME NEW b PROVE Alike([st EXCEPT !.killed = b], st)
  BY DEF StateOK, Fields, Alike, Holding
<1>3. QED
  BY <1>1, <1>2

LEMMA ValidateSheet ==
  ASSUME IsFiniteSet(Symbol), NEW o, NEW st, NEW mk \in Prices, Sheet(st)
  PROVE  LET new == ValidateOrder(o, st, mk).state
         IN  /\ Sheet(new) /\ Holding(new, st)
             /\ Reckoned(st, mk) /\ Surely(new, st, mk) => Reckoned(new, mk)
<1> DEFINE synced == Synced(st, mk)
           peaked == Peaked(synced)
           killed == [peaked EXCEPT !.killed = TRUE]
           Fits(new) == /\ Sheet(new) /\ Holding(new, st)
                        /\ Reckoned(st, mk) /\ Surely(new, st, mk) => Reckoned(new, mk)
<1>1. Fits(st)
  BY DEF Holding
<1>2. Fits(synced) /\ ~synced.dirty
  BY SyncedSheet
<1> HIDE DEF synced
<1>3. Alike(peaked, synced)
  BY <1>2, PeakedAlike DEF Sheet
<1> HIDE DEF peaked
<1>4. Alike(killed, peaked)
  BY <1>3, PeakedAlike DEF Alike
<1> HIDE DEF killed
<1>5. Alike(killed, synced)
  BY <1>3, <1>4 DEF Alike, Holding
<1>6. ASSUME NEW new, Alike(new, synced)
      PROVE  Fits(new)
  <2>1. Sheet(new) /\ (Reckoned(synced, mk) => Reckoned(new, mk))
    BY <1>2, <1>6, AlikeSheet
  <2>2. Surely(new, st, mk) => Surely(synced, st, mk)
    BY <1>6 DEF Surely, Alike
  <2>3. QED
    BY <1>2, <1>6, <2>1, <2>2 DEF Alike, Holding
<1> DEFINE new == ValidateOrder(o, st, mk).state
<1>7. new = st \/ new = synced \/ new = peaked \/ new = killed
  BY DEF ValidateOrder, synced, peaked, killed
<1> HIDE DEF new, Fits
<1>8. Fits(new)
  BY <1>1, <1>2, <1>3, <1>5, <1>6, <1>7
<1>9. QED
  BY <1>8 DEF new, Fits

(* update_market_price: what is carried moves with the price.              *)
LEMMA MarkedSheet ==
  ASSUME IsFiniteSet(Symbol), NEW st, NEW mk \in Prices, Sheet(st), NEW s \in Symbol, NEW p \in Nat, p > 0
  PROVE  LET new == Marked(st, s, Delta(mk, s, p))
         IN  /\ Sheet(new) /\ Holding(new, st) /\ new.dirty = st.dirty
             /\ Reckoned(st, mk) => Reckoned(new, [mk EXCEPT ![s] = p])
<1> DEFINE d == Delta(mk, s, p)
           new == Marked(st, s, d)
           mk2 == [mk EXCEPT ![s] = p]
           pos == st.pos
<1>1. mk2 \in Prices /\ pos \in [Symbol -> Int] /\ pos[s] \in Int /\ mk[s] \in Nat /\ Abs(pos[s]) \in Int
  BY DEF Sheet, StateOK, Prices, Abs
<1>2. Quoted(st, mk) => Quoted(st, mk2)
  BY DEF Quoted, Prices
<1>3. CASE st.dirty
  BY <1>3 DEF Marked, Holding, Reckoned
<1>4. CASE ~st.dirty
  <2>1. new = [st EXCEPT !.gross = @ + Abs(pos[s]) * d, !.net = @ + pos[s] * d, !.unreal = @ + pos[s] * d]
    BY <1>4 DEF Marked
  <2> HIDE DEF new
  <2>2. StateOK(new) /\ Holding(new, st) /\ new.dirty = st.dirty
    BY <2>1 DEF Sheet, StateOK, Fields, Holding
  <2>3. new.gross = st.gross + Abs(pos[s]) * d /\ new.net = st.net + pos[s] * d /\ new.unreal = st.unreal + pos[s] * d
    BY <2>1 DEF Sheet, StateOK, Fields
  <2>4. ASSUME Reckoned(st, mk)
        PROVE  Quoted(new, mk2) /\ Carried(new, mk2)
    <3>1. Quoted(st, mk) /\ Carried(st, mk)
      BY <1>4, <2>4 DEF Reckoned
    <3>2. pos[s] * d = pos[s] * p - pos[s] * mk[s] /\ Abs(pos[s]) * d = Abs(pos[s]) * p - Abs(pos[s]) * mk[s]
      <4>1. CASE mk[s] = 0
        <5>1. pos[s] = 0 /\ Abs(pos[s]) = 0 /\ d = 0
          BY <3>1, <4>1, <1>1 DEF Quoted, Delta, NoPrice, Abs
        <5>2. QED
          BY <5>1, <1>1
      <4>2. CASE mk[s] # 0
        <5>1. d = p - mk[s]
          BY <4>2 DEF Delta, NoPrice
        <5>2. /\ pos[s] * (p - mk[s]) = pos[s] * p - pos[s] * mk[s]
              /\ Abs(pos[s]) * (p - mk[s]) = Abs(pos[s]) * p - Abs(pos[s]) * mk[s]
          <6>1. \A a \in Int, b \in Nat : a * (p - b) = a * p - a * b
            BY Products
          <6>2. QED
            BY <1>1, <6>1
        <5>3. QED
          BY <5>1, <5>2
      <4>3. QED
        BY <4>1, <4>2
    <3>3. [pos EXCEPT ![s] = pos[s]] = pos
      BY <1>1
    <3>4. /\ Value(pos, mk2) = Value(pos, mk) - pos[s] * mk[s] + pos[s] * p
          /\ Turnover(pos, mk2) = Turnover(pos, mk) - Abs(pos[s]) * mk[s] + Abs(pos[s]) * p
      <4>1. Moved(mk2, mk, s, p) /\ Moved(pos, pos, s, pos[s])
        BY <3>3 DEF Moved
      <4> HIDE DEF mk2, pos
      <4>2. SumsMove(pos, mk2, pos, mk, s, pos[s], p)
        BY <1>1, <4>1, ValueMoves
      <4>3. QED
        BY <4>2 DEF SumsMove
    <3>5. /\ Value(pos, mk) \in Int /\ Turnover(pos, mk) \in Int /\ Value(pos, st.avg) \in Int
          /\ pos[s] * mk[s] \in Int /\ pos[s] * p \in Int /\ Abs(pos[s]) * mk[s] \in Int /\ Abs(pos[s]) * p \in Int
      BY <1>1, ValueInt DEF Sheet
    <3> HIDE DEF d, mk2
    <3>6. Carried(new, mk2)
      BY <2>2, <2>3, <3>1, <3>2, <3>4, <3>5 DEF Carried, Holding
    <3>7. Quoted(new, mk2)
      BY <1>2, <2>2, <3>1 DEF Quoted, Holding
    <3>8. QED
      BY <3>6, <3>7
  <2> HIDE DEF d, mk2
  <2>5. Sheet(new) /\ (Reckoned(st, mk) => Reckoned(new, mk2))
    BY <2>2, <2>4 DEF Sheet, Holding, Entered, Reckoned
  <2>6. QED
    BY <2>2, <2>5 DEF mk2, d, new
<1>5. QED
  BY <1>3, <1>4

(* on_trade_fill, for one of the parties: he pays for his lots.            *)
LEMMA FilledSheet ==
  ASSUME IsFiniteSet(Symbol), NEW st, NEW mk \in Prices, Sheet(st), ~st.dirty,
         NEW s \in Symbol, NEW side \in {"BUY", "SELL"}, NEW p \in Nat, p > 0, mk[s] = p, NEW q \in Nat, q > 0,
         WholeAverage(st.pos[s], st.pos[s] + Signed(side, q), st.avg[s], p)
  PROVE  LET new == Filled(st, s, side, p, q)
         IN  /\ Sheet(new) /\ ~new.dirty /\ Worth(new) = Worth(st) - Signed(side, q) * p
             /\ Reckoned(st, mk) => Reckoned(new, mk)
<1> DEFINE pos == st.pos
           avg == st.avg
           n == Signed(side, q)
           old == pos[s]
           a == avg[s]
           lots == old + n
           na == NewAverage(old, lots, a, p)
           gain == Gain(old, side, q, a, p)
           open(m, b) == IF b > 0 THEN m * (p - b) ELSE 0
           new == Filled(st, s, side, p, q)
<1>1. /\ pos \in [Symbol -> Int] /\ avg \in Prices /\ old \in Int /\ a \in Nat /\ n \in Int /\ lots \in Int
      /\ (old # 0 => a > 0) /\ Abs(old) \in Int /\ Abs(lots) \in Int
  BY SignedInt, AbsInt DEF Sheet, StateOK, Prices, Entered
<1>2. /\ na \in Nat /\ (lots # 0 => na > 0) /\ gain \in Int
      /\ lots * na - old * a = gain + n * p
  <2>1. WholeAverage(old, old + Signed(side, q), a, p)
    OBVIOUS
  <2> HIDE DEF old, a
  <2>2. QED
    BY <1>1, <2>1, FillCosts
<1>3. StateOK(new)
  BY <1>1 DEF Sheet, StateOK, Fields, Filled
<1>4. new.pos = [pos EXCEPT ![s] = lots] /\ new.avg = [avg EXCEPT ![s] = na] /\ new.dirty = FALSE
  BY DEF Sheet, StateOK, Fields, Filled
<1>5. /\ new.gross = Max({0, st.gross - Abs(old) * p}) + Abs(lots) * p
      /\ new.net = st.net + n * p
      /\ new.unreal = st.unreal - open(old, a) + open(lots, na)
  BY DEF Sheet, StateOK, Fields, Filled
<1>6. new.realized = st.realized + gain
  <2>1. new.realized = IF old * Signed(side, 1) < 0
                       THEN st.realized + Signed(Opposite(side), Min({Abs(old), q})) * (p - a) ELSE st.realized
    BY DEF Sheet, StateOK, Fields, Filled
  <2>2. st.realized \in Int
    BY DEF Sheet
  <2> HIDE DEF new
  <2>3. QED
    BY <2>1, <2>2 DEF Gain
<1>7. st.realized \in Int /\ Entered(st) /\ (Reckoned(st, mk) => Quoted(st, mk) /\ Carried(st, mk))
  BY DEF Sheet, Reckoned
<1>8. Moved(new.pos, pos, s, lots) /\ Moved(new.avg, avg, s, na) /\ Moved(mk, mk, s, p)
  BY <1>4 DEF Moved, Prices
<1> HIDE DEF pos, avg, old, a, n, lots, na, gain, new
<1>9. /\ new.pos \in [Symbol -> Int] /\ new.avg \in Prices
      /\ Value(new.pos, new.avg) = Value(pos, avg) - old * a + lots * na
      /\ Value(new.pos, mk) = Value(pos, mk) - old * p + lots * p
      /\ Turnover(new.pos, mk) = Turnover(pos, mk) - Abs(old) * p + Abs(lots) * p
      /\ Turnover(pos, mk) - Abs(old) * p >= 0
  <2>1. SumsMove(new.pos, new.avg, pos, avg, s, lots, na) /\ SumsMove(new.pos, mk, pos, mk, s, lots, p)
    BY <1>1, <1>2, <1>8, ValueMoves
  <2>2. QED
    BY <2>1 DEF SumsMove, old, a
<1>10. /\ Value(pos, avg) \in Int /\ Value(pos, mk) \in Int /\ Turnover(pos, mk) \in Int
       /\ Abs(old) * p \in Int /\ Abs(lots) * p \in Int /\ old * p \in Int /\ n * p \in Int
       /\ lots * p \in Int /\ lots * na \in Int /\ old * a \in Int
  BY <1>1, <1>2, ValueInt
<1>11. lots * p = old * p + n * p
  BY <1>1, Products DEF lots
<1>12. open(old, a) = old * p - old * a /\ open(lots, na) = lots * p - lots * na
  <2>1. a = 0 => old = 0 /\ old * a = 0 /\ old * p = 0
    BY <1>1
  <2>2. na = 0 => lots = 0 /\ lots * na = 0 /\ lots * p = 0
    BY <1>1, <1>2
  <2>3. old * (p - a) = old * p - old * a /\ lots * (p - na) = lots * p - lots * na
    BY <1>1, <1>2, Products
  <2>4. QED
    BY <1>1, <1>2, <1>10, <2>1, <2>2, <2>3
<1>13. ASSUME Reckoned(st, mk)
       PROVE  Carried(new, mk)
  <2>1. st.gross = Turnover(pos, mk) /\ st.net = Value(pos, mk) /\ st.unreal = Value(pos, mk) - Value(pos, avg)
    BY <1>7, <1>13 DEF Carried, pos, avg
  <2>2. Max({0, st.gross - Abs(old) * p}) = st.gross - Abs(old) * p
    BY <1>9, <1>10, <2>1, MaxIs
  <2>3. new.unreal = Value(new.pos, mk) - Value(new.pos, new.avg)
    BY <1>5, <1>9, <1>10, <1>12, <2>1
  <2>4. new.gross = Turnover(new.pos, mk) /\ new.net = Value(new.pos, mk)
    BY <1>5, <1>9, <1>10, <1>11, <2>1, <2>2
  <2>5. QED
    BY <2>3, <2>4 DEF Carried
<1>14. ASSUME NEW x \in Symbol, new.pos[x] # 0
       PROVE  new.avg[x] > 0 /\ (Reckoned(st, mk) => mk[x] > 0)
  <2>1. CASE x = s
    <3>1. new.pos[x] = lots /\ new.avg[x] = na
      BY <1>1, <1>4, <2>1 DEF Prices
    <3>2. QED
      BY <1>2, <1>14, <2>1, <3>1
  <2>2. CASE x # s
    <3>1. new.pos[x] = pos[x] /\ new.avg[x] = avg[x]
      BY <1>1, <1>4, <2>2 DEF Prices
    <3>2. QED
      BY <1>7, <1>14, <3>1 DEF Entered, Quoted, pos, avg
  <2>3. QED
    BY <2>1, <2>2
<1>15. Entered(new) /\ (Reckoned(st, mk) => Quoted(new, mk))
  BY <1>14 DEF Entered, Quoted
<1>16. Sheet(new) /\ (Reckoned(st, mk) => Reckoned(new, mk))
  <2>1. new.realized \in Int
    BY <1>2, <1>6, <1>7
  <2>2. new.dirty \in BOOLEAN
    BY <1>4
  <2>3. QED
    BY <1>3, <1>9, <1>13, <1>15, <2>1, <2>2 DEF Sheet, Reckoned
<1>17. Worth(new) = Worth(st) - n * p
  <2>1. Worth(new) = (st.realized + gain) - (Value(pos, avg) - old * a + lots * na)
    BY <1>6, <1>9 DEF Worth
  <2>2. Worth(st) = st.realized - Value(pos, avg)
    BY DEF Worth, pos, avg
  <2>3. QED
    BY <1>2, <1>7, <1>10, <2>1, <2>2
<1>18. QED
  BY <1>4, <1>16, <1>17 DEF new, n

LEMMA FilledHolding ==
  ASSUME NEW st, NEW st2, StateOK(st), StateOK(st2), Holding(st2, st), NEW s, NEW side, NEW p, NEW q
  PROVE  /\ Filled(st2, s, side, p, q).pos = Filled(st, s, side, p, q).pos
         /\ Filled(st2, s, side, p, q).avg = Filled(st, s, side, p, q).avg
BY DEF StateOK, Fields, Holding, Filled

(* on_trade_fill, for one of the parties, with the check of his limits.    *)
LEMMA BookedSheet ==
  ASSUME IsFiniteSet(Symbol), NEW st, NEW mk \in Prices, Sheet(st),
         NEW s \in Symbol, NEW side \in {"BUY", "SELL"}, NEW p \in Nat, p > 0, mk[s] = p, NEW q \in Nat, q > 0,
         WholeAverage(st.pos[s], st.pos[s] + Signed(side, q), st.avg[s], p)
  PROVE  LET new == Booked(st, mk, s, side, p, q)
         IN  /\ Sheet(new) /\ ~new.dirty /\ Worth(new) = Worth(st) - Signed(side, q) * p
             /\ new.pos = Filled(st, s, side, p, q).pos /\ new.avg = Filled(st, s, side, p, q).avg
             /\ Reckoned(st, mk) /\ Surely(new, st, mk) => Reckoned(new, mk)
<1> DEFINE synced == Synced(st, mk)
           filled == Filled(synced, s, side, p, q)
           peaked == Peaked(filled)
           c == peaked.killed \/ DrawnDown(peaked) \/ -filled.realized >= MaxDailyLoss
<1>1. /\ Sheet(synced) /\ ~synced.dirty /\ Holding(synced, st)
      /\ Reckoned(st, mk) /\ Surely(synced, st, mk) => Reckoned(synced, mk)
  BY SyncedSheet
<1>2. Worth(synced) = Worth(st)
  BY <1>1, HoldingWorth
<1> HIDE DEF synced
<1>3. filled.pos = Filled(st, s, side, p, q).pos /\ filled.avg = Filled(st, s, side, p, q).avg
  BY <1>1, FilledHolding DEF Sheet
<1>4. /\ Sheet(filled) /\ ~filled.dirty /\ Worth(filled) = Worth(synced) - Signed(side, q) * p
      /\ Reckoned(synced, mk) => Reckoned(filled, mk)
  BY <1>1, FilledSheet DEF Holding
<1> HIDE DEF filled
<1>5. Alike(peaked, filled)
  BY <1>4, PeakedAlike DEF Sheet
<1> HIDE DEF peaked
<1> DEFINE new == [peaked EXCEPT !.killed = c]
<1> HIDE DEF c
<1>6. Alike(new, peaked)
  BY <1>5, PeakedAlike DEF Alike
<1>7. Booked(st, mk, s, side, p, q) = new
  BY DEF Booked, Judged, synced, filled, peaked, c
<1> HIDE DEF new
<1>8. Alike(new, filled)
  BY <1>5, <1>6 DEF Alike, Holding
<1>9. Sheet(new) /\ (Reckoned(filled, mk) => Reckoned(new, mk))
  BY <1>4, <1>8, AlikeSheet
<1>10. ~new.dirty /\ Holding(new, filled) /\ (Surely(new, st, mk) => Surely(synced, st, mk))
  BY <1>1, <1>4, <1>8 DEF Alike, Surely
<1>11. Worth(new) = Worth(filled)
  BY <1>10, HoldingWorth
<1>12. QED
  BY <1>1, <1>2, <1>3, <1>4, <1>7, <1>9, <1>10, <1>11 DEF Holding

-----------------------------------------------------------------------------
(* The accounts of the venue.                                              *)
WholeFill(st, t, side) ==
  WholeAverage(st.pos[t.symbol], st.pos[t.symbol] + Signed(side, t.quantity), st.avg[t.symbol], t.price)

(* The entry prices that booking the next trade calculates are integers,   *)
(* the maker's before the taker's.                                         *)
WholeAverages ==
  pc = "booking" /\ trades # <<>> =>
    LET t == Head(trades)
        made == Filled(risk[t.maker], t.symbol, Opposite(t.side), t.price, t.quantity)
    IN  /\ t.maker \in Owner => WholeFill(risk[t.maker], t, Opposite(t.side))
        /\ t.taker \in Owner => WholeFill(IF t.taker = t.maker THEN made ELSE risk[t.taker], t, t.side)

Accounts ==
  /\ mark \in Prices
  /\ \A o \in Owner : Sheet(risk[o]) /\ (o \notin guessed => Reckoned(risk[o], mark))
  /\ paid \in Int
  /\ \A r \in book : r.price > 0 /\ Left(r) > 0
  /\ pc = "matching" => taker.price >= 0
  /\ \A i \in 1 .. Len(trades) : trades[i].price > 0 /\ trades[i].quantity > 0

Held(rk) == SumFunctionOnSet([o \in Owner |-> Worth(rk[o])], Owner)

MoneyBalanced == Held(risk) = paid

LEMMA WorthInt ==
  ASSUME NEW st, Sheet(st)
  PROVE  Worth(st) \in Int
<1>1. Value(st.pos, st.avg) \in Int /\ st.realized \in Int
  BY ValueInt, AccountingAssumption DEF Sheet, StateOK
<1>2. QED
  BY <1>1 DEF Worth

(* Whoever is not guessed had all positions quoted when they were valued.  *)
LEMMA NotGuessed ==
  ASSUME Guessing, mark' \in Prices, NEW w \in Owner, w \notin guessed'
  PROVE  w \notin guessed /\ Surely(risk'[w], risk[w], mark')
<1>1. w \notin guessed
  BY DEF Guessing
<1>2. ASSUME risk[w].dirty, ~risk'[w].dirty, NEW s \in Symbol, risk[w].pos[s] # 0
      PROVE  mark'[s] > 0
  <2>1. mark'[s] # NoPrice /\ mark'[s] \in Nat
    BY <1>2 DEF Guessing, Prices
  <2>2. QED
    BY <2>1 DEF NoPrice
<1>3. QED
  BY <1>1, <1>2 DEF Surely, Quoted

LEMMA HeldSame ==
  ASSUME NEW rk, NEW rk2, \A o \in Owner : Worth(rk2[o]) = Worth(rk[o])
  PROVE  Held(rk2) = Held(rk)
<1>1. [o \in Owner |-> Worth(rk2[o])] = [o \in Owner |-> Worth(rk[o])]
  OBVIOUS
<1>2. QED
  BY <1>1 DEF Held

LEMMA HeldChange ==
  ASSUME NEW rk, NEW rk2, \A o \in Owner : Worth(rk[o]) \in Int /\ Worth(rk2[o]) \in Int,
         NEW w \in Owner, \A o \in Owner \ {w} : rk2[o] = rk[o], NEW d \in Int, Worth(rk2[w]) = Worth(rk[w]) - d
  PROVE  Held(rk2) = Held(rk) - d /\ Held(rk) \in Int
<1> DEFINE f == [o \in Owner |-> Worth(rk[o])]
           e == [o \in Owner |-> Worth(rk2[o])]
<1>1. Ints(f, Owner) /\ Ints(e, Owner)
  BY DEF Ints
<1>2. \A o \in Owner : o # w => f[o] = e[o]
  OBVIOUS
<1>3. e[w] = f[w] - d /\ f[w] \in Int
  BY <1>1 DEF Ints
<1>4. Held(rk) = SumFunctionOnSet(f, Owner) /\ Held(rk2) = SumFunctionOnSet(e, Owner)
  BY DEF Held
<1> HIDE DEF f, e
<1>5. SumFunctionOnSet(e, Owner) = SumFunctionOnSet(f, Owner) - f[w] + e[w]
  BY <1>1, <1>2, SumChange, AccountingAssumption
<1>6. SumFunctionOnSet(f, Owner) \in Int
  BY <1>1, SumInt, AccountingAssumption
<1>7. QED
  BY <1>3, <1>4, <1>5, <1>6

LEMMA AccountsInit == Init => Accounts /\ MoneyBalanced
<1> SUFFICES ASSUME Init PROVE Accounts /\ MoneyBalanced
  OBVIOUS
<1>1. PICK x \in Endowments : StartWith(x.positions, x.entries, x.price)
  BY DEF Init
<1>2. /\ x.price \in Nat
      /\ \A o \in Owner : x.positions[o] \in [Symbol -> Int] /\ x.entries[o] \in Prices
      /\ \A o \in Owner, s \in Symbol : x.positions[o][s] # 0 => x.entries[o][s] > 0
  BY VenueAssumption, AccountingAssumption DEF Holdings, Prices
<1> DEFINE cost(o) == SumFunctionOnSet([s \in Symbol |-> x.positions[o][s] * x.entries[o][s]], Symbol)
<1>3. /\ mark = [s \in Symbol |-> x.price] /\ mark \in Prices
      /\ book = {} /\ trades = << >> /\ pc = "idle"
      /\ paid = SumFunctionOnSet([o \in Owner |-> -cost(o)], Owner)
      /\ \A o \in Owner : risk[o] = Written(Fresh, x.positions[o], x.entries[o])
  BY <1>1, <1>2 DEF StartWith, Prices, SumFunction
<1>4. ASSUME NEW o \in Owner
      PROVE  /\ Sheet(risk[o]) /\ Reckoned(risk[o], mark)
             /\ Worth(risk[o]) = -cost(o) /\ cost(o) \in Int /\ -cost(o) \in Int
  <2> DEFINE st == Written(Fresh, x.positions[o], x.entries[o])
             e == [s \in Symbol |-> st.pos[s] * st.avg[s]]
             f == [s \in Symbol |-> st.pos[s] * mark[s]]
             h == [s \in Symbol |-> Abs(st.pos[s]) * mark[s]]
  <2>1. /\ StateOK(st) /\ st.pos = x.positions[o] /\ st.avg = x.entries[o] /\ st.realized = 0
        /\ st.gross = 0 /\ st.net = 0 /\ st.unreal = 0
        /\ st.dirty = (\E s \in Symbol : x.positions[o][s] # 0)
    BY <1>2 DEF StateOK, Fields, Fresh, Written
  <2>2. st.avg \in Prices /\ Entered(st)
    BY <1>2, <2>1 DEF Entered
  <2> HIDE DEF st
  <2>3. Value(st.pos, st.avg) = cost(o) /\ cost(o) \in Int
    BY <1>2, <2>1, ValueInt, AccountingAssumption DEF Value
  <2>4. ASSUME ~st.dirty PROVE Quoted(st, mark) /\ Carried(st, mark)
    <3> DEFINE z == [s \in Symbol |-> 0]
    <3>1. \A s \in Symbol : st.pos[s] = 0 /\ st.avg[s] \in Nat /\ mark[s] \in Nat
      BY <1>3, <2>1, <2>2, <2>4 DEF Prices
    <3>2. \A s \in Symbol : f[s] = 0 /\ h[s] = 0 /\ e[s] = 0
      BY <3>1 DEF Abs
    <3>3. SumFunctionOnSet(z, Symbol) = 0
      <4>1. \A s \in Symbol : z[s] = z[s] - z[s]
        OBVIOUS
      <4>2. Ints(z, Symbol)
        BY DEF Ints
      <4> HIDE DEF z
      <4>3. SumFunctionOnSet(z, Symbol) = SumFunctionOnSet(z, Symbol) - SumFunctionOnSet(z, Symbol)
        BY <4>1, <4>2, SumMinus, AccountingAssumption
      <4>4. SumFunctionOnSet(z, Symbol) \in Int
        BY <4>2, SumInt, AccountingAssumption
      <4>5. QED
        BY <4>3, <4>4
    <3>4. f = z /\ h = z /\ e = z
      BY <3>2
    <3>5. /\ Value(st.pos, mark) = SumFunctionOnSet(f, Symbol) /\ Turnover(st.pos, mark) = SumFunctionOnSet(h, Symbol)
          /\ Value(st.pos, st.avg) = SumFunctionOnSet(e, Symbol)
      BY DEF Value, Turnover
    <3> HIDE DEF f, h, e, z
    <3>6. Value(st.pos, mark) = 0 /\ Turnover(st.pos, mark) = 0 /\ Value(st.pos, st.avg) = 0
      BY <3>3, <3>4, <3>5
    <3>7. QED
      BY <2>1, <3>1, <3>6 DEF Carried, Quoted
  <2>5. st.dirty \in BOOLEAN
    BY <2>1
  <2>6. Sheet(st) /\ Reckoned(st, mark)
    BY <2>1, <2>2, <2>4, <2>5 DEF Sheet, Reckoned
  <2>7. Worth(st) = -cost(o) /\ -cost(o) \in Int
    <3> HIDE DEF cost
    <3>1. QED
      BY <2>1, <2>3 DEF Worth
  <2>8. risk[o] = st
    BY <1>3 DEF st
  <2>9. QED
    BY <2>3, <2>6, <2>7, <2>8
<1> HIDE DEF cost
<1>5. MoneyBalanced
  <2>1. [o \in Owner |-> Worth(risk[o])] = [o \in Owner |-> -cost(o)]
    BY <1>4
  <2>2. QED
    BY <1>3, <2>1 DEF MoneyBalanced, Held
<1>6. paid \in Int
  <2> DEFINE worths == [o \in Owner |-> -cost(o)]
  <2>1. \A o \in Owner : -cost(o) \in Int
    BY <1>4
  <2>2. Ints(worths, Owner)
    BY <2>1 DEF Ints
  <2> HIDE DEF worths
  <2>3. SumFunctionOnSet(worths, Owner) \in Int
    BY <2>2, SumInt, AccountingAssumption
  <2>4. QED
    BY <1>3, <2>3 DEF worths
<1>7. Accounts
  <2>1. \A o \in Owner : Sheet(risk[o]) /\ Reckoned(risk[o], mark)
    BY <1>4
  <2>2. 1 .. Len(trades) = {}
    BY <1>3, EmptySeq
  <2>3. mark \in Prices /\ book = {} /\ pc # "matching"
    BY <1>3
  <2>4. QED
    BY <1>6, <2>1, <2>2, <2>3 DEF Accounts
<1>8. QED
  BY <1>5, <1>7

(* The steps of the venue keep the accounts.                               *)
AccountsKept == Accounts' /\ (MoneyBalanced => MoneyBalanced')

LEMMA AccountsQuiet ==
  ASSUME Accounts, UNCHANGED <<risk, mark, trades, paid, guessed>>,
         \A r \in book' : r.price > 0 /\ Left(r) > 0,
         pc' = "matching" => taker'.price >= 0
  PROVE  AccountsKept
BY DEF Accounts, MoneyBalanced, AccountsKept

LEMMA AccountsPlace ==
  ASSUME KillInv, Accounts, NEW o \in Order, o.price >= 0, Place(o)
  PROVE  AccountsKept
<1> DEFINE known == o.owner \in Owner
           v == IF known THEN ValidateOrder(o, risk[o.owner], mark)
                         ELSE [verdict |-> "OK", quantity |-> o.quantity]
           admitted == v.verdict = "OK" /\ BreakerAdmits(breaker[o.symbol], o)
<1>1. /\ risk' = IF known THEN [risk EXCEPT ![o.owner] = v.state] ELSE risk
      /\ book' = IF v.verdict = "MAX_DRAWDOWN" THEN book \ Owned(o.owner) ELSE book
      /\ UNCHANGED <<mark, trades, paid>> /\ Guessing
      /\ admitted => taker' = [o EXCEPT !.quantity = v.quantity, !.since = calls]
      /\ ~admitted => Return
  BY DEF Place
<1>2. known => /\ Sheet(v.state) /\ Holding(v.state, risk[o.owner])
               /\ Reckoned(risk[o.owner], mark) /\ Surely(v.state, risk[o.owner], mark) => Reckoned(v.state, mark)
  BY ValidateSheet, AccountingAssumption DEF Accounts
<1> HIDE DEF v
<1>3. DOMAIN risk = Owner
  BY DEF KillInv, VenueTyped, RiskOK
<1>4. ASSUME NEW w \in Owner
      PROVE  /\ Sheet(risk'[w]) /\ (w \notin guessed' => Reckoned(risk'[w], mark))
             /\ Worth(risk'[w]) = Worth(risk[w])
  <2>1. w \notin guessed' => w \notin guessed /\ Surely(risk'[w], risk[w], mark)
    BY <1>1, NotGuessed DEF Accounts
  <2>2. CASE w = o.owner
    <3>1. risk'[w] = v.state
      BY <1>1, <1>3, <2>2
    <3>2. QED
      BY <1>2, <2>1, <2>2, <3>1, HoldingWorth DEF Accounts
  <2>3. CASE w # o.owner
    <3>1. risk'[w] = risk[w]
      BY <1>1, <2>3
    <3>2. QED
      BY <2>1, <3>1 DEF Accounts
  <2>4. QED
    BY <2>2, <2>3
<1>5. Held(risk') = Held(risk)
  BY <1>4, HeldSame
<1>6. pc' = "matching" => taker'.price >= 0
  BY <1>1 DEF Return, Order
<1>7. \A r \in book' : r.price > 0 /\ Left(r) > 0
  BY <1>1 DEF Accounts
<1>8. Accounts'
  <2>1. mark' = mark /\ paid' = paid /\ trades' = trades
    BY <1>1
  <2>2. \A w \in Owner : Sheet(risk'[w]) /\ (w \notin guessed' => Reckoned(risk'[w], mark'))
    BY <1>4, <2>1
  <2>3. \A i \in 1 .. Len(trades') : trades'[i].price > 0 /\ trades'[i].quantity > 0
    BY <2>1 DEF Accounts
  <2>4. mark' \in Prices /\ paid' \in Int
    BY <2>1 DEF Accounts
  <2>5. (\A r \in book : r.price > 0 /\ Left(r) > 0)'
    BY <1>7 DEF Left
  <2>6. QED
    BY <1>6, <2>2, <2>3, <2>4, <2>5 DEF Accounts
<1>9. QED
  BY <1>1, <1>5, <1>8 DEF MoneyBalanced, AccountsKept

LEMMA AccountsMatch ==
  ASSUME KillInv, Accounts, Match
  PROVE  AccountsKept
<1>1. PICK r \in Opposing(taker) :
        LET q == Min({Left(taker), Left(r)})
            rested == [r EXCEPT !.filled = @ + q]
        IN  /\ book' = (book \ {r}) \cup (IF Left(rested) > 0 THEN {rested} ELSE {})
            /\ taker' = [taker EXCEPT !.filled = @ + q]
            /\ trades' = Append(trades, TradeOf(r, taker, q))
  BY DEF Match
<1> DEFINE q == Min({Left(taker), Left(r)})
           t == TradeOf(r, taker, q)
           rested == [r EXCEPT !.filled = @ + q]
<1>2. pc = "matching" /\ Left(taker) > 0 /\ UNCHANGED <<risk, mark, paid, guessed, pc>>
  BY DEF Match
<1>3. taker \in Order /\ r \in book /\ r \in Order
  BY <1>2 DEF KillInv, VenueTyped, Apart, Opposing
<1>4. Left(taker) \in Int /\ Left(r) \in Int /\ Left(r) > 0 /\ r.price > 0 /\ taker.price >= 0
  BY <1>2, <1>3 DEF Order, Left, Accounts
<1>5. q \in Int /\ q > 0
  BY <1>2, <1>4, MinIs
<1>6. t \in Trade /\ t.price > 0 /\ t.quantity > 0
  BY <1>3, <1>4, <1>5 DEF Trade, TradeOf, Order
<1>7. \A i \in 1 .. Len(trades') : trades'[i].price > 0 /\ trades'[i].quantity > 0
  <2>1. trades' = Append(trades, t) /\ trades \in Seq(Trade)
    BY <1>1 DEF KillInv, VenueTyped
  <2> HIDE DEF t
  <2>2. Len(trades') = Len(trades) + 1 /\ trades'[Len(trades) + 1] = t
        /\ \A i \in 1 .. Len(trades) : trades'[i] = trades[i]
    BY <1>6, <2>1
  <2>3. \A i \in 1 .. Len(trades') : i \in 1 .. Len(trades) \/ i = Len(trades) + 1
    BY <2>1, <2>2, LenProperties
  <2>4. QED
    BY <1>6, <2>2, <2>3 DEF Accounts
<1>8. taker'.price >= 0
  <2>1. taker' = [taker EXCEPT !.filled = @ + q]
    BY <1>1
  <2>2. taker'.price = taker.price
    BY <1>3, <2>1 DEF Order
  <2>3. QED
    BY <1>4, <2>2
<1>9. rested.price = r.price
  BY <1>3 DEF Order
<1>10. book' = (book \ {r}) \cup (IF Left(rested) > 0 THEN {rested} ELSE {})
  BY <1>1
<1> HIDE DEF q, t, rested
<1>11. \A x \in book' : x.price > 0 /\ Left(x) > 0
  BY <1>4, <1>9, <1>10 DEF Accounts
<1>12. (\A x \in book : x.price > 0 /\ Left(x) > 0)'
  BY <1>11 DEF Left
<1>13. Accounts'
  <2>1. (\A w \in Owner : Sheet(risk[w]) /\ (w \notin guessed => Reckoned(risk[w], mark)))' /\ mark' \in Prices /\ paid' \in Int
    BY <1>2 DEF Accounts
  <2>2. QED
    BY <1>7, <1>8, <1>12, <2>1 DEF Accounts
<1>14. QED
  BY <1>2, <1>13 DEF MoneyBalanced, AccountsKept

LEMMA AccountsMatchDone ==
  ASSUME KillInv, Accounts, MatchDone
  PROVE  AccountsKept
<1>1. /\ pc = "matching" /\ pc' # "matching"
      /\ book' = book \cup (IF Left(taker) > 0 /\ taker.price # NoPrice THEN {taker} ELSE {})
      /\ trades' = << >> \/ trades' = trades
      /\ UNCHANGED <<risk, mark, paid, guessed>>
  BY DEF MatchDone, Return
<1>2. taker \in Order /\ taker.price >= 0
  BY <1>1 DEF KillInv, Apart, Accounts
<1>3. taker.price # NoPrice => taker.price > 0
  BY <1>2 DEF NoPrice, Order
<1>4. (\A r \in book : r.price > 0 /\ Left(r) > 0)'
  BY <1>1, <1>3 DEF Accounts, Left
<1>5. \A i \in 1 .. Len(trades') : trades'[i].price > 0 /\ trades'[i].quantity > 0
  <2>1. CASE trades' = << >>
    <3>1. 1 .. Len(trades') = {}
      BY <2>1, EmptySeq
    <3>2. QED
      BY <3>1
  <2>2. CASE trades' = trades
    BY <2>2 DEF Accounts
  <2>3. QED
    BY <1>1, <2>1, <2>2
<1>6. (\A w \in Owner : Sheet(risk[w]) /\ (w \notin guessed => Reckoned(risk[w], mark)))' /\ mark' \in Prices /\ paid' \in Int
  BY <1>1 DEF Accounts
<1>7. QED
  BY <1>1, <1>4, <1>5, <1>6 DEF Accounts, MoneyBalanced, AccountsKept

LEMMA AccountsModify ==
  ASSUME KillInv, Accounts, NEW r \in book, NEW am \in Amendments, ModifyOrder(r, am)
  PROVE  AccountsKept
<1> DEFINE new == Amended(r, am)
           less == [r EXCEPT !.quantity = am.quantity]
<1>1. /\ UNCHANGED <<risk, mark, trades, paid, guessed>> /\ pc = "idle"
      /\ \/ book' = book \ {r} /\ pc' = pc
         \/ book' = (book \ {r}) \cup {less} /\ pc' = pc /\ am.quantity > r.filled
         \/ book' = book \ {r} /\ taker' = new
  BY DEF ModifyOrder, Idle
<1>2. r \in Order /\ am.quantity \in Int /\ am.price \in Int /\ am.price >= 0 /\ r.price > 0
  BY VenueAssumption, AccountingAssumption DEF KillInv, VenueTyped, Accounts
<1>3. less.price = r.price /\ Left(less) = am.quantity - r.filled
  BY <1>2 DEF Order, Left
<1>4. new.price >= 0
  BY <1>2 DEF Order, Amended
<1>5. r.filled \in Int
  BY <1>2 DEF Order
<1> HIDE DEF less, new
<1>6. am.quantity > r.filled => Left(less) > 0 /\ less.price > 0
  BY <1>2, <1>3, <1>5
<1>7. \A x \in book' : x.price > 0 /\ Left(x) > 0
  BY <1>1, <1>6 DEF Accounts
<1>8. pc' = "matching" => taker'.price >= 0
  BY <1>1, <1>4
<1>9. QED
  BY <1>1, <1>7, <1>8, AccountsQuiet

LEMMA AccountsBook ==
  ASSUME KillInv, Accounts, WholeAverages, Book
  PROVE  AccountsKept
<1> DEFINE t == Head(trades)
           s == t.symbol
           p == t.price
           q == t.quantity
           n == Signed(t.side, q)
           marked == [o \in Owner |-> Marked(risk[o], s, Delta(mark, s, p))]
           mark2 == [mark EXCEPT ![s] = p]
           Party(rk, o, side) ==
             IF o \in Owner THEN [rk EXCEPT ![o] = Booked(@, mark2, s, side, p, q)] ELSE rk
           first == Party(marked, t.maker, Opposite(t.side))
           second == Party(first, t.taker, t.side)
<1>1. /\ pc = "booking" /\ pc' = pc /\ trades # << >> /\ trades' = Tail(trades)
      /\ mark' = mark2 /\ risk' = second
      /\ book' = CancelKilled(Killed(risk'), t)
      /\ paid' = paid + p * ((IF t.taker \in Owner THEN 0 ELSE n) - (IF t.maker \in Owner THEN 0 ELSE n))
      /\ Guessing
  BY DEF Book
<1>2. /\ t \in Trade /\ p > 0 /\ q > 0
      /\ trades \in Seq(Trade) /\ Len(trades) \in Nat /\ 1 \in 1 .. Len(trades)
  <2>1. t = trades[1] /\ trades \in Seq(Trade) /\ Len(trades) \in Nat /\ 1 \in 1 .. Len(trades)
    BY <1>1, EmptySeq, LenProperties DEF KillInv, VenueTyped
  <2>2. t \in Trade
    BY <2>1
  <2>3. p > 0 /\ q > 0
    BY Zenon, <2>1 DEF Accounts
  <2>4. QED
    BY <2>1, <2>2, <2>3
<1>3. /\ p \in Nat /\ q \in Nat /\ s \in Symbol /\ t.side \in {"BUY", "SELL"}
      /\ Opposite(t.side) \in {"BUY", "SELL"} /\ n \in Int /\ Signed(Opposite(t.side), q) = -n
  BY <1>2 DEF Trade, Signed, Opposite
<1>4. /\ t.maker \in Owner => WholeFill(risk[t.maker], t, Opposite(t.side))
      /\ t.taker \in Owner =>
           WholeFill(IF t.taker = t.maker THEN Filled(risk[t.maker], s, Opposite(t.side), p, q)
                     ELSE risk[t.taker], t, t.side)
  BY <1>1 DEF WholeAverages
<1> HIDE DEF t
<1>5. mark2 \in Prices /\ mark2[s] = p
  BY <1>3 DEF Accounts, Prices
<1>6. ASSUME NEW o \in Owner
      PROVE  /\ Sheet(marked[o]) /\ marked[o].dirty = risk[o].dirty
             /\ o \notin guessed => Reckoned(marked[o], mark2)
             /\ Holding(marked[o], risk[o]) /\ Worth(marked[o]) = Worth(risk[o])
  <2>1. Sheet(risk[o]) /\ (o \notin guessed => Reckoned(risk[o], mark)) /\ mark \in Prices
    BY DEF Accounts
  <2>2. marked[o] = Marked(risk[o], s, Delta(mark, s, p))
    OBVIOUS
  <2> DEFINE new == Marked(risk[o], s, Delta(mark, s, p))
  <2> HIDE DEF marked, s, p
  <2>3. /\ Sheet(new) /\ Holding(new, risk[o]) /\ new.dirty = risk[o].dirty
        /\ Reckoned(risk[o], mark) => Reckoned(new, mark2)
    <3>1. IsFiniteSet(Symbol) /\ Sheet(risk[o]) /\ mark \in Prices /\ s \in Symbol /\ p \in Nat /\ p > 0
      BY <1>2, <1>3, <2>1, AccountingAssumption
    <3>2. QED
      BY <3>1, MarkedSheet
  <2> HIDE DEF new
  <2>4. marked[o] = new
    BY <2>2 DEF new
  <2>5. QED
    BY <2>1, <2>3, <2>4, HoldingWorth
<1>7. DOMAIN marked = Owner
  OBVIOUS
<1> HIDE DEF marked, mark2, s, p, q, n
(* What the booking for a party makes of somebody's record.                *)
<1> DEFINE Kin(new, old) == /\ Sheet(new)
                            /\ Reckoned(old, mark2) /\ Surely(new, old, mark2) => Reckoned(new, mark2)
<1>8. ASSUME NEW rk, DOMAIN rk = Owner, \A w \in Owner : Sheet(rk[w]),
             NEW o, NEW side \in {"BUY", "SELL"}, o \in Owner => WholeFill(rk[o], t, side)
      PROVE  /\ DOMAIN Party(rk, o, side) = Owner
             /\ \A w \in Owner : Kin(Party(rk, o, side)[w], rk[w])
             /\ o \in Owner => ~Party(rk, o, side)[o].dirty
             /\ \A w \in Owner \ {o} : Party(rk, o, side)[w] = rk[w]
             /\ o \in Owner => /\ Party(rk, o, side)[o].pos = Filled(rk[o], s, side, p, q).pos
                               /\ Party(rk, o, side)[o].avg = Filled(rk[o], s, side, p, q).avg
                               /\ Held(Party(rk, o, side)) = Held(rk) - Signed(side, q) * p /\ Held(rk) \in Int
  <2>1. CASE o \notin Owner
    BY <1>8, <2>1
  <2>2. CASE o \in Owner
    <3> DEFINE new == Booked(rk[o], mark2, s, side, p, q)
               rk2 == Party(rk, o, side)
    <3>1. WholeAverage(rk[o].pos[s], rk[o].pos[s] + Signed(side, q), rk[o].avg[s], p)
      BY <1>8, <2>2 DEF WholeFill, s, p, q
    <3>2. /\ Kin(new, rk[o]) /\ ~new.dirty /\ Worth(new) = Worth(rk[o]) - Signed(side, q) * p
          /\ new.pos = Filled(rk[o], s, side, p, q).pos /\ new.avg = Filled(rk[o], s, side, p, q).avg
      <4>1. /\ IsFiniteSet(Symbol) /\ Sheet(rk[o]) /\ mark2 \in Prices /\ s \in Symbol /\ mark2[s] = p
            /\ p \in Nat /\ p > 0 /\ q \in Nat /\ q > 0 /\ side \in {"BUY", "SELL"}
        BY <1>2, <1>3, <1>5, <1>8, <2>2, AccountingAssumption DEF p, q
      <4>2. QED
        BY <3>1, <4>1, BookedSheet
    <3>3. rk2 = [rk EXCEPT ![o] = new]
      BY <2>2
    <3> HIDE DEF new, rk2
    <3>4. DOMAIN rk2 = Owner /\ rk2[o] = new /\ \A w \in Owner \ {o} : rk2[w] = rk[w]
      BY <1>8, <2>2, <3>3
    <3>5. \A w \in Owner : Kin(rk2[w], rk[w]) /\ Worth(rk[w]) \in Int /\ Worth(rk2[w]) \in Int
      BY <1>8, <3>2, <3>4, WorthInt
    <3>6. Signed(side, q) * p \in Int
      BY <1>3, SignedInt, Products
    <3>7. Worth(rk2[o]) = Worth(rk[o]) - Signed(side, q) * p
      BY <3>2, <3>4
    <3> DEFINE d == Signed(side, q) * p
    <3> HIDE DEF d
    <3>8. Held(rk2) = Held(rk) - d /\ Held(rk) \in Int
      BY <2>2, <3>4, <3>5, <3>6, <3>7, HeldChange DEF d
    <3>9. QED
      BY <2>2, <3>2, <3>4, <3>5, <3>8 DEF rk2, d
  <2>3. QED
    BY <2>1, <2>2
<1> HIDE DEF Party, Kin
<1>9. t.maker \in Owner => WholeFill(marked[t.maker], t, Opposite(t.side))
  BY <1>4, <1>6 DEF WholeFill, Holding
<1>10. /\ DOMAIN first = Owner
       /\ \A w \in Owner : Kin(first[w], marked[w]) /\ Sheet(first[w])
       /\ t.maker \in Owner => ~first[t.maker].dirty
       /\ \A w \in Owner \ {t.maker} : first[w] = marked[w]
       /\ t.maker \in Owner => /\ first[t.maker].pos = Filled(marked[t.maker], s, Opposite(t.side), p, q).pos
                               /\ first[t.maker].avg = Filled(marked[t.maker], s, Opposite(t.side), p, q).avg
                               /\ Held(first) = Held(marked) - (-n) * p /\ Held(marked) \in Int
  <2>1. \A w \in Owner : Sheet(marked[w])
    BY <1>6
  <2>2. /\ DOMAIN first = Owner
        /\ \A w \in Owner : Kin(first[w], marked[w])
        /\ t.maker \in Owner => ~first[t.maker].dirty
    BY <1>3, <1>7, <1>8, <1>9, <2>1
  <2>3. \A w \in Owner : Sheet(first[w])
    BY <2>2 DEF Kin
  <2>4. QED
    BY <1>3, <1>7, <1>8, <1>9, <2>1, <2>2, <2>3
<1>11. t.taker \in Owner => WholeFill(first[t.taker], t, t.side)
  <2>1. CASE t.taker = t.maker /\ t.taker \in Owner
    <3> DEFINE made == Filled(risk[t.maker], s, Opposite(t.side), p, q)
               made2 == Filled(marked[t.maker], s, Opposite(t.side), p, q)
    <3>1. WholeFill(made, t, t.side)
      BY <1>4, <2>1
    <3>2. StateOK(marked[t.maker]) /\ StateOK(risk[t.maker]) /\ Holding(marked[t.maker], risk[t.maker])
      BY <1>6, <2>1 DEF Sheet, Accounts
    <3>3. made2.pos = made.pos /\ made2.avg = made.avg
      BY <3>2, FilledHolding
    <3>4. first[t.taker].pos = made2.pos /\ first[t.taker].avg = made2.avg
      BY <1>10, <2>1
    <3> HIDE DEF made, made2, first
    <3>5. QED
      BY <3>1, <3>3, <3>4 DEF WholeFill
  <2>2. CASE t.taker # t.maker /\ t.taker \in Owner
    <3>1. first[t.taker] = marked[t.taker] /\ Holding(marked[t.taker], risk[t.taker])
      BY <1>6, <1>10, <2>2
    <3>2. WholeFill(risk[t.taker], t, t.side)
      BY <1>4, <2>2
    <3> HIDE DEF first
    <3>3. QED
      BY <3>1, <3>2 DEF WholeFill, Holding
  <2>3. QED
    BY <2>1, <2>2
<1> HIDE DEF first
<1>12. /\ \A w \in Owner : Kin(second[w], first[w])
       /\ t.taker \in Owner => ~second[t.taker].dirty
       /\ \A w \in Owner \ {t.taker} : second[w] = first[w]
       /\ t.taker \in Owner => Held(second) = Held(first) - n * p /\ Held(first) \in Int
  BY <1>3, <1>8, <1>10, <1>11 DEF n
<1>13. (t.maker \notin Owner => first = marked) /\ (t.taker \notin Owner => second = first)
  BY DEF first, Party
<1>14. Held(marked) = Held(risk)
  BY <1>6, HeldSame
<1>15. MoneyBalanced => MoneyBalanced'
  <2>1. n * p \in Int /\ (-n) * p = -(n * p) /\ p * n = n * p /\ p * (n - 0) = n * p /\ p * (0 - n) = -(n * p)
        /\ p * (n - n) = 0 /\ p * (0 - 0) = 0
    BY <1>3
  <2> HIDE DEF second
  <2>2. ASSUME Held(risk) = paid PROVE Held(second) = paid'
    <3>1. paid \in Int
      BY DEF Accounts
    <3>2. CASE t.maker \in Owner /\ t.taker \in Owner
      BY <1>1, <1>10, <1>12, <1>14, <2>1, <2>2, <3>1, <3>2
    <3>3. CASE t.maker \in Owner /\ t.taker \notin Owner
      BY <1>1, <1>10, <1>13, <1>14, <2>1, <2>2, <3>1, <3>3
    <3>4. CASE t.maker \notin Owner /\ t.taker \in Owner
      BY <1>1, <1>12, <1>13, <1>14, <2>1, <2>2, <3>1, <3>4
    <3>5. CASE t.maker \notin Owner /\ t.taker \notin Owner
      BY <1>1, <1>13, <1>14, <2>1, <2>2, <3>1, <3>5
    <3>6. QED
      BY <3>2, <3>3, <3>4, <3>5
  <2>3. QED
    BY <1>1, <2>2 DEF MoneyBalanced
<1>16. Accounts'
  <2>1. mark' = mark2 /\ mark' \in Prices /\ risk' = second
    BY <1>1, <1>5
  <2>2. ASSUME NEW w \in Owner
        PROVE  Sheet(risk'[w]) /\ (w \notin guessed' => Reckoned(risk'[w], mark'))
    <3> HIDE DEF second
    <3>1. Sheet(second[w])
      BY <1>12 DEF Kin
    <3>2. ASSUME w \notin guessed'
          PROVE  Reckoned(second[w], mark2)
      <4>1. w \notin guessed /\ Surely(second[w], risk[w], mark2)
        BY <1>1, <2>1, <3>2, NotGuessed
      <4>2. Surely(second[w], marked[w], mark2)
        BY <1>6, <4>1 DEF Surely, Quoted, Holding
      <4>3. w # t.taker => second[w] = first[w]
        BY <1>12
      <4>4. w # t.maker => first[w] = marked[w]
        BY <1>10
      <4>5. (w = t.maker => ~first[w].dirty) /\ (w = t.taker => ~second[w].dirty)
        BY <1>10, <1>12
      <4> HIDE DEF first
      <4>6. Surely(first[w], marked[w], mark2) /\ Surely(second[w], first[w], mark2)
        BY <4>2, <4>3, <4>4, <4>5 DEF Surely
      <4>7. Reckoned(marked[w], mark2)
        BY <1>6, <4>1
      <4>8. QED
        BY <1>10, <1>12, <4>6, <4>7 DEF Kin
    <3>3. QED
      BY <2>1, <3>1, <3>2
  <2>3. paid' \in Int
    <3>1. p * ((IF t.taker \in Owner THEN 0 ELSE n) - (IF t.maker \in Owner THEN 0 ELSE n)) \in Int
      BY <1>3
    <3>2. QED
      BY <1>1, <3>1 DEF Accounts
  <2>4. \A r \in book' : r.price > 0 /\ Left(r) > 0
    BY <1>1 DEF Accounts, CancelKilled
  <2>5. (\A r \in book : r.price > 0 /\ Left(r) > 0)'
    BY <2>4 DEF Left
  <2>6. \A i \in 1 .. Len(trades') : trades'[i].price > 0 /\ trades'[i].quantity > 0
    <3>1. Len(trades') = Len(trades) - 1 /\ \A i \in 1 .. Len(trades') : trades'[i] = trades[i + 1]
      BY <1>1, <1>2, HeadTailProperties
    <3>2. \A i \in 1 .. Len(trades') : i + 1 \in 1 .. Len(trades)
      BY <1>2, <3>1
    <3>3. QED
      BY <3>1, <3>2 DEF Accounts
  <2>7. pc' # "matching"
    BY <1>1
  <2>8. QED
    BY <2>1, <2>2, <2>3, <2>5, <2>6, <2>7 DEF Accounts
<1>17. QED
  BY <1>15, <1>16 DEF AccountsKept

LEMMA AccountsStep ==
  ASSUME KillInv, Accounts, WholeAverages, [Next]_vars
  PROVE  AccountsKept
<1>1. (\A r \in book : r.price > 0 /\ Left(r) > 0) /\ (pc = "matching" => taker.price >= 0)
  BY DEF Accounts
<1>2. ASSUME book' \subseteq book, UNCHANGED <<risk, mark, trades, paid, guessed, taker>>, pc' # "matching" \/ pc' = pc
      PROVE  AccountsKept
  BY <1>1, <1>2, AccountsQuiet
<1>3. ASSUME NEW tk \in Tickets, Submit(tk)
      PROVE  AccountsKept
  BY <1>3, AccountsPlace, VenueAssumption DEF Submit, Valid
<1>4. CASE Match
  BY <1>4, AccountsMatch
<1>5. CASE MatchDone
  BY <1>5, AccountsMatchDone
<1>6. CASE Book
  BY <1>6, AccountsBook
<1>7. CASE BookDone
  BY <1>2, <1>7 DEF BookDone, Return
<1>8. ASSUME NEW r \in book, CancelOrder(r)
      PROVE  AccountsKept
  BY <1>2, <1>8 DEF CancelOrder
<1>9. ASSUME NEW r \in book, NEW am \in Amendments, ModifyOrder(r, am)
      PROVE  AccountsKept
  BY <1>9, AccountsModify
<1>10. ASSUME NEW o \in Owner, CancelAllForParticipant(o)
       PROVE  AccountsKept
  BY <1>2, <1>10 DEF CancelAllForParticipant
<1>11. ASSUME NEW o \in Owner, UpdatePosition(o)
       PROVE  AccountsKept
  BY <1>2, <1>11 DEF UpdatePosition
<1>12. ASSUME NEW o \in Owner, Liquidate(o)
       PROVE  AccountsKept
  BY <1>2, <1>12 DEF Liquidate
<1>13. ASSUME NEW s \in Symbol, Halt(s)
       PROVE  AccountsKept
  BY <1>2, <1>13 DEF Halt
<1>14. ASSUME NEW s \in Symbol, LiquidatePosition(s)
       PROVE  AccountsKept
  <2>1. victim \in Owner /\ spanned[victim][s] \in Int
    BY <1>14 DEF LiquidatePosition, KillInv, VenueTyped, Apart, Holdings
  <2>2. LiquidationOrder(victim, s) \in Order /\ LiquidationOrder(victim, s).price >= 0
    BY <2>1, AbsInt DEF LiquidationOrder, Order, Participant, NoPrice
  <2>3. QED
    BY <1>14, <2>2, AccountsPlace DEF LiquidatePosition
<1>15. ASSUME NEW o \in Owner, NEW c \in Cash, SetCashBalance(o, c)
       PROVE  AccountsKept
  BY <1>2, <1>15 DEF SetCashBalance
<1>16. CASE TimePasses
  BY <1>2, <1>16 DEF TimePasses
<1>17. CASE LiquidationDone
  BY <1>2, <1>17 DEF LiquidationDone
<1>18. CASE (\E tk \in Tickets : Refuse(tk)) \/ UNCHANGED vars
  BY <1>2, <1>18 DEF Refuse, vars
<1>19. QED
  BY <1>3, <1>4, <1>5, <1>6, <1>7, <1>8, <1>9, <1>10, <1>11, <1>12, <1>13,
     <1>14, <1>15, <1>16, <1>17, <1>18 DEF Next

(* Every price change and every fill leaves the accounts in order          *)
(* (update_market_price, on_trade_fill, validate_order), the counters of   *)
(* those excepted who were valued before there was a market price.         *)
THEOREM AccountsHold == Spec /\ []WholeAverages => [](Accounts /\ MoneyBalanced)
<1>1. KillInv /\ WholeAverages /\ (Accounts /\ MoneyBalanced) /\ [Next]_vars => (Accounts /\ MoneyBalanced)'
  BY AccountsStep DEF AccountsKept
<1>2. QED
  BY <1>1, AccountsInit, KillInvHolds, PTL DEF Spec

(* The exposures that the risk engine carries along are what summing over  *)
(* the positions gives (update_market_price, on_trade_fill), for everybody *)
(* whose positions were not valued before there was a market price, when   *)
(* _sync_exposures counts them at a price that no later update takes back; *)
(* provided that entry prices come out whole, as Exactly says nothing of   *)
(* others.                                                                 *)
THEOREM ExposuresAlwaysAgree == Spec /\ []WholeAverages => []ExposuresAgree
<1>1. Accounts => ExposuresAgree
  <2> SUFFICES ASSUME Accounts, NEW o \in Owner, o \notin guessed, ~risk[o].dirty
               PROVE  /\ risk[o].gross = GrossOf(risk[o], mark)
                      /\ risk[o].net = NetOf(risk[o], mark)
                      /\ risk[o].unreal = UnrealOf(risk[o], mark)
    BY DEF ExposuresAgree
  <2>1. Sheet(risk[o]) /\ Reckoned(risk[o], mark) /\ mark \in Prices
    BY DEF Accounts
  <2>2. Quoted(risk[o], mark) /\ Carried(risk[o], mark)
    BY <2>1 DEF Reckoned
  <2>3. QED
    BY <2>1, <2>2, ExposuresAre, AccountingAssumption DEF Sheet, Carried
<1>2. QED
  BY <1>1, AccountsHold, PTL

(* No fill makes or destroys money, whether it makes a position grow,      *)
(* shrink or change sign (on_trade_fill); again for whole entry prices.    *)
THEOREM MoneyStays == Spec /\ []WholeAverages => []MoneyConserved
<1>1. Accounts /\ MoneyBalanced => MoneyConserved
  <2> SUFFICES ASSUME Accounts, MoneyBalanced PROVE MoneyConserved
    OBVIOUS
  <2> DEFINE each == [o \in Owner |-> risk[o].realized + UnrealOf(risk[o], mark) - NetOf(risk[o], mark)]
             worths == [o \in Owner |-> Worth(risk[o])]
  <2>1. \A o \in Owner : each[o] = worths[o]
    <3> TAKE o \in Owner
    <3>1. Sheet(risk[o]) /\ mark \in Prices
      BY DEF Accounts
    <3>2. /\ UnrealOf(risk[o], mark) = NetOf(risk[o], mark) - Value(risk[o].pos, risk[o].avg)
          /\ NetOf(risk[o], mark) \in Int
      BY <3>1, OpenProfit, AccountingAssumption DEF Sheet
    <3>3. Value(risk[o].pos, risk[o].avg) \in Int /\ risk[o].realized \in Int
      BY <3>1, ValueInt, AccountingAssumption DEF Sheet, StateOK
    <3>4. QED
      BY <3>2, <3>3 DEF Worth
  <2>2. each = worths
    BY <2>1
  <2>3. SumFunctionOnSet(worths, Owner) = paid
    BY DEF MoneyBalanced, Held
  <2>4. SumFunctionOnSet(each, Owner) = paid
    BY <2>2, <2>3
  <2>5. QED
    BY <2>4 DEF MoneyConserved, SumFunction
<1>2. QED
  BY <1>1, AccountsHold, PTL

=============================================================================
