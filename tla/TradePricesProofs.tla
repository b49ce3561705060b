------------------------- MODULE TradePricesProofs -------------------------
(***************************************************************************)
(* Theorems about TradePrices, for any book, any price limits, any tick    *)
(* and any of the rules' thresholds.                                       *)
(*                                                                         *)
(* The lemmas about Quantize hold of every price; the invariants say what  *)
(* the loop's order, quote and position are at each step, and what an exit *)
(* reason that has been found says about the position.                     *)
(***************************************************************************)
EXTENDS TradePrices, TLAPS

\* What the loop has in hand at each step.
Shape ==
  /\ pc \in {"flat", "exit", "submit", "quote", "limits", "place", "done"} => order = None
  /\ pc \in {"head", "order", "cancel", "flat", "exit", "submit", "done"} => quote = None
  /\ pc = "flat" => position = None
  /\ result # None => pc = "done"
  /\ order # None =>
       /\ order.size # 0 /\ order.done <= order.size
       /\ order.state = "filled" => order.done # 0
       /\ order.purpose = "exit" => position # None
  /\ quote # None =>
       /\ quote.size # 0
       /\ quote.purpose = "exit" => position # None

\* The price of the book is taken as it is, the limits are applied to it.
Band ==
  /\ pc = "quote" => quote.limit = None
  /\ pc = "limits" => /\ quote.touch % Quantum = 0 /\ quote.price = quote.touch
                      /\ quote.limit = None
  /\ PricedWithinBand

\* What the position has gained at a price.
Gain(price) == CalcGrossPnl(price)

\* An exit reason is about the position that is held, at the price that gave it.
Verdict ==
  /\ lifecycle.trigger # None =>
       /\ position # None \/ pc = "done"
       /\ order # None => order.purpose = "exit"
       /\ quote # None => quote.purpose = "exit"
  /\ position # None =>
       /\ lifecycle.trigger = "tp" =>
            Gain(lifecycle.at) >= TickSize * TakeProfit * position.size
       /\ lifecycle.trigger = "sl" =>
            Gain(lifecycle.at) <= -(TickSize * StopLoss * position.size)
  /\ VerdictPays

PricesInv == PricesTypeOK /\ Shape /\ Band /\ Verdict

---------------------------------------------------------------------------
(* Arithmetic.                                                             *)

LEMMA DivMod ==
  ASSUME NEW p \in Nat, NEW q \in Nat \ {0}
  PROVE  /\ p \div q \in Nat /\ p % q \in Nat /\ p % q < q
         /\ p = q * (p \div q) + (p % q)
OBVIOUS

LEMMA ModOfMultiple ==
  ASSUME NEW q \in Nat \ {0}, NEW d \in Nat
  PROVE  (q * d) % q = 0
OBVIOUS

LEMMA ProductNat ==
  ASSUME NEW m \in Nat, NEW n \in Nat
  PROVE  m * n \in Nat
OBVIOUS

LEMMA ProductMonotone ==
  ASSUME NEW m \in Int, NEW n \in Int, NEW k \in Nat, m <= n
  PROVE  m * k <= n * k
OBVIOUS

\* A multiple of the tick is one of the power of ten of its last digit.
LEMMA MultipleOfMultiple ==
  ASSUME NEW p \in Nat, NEW t \in Nat \ {0}, NEW q \in Nat \ {0}, p % t = 0, t % q = 0
  PROVE  p % q = 0
<1> DEFINE m == p \div t
           k == t \div q
<1>1. m \in Nat /\ p = t * m
  BY DivMod
<1>2. k \in Nat /\ t = q * k
  BY DivMod
<1> HIDE DEF m, k
<1>3. p = q * (k * m) /\ k * m \in Nat
  BY <1>1, <1>2, ProductNat
<1> QED BY <1>3, ModOfMultiple

\* Rounding stays within half a unit and never passes a multiple of the unit.
LEMMA QuantizeRounds ==
  ASSUME NEW p \in Nat
  PROVE  /\ Quantize(p) \in Nat
         /\ 2 * (Quantize(p) - p) <= Quantum /\ 2 * (p - Quantize(p)) <= Quantum
         /\ \A m \in Nat : m % Quantum = 0 =>
              /\ p <= m => Quantize(p) <= m
              /\ m <= p => m <= Quantize(p)
<1> DEFINE d == p \div Quantum
           r == p % Quantum
           up == (d + 1) * Quantum
           down == d * Quantum
<1>1. Quantum \in Nat \ {0}
  BY GridAssumption
<1>2. d \in Nat /\ r \in Nat /\ r < Quantum /\ p = Quantum * d + r
  BY <1>1, DivMod
<1>3. Quantize(p) = IF 2 * r > Quantum \/ (2 * r = Quantum /\ d % 2 = 1) THEN up ELSE down
  BY DEF Quantize
<1> HIDE DEF d, r
<1>4. up \in Nat /\ down \in Nat /\ up = down + Quantum /\ p = down + r
  BY <1>1, <1>2
<1>5. ASSUME NEW m \in Nat, m % Quantum = 0
      PROVE  /\ p <= m => down <= m /\ (r # 0 => up <= m)
             /\ m <= p => m <= down
  <2> DEFINE k == m \div Quantum
  <2>1. k \in Nat /\ m = Quantum * k
    BY <1>1, <1>5, DivMod
  <2> HIDE DEF k
  <2>2. down = Quantum * d /\ up = Quantum * (d + 1)
    BY <1>1, <1>2
  <2>3. ASSUME k <= d PROVE m <= down
    BY <1>1, <1>2, <2>1, <2>2, <2>3
  <2>4. ASSUME d + 1 <= k PROVE up <= m
    BY <1>1, <1>2, <2>1, <2>2, <2>4
  <2>5. k <= d \/ d + 1 <= k
    BY <1>2, <2>1
  <2> HIDE DEF up, down
  <2> QED BY <1>1, <1>2, <1>4, <2>1, <2>3, <2>4, <2>5
<1> HIDE DEF up, down
<1>6. CASE 2 * r > Quantum \/ (2 * r = Quantum /\ d % 2 = 1)
  <2>1. Quantize(p) = up /\ r # 0 /\ 2 * r >= Quantum
    BY <1>1, <1>2, <1>3, <1>6
  <2> QED BY <1>1, <1>2, <1>4, <1>5, <2>1
<1>7. CASE ~(2 * r > Quantum \/ (2 * r = Quantum /\ d % 2 = 1))
  <2>1. Quantize(p) = down /\ 2 * r <= Quantum
    BY <1>1, <1>2, <1>3, <1>7
  <2> QED BY <1>1, <1>2, <1>4, <1>5, <2>1
<1> QED BY <1>6, <1>7

\* A price of the book is on the grid and is not rounded.
LEMMA LevelOnGrid ==
  ASSUME NEW p \in Levels
  PROVE  p \in Nat \ {0} /\ p % Quantum = 0 /\ Quantize(p) = p
<1>1. /\ p \in Nat \ {0} /\ p % TickSize = 0 /\ TickSize % Quantum = 0
      /\ TickSize \in Nat \ {0} /\ Quantum \in Nat \ {0}
  BY GridAssumption
<1>2. p % Quantum = 0
  BY <1>1, MultipleOfMultiple
<1>3. Quantize(p) \in Nat /\ Quantize(p) <= p /\ p <= Quantize(p)
  BY <1>1, <1>2, QuantizeRounds
<1> QED BY <1>1, <1>2, <1>3

---------------------------------------------------------------------------
(* Steps that change nothing but what the loop does next.                  *)

LEMMA Members ==
  ASSUME PricesTypeOK
  PROVE  /\ bid \in Nat \ {0} /\ ask \in Nat \ {0} /\ last \in Nat
         /\ order # None => order \in Order
         /\ quote # None => quote \in Quote
         /\ position # None => position \in Position
         /\ result # None => result \in Result
         /\ held \in Int /\ cash \in Int /\ feesPaid \in Int
BY GridAssumption DEF PricesTypeOK

LEMMA RatesNat ==
  /\ TickSize \in Nat \ {0} /\ Quantum \in Nat \ {0} /\ OrderSize \in Nat \ {0}
  /\ TakeProfit \in Nat /\ StopLoss \in Nat /\ StaleTicks \in Nat
  /\ MakerRate \in Nat /\ TakerRate \in Nat /\ MaxMoves \in Nat /\ MaxOrders \in Nat
BY GridAssumption, RulesAssumption

\* What is not about pc is unchanged; pc moves within the steps that share it.
LEMMA PcInv ==
  ASSUME PricesInv, pc # "done",
         UNCHANGED <<market, last, order, quote, position, lifecycle, result, account,
                     ragged, bounds>>,
         pc' \in {"head", "cancel", "submit"},
         pc' = "cancel" => order # None,
         pc' = "submit" => position # None /\ order = None, quote = None
  PROVE  PricesInv'
<1> USE DEF PricesInv
<1>1. UNCHANGED <<bid, ask, last, order, quote, position, lifecycle, result, held, cash,
                  feesPaid, ragged, moves, placed>>
  BY DEF market, account, bounds
<1>2. PricesTypeOK'
  BY <1>1 DEF PricesTypeOK
<1>3. Shape'
  BY <1>1 DEF Shape
<1>4. Band'
  BY <1>1 DEF Band, PricedWithinBand
<1>5. Verdict'
  BY <1>1 DEF Verdict, VerdictPays, Gain, CalcGrossPnl, Advance
<1> QED BY <1>2, <1>3, <1>4, <1>5

LEMMA ControlInv ==
  ASSUME PricesInv, Keep \/ RepriceDue \/ Hold
  PROVE  PricesInv'
<1>1. CASE Keep \/ RepriceDue
  BY <1>1, PcInv DEF Keep, RepriceDue, Resting, PricesInv, Shape
<1>2. CASE Hold
  BY <1>2, PcInv DEF Hold, PricesInv, Shape
<1> QED BY <1>1, <1>2

LEMMA MoveInv ==
  ASSUME PricesInv, Move
  PROVE  PricesInv'
<1> USE DEF PricesInv
<1>1. /\ UNCHANGED <<pc, last, order, quote, position, lifecycle, result, held, cash,
                     feesPaid, ragged, placed>>
      /\ bid' \in Levels /\ ask' \in Levels /\ bid' < ask'
      /\ moves < MaxMoves /\ moves' = moves + 1
  BY DEF Move, account
<1>2. PricesTypeOK'
  BY <1>1, RatesNat DEF PricesTypeOK
<1>3. Shape'
  BY <1>1 DEF Shape
<1>4. Band'
  BY <1>1 DEF Band, PricedWithinBand
<1>5. Verdict'
  BY <1>1 DEF Verdict, VerdictPays, Gain, CalcGrossPnl, Advance
<1> QED BY <1>2, <1>3, <1>4, <1>5

\* A fill changes the order and the account only.
LEMMA FillInv ==
  ASSUME PricesInv, Fill
  PROVE  PricesInv'
<1> USE DEF PricesInv
<1>1. /\ UNCHANGED <<pc, bid, ask, last, quote, position, lifecycle, result, ragged,
                     moves, placed>>
      /\ order # None
  BY DEF Fill, Resting, market, bounds
<1>2. order \in Order /\ held \in Int /\ cash \in Int /\ feesPaid \in Int
  BY <1>1, Members
<1>3. PICK n \in 1..(order.size - order.done) :
        /\ Book(order.side, n, order.price, MakerRate)
        /\ order' = [order EXCEPT !.done = @ + n,
             !.state = IF order.done + n = order.size THEN "filled"
                       ELSE IF order.purpose = "exit" /\ held' = 0 THEN "canceled"
                       ELSE "live"]
  BY DEF Fill
<1>4. /\ order.size \in Nat /\ order.done \in Nat /\ order.price \in Nat
      /\ n \in Nat /\ n # 0 /\ order.done + n <= order.size
  BY <1>2, <1>3 DEF Order
<1>5. /\ order' \in Order /\ order' # None
      /\ order'.purpose = order.purpose /\ order'.size = order.size
      /\ order'.done = order.done + n
  <2> DEFINE st == IF order.done + n = order.size THEN "filled"
                   ELSE IF order.purpose = "exit" /\ held' = 0 THEN "canceled"
                   ELSE "live"
  <2>1. st \in {"live", "filled", "canceled"} /\ order.done + n \in Nat
    BY <1>4
  <2>2. order' = [[order EXCEPT !.done = order.done + n] EXCEPT !.state = st]
    BY <1>3
  <2> HIDE DEF st
  <2>3. order' = [purpose |-> order.purpose, side |-> order.side, type |-> order.type,
                  price |-> order.price, size |-> order.size, done |-> order.done + n,
                  state |-> st]
    BY <1>2, <2>2 DEF Order
  <2>4. order' \in Order
    BY <1>2, <2>1, <2>3 DEF Order
  <2> QED BY <2>3, <2>4, NoneAssumption
<1>6. held' \in Int /\ cash' \in Int /\ feesPaid' \in Int
  <2>1. Signed(order.side, n) \in Int
    BY <1>4 DEF Signed
  <2>2. Signed(order.side, n) * order.price \in Int
    BY <1>4, <2>1
  <2>3. MakerRate * n * order.price \in Int
    BY <1>4, RatesNat
  <2> QED BY <1>2, <1>3, <2>1, <2>2, <2>3 DEF Book
<1>7. PricesTypeOK'
  BY <1>1, <1>5, <1>6 DEF PricesTypeOK
<1>8. Shape'
  BY <1>1, <1>4, <1>5 DEF Shape
<1>9. Band'
  BY <1>1 DEF Band, PricedWithinBand
<1>10. Verdict'
  BY <1>1, <1>5 DEF Verdict, VerdictPays, Gain, CalcGrossPnl, Advance
<1> QED BY <1>7, <1>8, <1>9, <1>10

---------------------------------------------------------------------------
(* The head of an iteration and the end of an order.                       *)

\* What the verdict says survives a step that keeps the position and the tracker.
LEMMA VerdictKept ==
  ASSUME Verdict, UNCHANGED <<position, lifecycle, result>>,
         pc # "done",
         lifecycle.trigger # None =>
           /\ order' # None => order'.purpose = "exit"
           /\ quote' # None => quote'.purpose = "exit"
  PROVE  Verdict'
BY DEF Verdict, VerdictPays, Gain, CalcGrossPnl, Advance

\* Without a verdict nothing is claimed about the position.
LEMMA NoVerdict ==
  ASSUME Verdict, lifecycle'.trigger = None, UNCHANGED result
  PROVE  Verdict'
BY NoneAssumption DEF Verdict, VerdictPays

LEMMA HeadInv ==
  ASSUME PricesInv, Head
  PROVE  PricesInv'
<1> USE DEF PricesInv
<1>1. /\ UNCHANGED <<bid, ask, order, quote, lifecycle, result, held, cash, feesPaid,
                     ragged, moves, placed>>
      /\ pc = "head" /\ last' \in {bid, ask} /\ position' = Restored
      /\ pc' = IF order # None THEN "order" ELSE IF Restored # None THEN "exit" ELSE "flat"
  BY DEF Head, market, account, bounds
<1>2. /\ Restored \in Position \cup {None}
      /\ position # None => Restored = position
  <2>1. CASE position = None /\ held # 0
    <3>1. Abs(cash) \in Nat /\ Abs(held) \in Nat \ {0}
      BY <2>1, Members DEF Abs
    <3> QED BY <2>1, <3>1 DEF Restored, BuildActivePosition, Position
  <2>2. CASE ~(position = None /\ held # 0)
    BY <2>2 DEF Restored, PricesTypeOK
  <2> QED BY <2>1, <2>2
<1>3. PricesTypeOK'
  BY <1>1, <1>2 DEF PricesTypeOK
<1>4. Shape'
  BY <1>1, <1>2 DEF Shape
<1>5. Band'
  BY <1>1 DEF Band, PricedWithinBand
<1>6. Verdict'
  <2>1. CASE lifecycle.trigger = None
    BY <1>1, <2>1, NoVerdict
  <2>2. CASE lifecycle.trigger # None
    <3>1. position # None
      BY <1>1, <2>2 DEF Verdict
    <3> QED BY <1>1, <1>2, <3>1, VerdictKept DEF Verdict
  <2> QED BY <2>1, <2>2
<1> QED BY <1>3, <1>4, <1>5, <1>6

\* A live entry means that no exit reason has been found.
LEMMA EntryFilledInv ==
  ASSUME PricesInv, EntryFilled
  PROVE  PricesInv'
<1> USE DEF PricesInv
<1>1. /\ UNCHANGED <<bid, ask, last, quote, result, held, cash, feesPaid, ragged, moves,
                     placed>>
      /\ pc = "order" /\ order.state = "filled" /\ order.purpose = "entry"
      /\ order' = None /\ pc' = "exit" /\ order # None
  BY DEF EntryFilled, market, account, bounds, PricesTypeOK
<1>2. /\ order \in Order /\ order.price \in Nat /\ order.done \in Nat /\ order.done # 0
  BY <1>1, Members DEF Order, Shape
<1>3. position' \in Position
  <2>1. order.price * order.done \in Nat
    BY <1>2, ProductNat
  <2> QED BY <1>2, <2>1 DEF EntryFilled, BuildActivePosition, Position
<1>4. lifecycle' \in Lifecycle /\ lifecycle'.trigger = None
  <2>1. MakerRate * order.price * order.done \in Int
    BY <1>2, RatesNat
  <2>2. lifecycle \in Lifecycle /\ lifecycle.trigger = None
    BY <1>1, NoneAssumption DEF PricesTypeOK, Verdict
  <2> QED BY <2>1, <2>2 DEF EntryFilled, Lifecycle
<1>5. PricesTypeOK'
  BY <1>1, <1>3, <1>4, NoneAssumption DEF PricesTypeOK
<1>6. Shape'
  BY <1>1, <1>3, NoneAssumption DEF Shape
<1>7. Band'
  BY <1>1 DEF Band, PricedWithinBand
<1>8. Verdict'
  BY <1>1, <1>4, NoVerdict
<1> QED BY <1>5, <1>6, <1>7, <1>8

\* An order that is given up or replaced takes its tracker with it or not.
LEMMA GivenUpInv ==
  ASSUME PricesInv, OrderCanceled \/ WaitedTooLong
  PROVE  PricesInv'
<1> USE DEF PricesInv
<1>1. /\ UNCHANGED <<bid, ask, last, quote, position, result, held, cash, feesPaid, moves,
                     placed>>
      /\ pc = "order" /\ order # None /\ order' = None
      /\ pc' = IF position = None THEN "head" ELSE "exit"
      /\ lifecycle' \in {lifecycle, Begun}
      /\ ragged' = (ragged \/ order.done > 0)
  BY DEF OrderCanceled, WaitedTooLong, market, account, bounds, PricesTypeOK, Shape
<1>2. PricesTypeOK'
  <2>1. Begun \in Lifecycle
    BY DEF Begun, Lifecycle, Triggers
  <2>2. ragged' \in BOOLEAN
    BY <1>1
  <2> QED BY <1>1, <2>1, <2>2 DEF PricesTypeOK
<1>3. Shape'
  BY <1>1 DEF Shape
<1>4. Band'
  BY <1>1 DEF Band, PricedWithinBand
<1>5. Verdict'
  <2>1. CASE lifecycle' = lifecycle
    <3>1. quote' = None
      BY <1>1 DEF Shape
    <3> QED BY <1>1, <2>1, <3>1, VerdictKept
  <2>2. CASE lifecycle' = Begun
    BY <1>1, <2>2, NoVerdict DEF Begun
  <2> QED BY <1>1, <2>1, <2>2
<1> QED BY <1>2, <1>3, <1>4, <1>5

\* The same of a cancel that is followed by a replacement.
LEMMA CancelForRepriceInv ==
  ASSUME PricesInv, CancelForReprice
  PROVE  PricesInv'
<1> USE DEF PricesInv
<1>1. /\ UNCHANGED <<bid, ask, last, position, lifecycle, result, held, cash, feesPaid,
                     moves, placed>>
      /\ pc = "cancel" /\ order # None /\ order' = None /\ pc' = "quote"
      /\ ragged' = (ragged \/ order.done > 0)
      /\ quote' = [purpose |-> order.purpose, side |-> order.side, size |-> order.size,
                   price |-> 0, touch |-> 0, limit |-> None]
  BY DEF CancelForReprice, Wanted, market, account, bounds, PricesTypeOK
<1>2. order \in Order
  BY <1>1, Members
<1>3. /\ quote' \in Quote /\ quote' # None
      /\ quote'.purpose = order.purpose /\ quote'.size = order.size /\ quote'.limit = None
  BY <1>1, <1>2, NoneAssumption DEF Quote, Order
<1>4. PricesTypeOK'
  BY <1>1, <1>3 DEF PricesTypeOK
<1>5. Shape'
  BY <1>1, <1>3 DEF Shape
<1>6. Band'
  BY <1>1, <1>3 DEF Band, PricedWithinBand
<1>7. Verdict'
  BY <1>1, <1>3, VerdictKept DEF Verdict
<1> QED BY <1>4, <1>5, <1>6, <1>7

---------------------------------------------------------------------------
(* The verdict and the order that follows it.                              *)

LEMMA DecideInv ==
  ASSUME PricesInv, Decide
  PROVE  PricesInv'
<1> USE DEF PricesInv
<1>1. /\ UNCHANGED <<bid, ask, last, order, position, result, held, cash, feesPaid,
                     ragged, moves, placed>>
      /\ pc = "flat" /\ lifecycle' = Begun /\ pc' = "quote"
  BY DEF Decide, market, account, bounds
<1>2. PICK side \in Sides : quote' = [purpose |-> "entry", side |-> side, size |-> OrderSize,
                                     price |-> 0, touch |-> 0, limit |-> None]
  BY DEF Decide, Wanted
<1>3. /\ quote' \in Quote /\ quote' # None
      /\ quote'.purpose = "entry" /\ quote'.size # 0 /\ quote'.limit = None
  BY <1>2, RatesNat, NoneAssumption DEF Quote
<1>4. lifecycle' \in Lifecycle /\ lifecycle'.trigger = None
  BY <1>1 DEF Begun, Lifecycle, Triggers
<1>5. PricesTypeOK'
  BY <1>1, <1>3, <1>4 DEF PricesTypeOK
<1>6. Shape'
  BY <1>1, <1>3 DEF Shape
<1>7. Band'
  BY <1>1, <1>3 DEF Band, PricedWithinBand
<1>8. Verdict'
  BY <1>1, <1>4, NoVerdict
<1> QED BY <1>5, <1>6, <1>7, <1>8

\* The verdict is what the rule says of the position at the last price.
LEMMA TriggerInv ==
  ASSUME PricesInv, Trigger
  PROVE  PricesInv'
<1> USE DEF PricesInv
<1>1. /\ UNCHANGED <<bid, ask, last, order, quote, position, result, held, cash, feesPaid,
                     ragged, moves, placed>>
      /\ pc = "exit" /\ pc' = "submit"
      /\ order = None /\ quote = None /\ position # None /\ result = None
  BY DEF Trigger, market, account, bounds, PricesTypeOK, Shape
<1>2. PICK reason \in {"timeout", CheckExitReason} \ {None} :
        lifecycle' = [lifecycle EXCEPT !.trigger = reason, !.at = last]
  BY DEF Trigger
<1>3. CheckExitReason \in {"tp", "sl", None}
  BY DEF CheckExitReason
<1>4. lifecycle \in Lifecycle /\ last \in Nat
  BY Members DEF PricesTypeOK
<1>5. /\ lifecycle' = [entryFee |-> lifecycle.entryFee, trigger |-> reason, at |-> last]
      /\ reason \in Triggers
  BY <1>2, <1>3, <1>4 DEF Lifecycle, Triggers
<1>6. lifecycle' \in Lifecycle /\ lifecycle'.trigger = reason /\ lifecycle'.at = last
  BY <1>4, <1>5 DEF Lifecycle
<1>7. /\ reason = "tp" => CalcGrossPnl(last) >= TickSize * TakeProfit * position.size
      /\ reason = "sl" => CalcGrossPnl(last) <= -(TickSize * StopLoss * position.size)
  <2>1. position \in Position /\ position.cost \in Nat /\ position.size \in Nat
    BY <1>1, Members DEF Position
  <2>2. last * position.size \in Nat
    BY <1>4, <2>1, ProductNat
  <2>3. Advance(last) \in Int
    BY <2>1, <2>2 DEF Advance
  <2>4. TickSize * TakeProfit * position.size \in Nat
    BY <2>1, RatesNat, ProductNat
  <2>5. TickSize * StopLoss * position.size \in Nat
    BY <2>1, RatesNat, ProductNat
  <2>6. reason = "tp" => CheckExitReason = "tp"
    BY <1>2, <1>3
  <2>7. reason = "sl" => CheckExitReason = "sl"
    BY <1>2, <1>3
  <2>8. CalcGrossPnl(last) \in Int
    BY <2>3 DEF CalcGrossPnl
  <2>9. CheckExitReason = IF CalcGrossPnl(last) >= TakeProfitDelta THEN "tp"
                          ELSE IF CalcGrossPnl(last) <= -StopLossDelta THEN "sl" ELSE None
    BY DEF CheckExitReason, CalcGrossPnl
  <2> QED BY <2>4, <2>5, <2>6, <2>7, <2>8, <2>9, NoneAssumption DEF TakeProfitDelta, StopLossDelta
<1>8. PricesTypeOK'
  BY <1>1, <1>6 DEF PricesTypeOK
<1>9. Shape'
  BY <1>1 DEF Shape
<1>10. Band'
  BY <1>1 DEF Band, PricedWithinBand
<1>11. Verdict'
  <2>1. (Gain(lifecycle.at))' = CalcGrossPnl(last)
    BY <1>1, <1>6 DEF Gain, CalcGrossPnl, Advance
  <2> QED BY <1>1, <1>6, <1>7, <2>1 DEF Verdict, VerdictPays
<1> QED BY <1>8, <1>9, <1>10, <1>11

LEMMA MakerExitInv ==
  ASSUME PricesInv, MakerExit
  PROVE  PricesInv'
<1> USE DEF PricesInv
<1>1. /\ UNCHANGED <<bid, ask, last, order, position, lifecycle, result, held, cash, feesPaid,
                     ragged, moves, placed>>
      /\ pc = "submit" /\ pc' = "quote" /\ order = None
      /\ quote' = [purpose |-> "exit", side |-> ExitSide, size |-> position.size,
                   price |-> 0, touch |-> 0, limit |-> None]
  BY DEF MakerExit, Wanted, market, account, bounds, Shape
<1>2. position \in Position /\ position # None
  BY <1>1, Members DEF PricesTypeOK
<1>3. /\ quote' \in Quote /\ quote' # None
      /\ quote'.purpose = "exit" /\ quote'.size # 0 /\ quote'.limit = None
  BY <1>1, <1>2, NoneAssumption DEF Quote, Position, ExitSide, Sides
<1>4. PricesTypeOK'
  BY <1>1, <1>3 DEF PricesTypeOK
<1>5. Shape'
  BY <1>1, <1>2, <1>3 DEF Shape
<1>6. Band'
  BY <1>1, <1>3 DEF Band, PricedWithinBand
<1>7. Verdict'
  BY <1>1, <1>3, VerdictKept
<1> QED BY <1>4, <1>5, <1>6, <1>7

\* n lots at a price keep the account in whole units.
LEMMA BookTypes ==
  ASSUME PricesTypeOK, NEW side, NEW n \in Nat, NEW price \in Nat, NEW rate \in Nat,
         Book(side, n, price, rate)
  PROVE  held' \in Int /\ cash' \in Int /\ feesPaid' \in Int
<1>1. Signed(side, n) \in Int
  BY DEF Signed
<1>2. Signed(side, n) * price \in Int
  BY <1>1
<1>3. rate * n * price \in Int
  OBVIOUS
<1> QED BY <1>1, <1>2, <1>3, Members DEF Book

LEMMA MarketExitInv ==
  ASSUME PricesInv, MarketExit
  PROVE  PricesInv'
<1> USE DEF PricesInv
<1> DEFINE price == IF ExitSide = "buy" THEN ask ELSE bid
           n == Least(position.size, Abs(held))
<1>1. /\ UNCHANGED <<bid, ask, last, quote, position, lifecycle, result, ragged, moves>>
      /\ pc = "submit" /\ pc' = "head" /\ held # 0
      /\ placed < MaxOrders /\ placed' = placed + 1
      /\ Book(ExitSide, n, price, TakerRate)
      /\ order' = [purpose |-> "exit", side |-> ExitSide, type |-> "market",
                   price |-> price, size |-> n, done |-> n, state |-> "filled"]
  BY DEF MarketExit, market
<1>2. position \in Position /\ position # None
  BY <1>1, Members DEF PricesTypeOK
<1>3. n \in Nat \ {0} /\ price \in Nat
  <2>1. Abs(held) \in Nat \ {0}
    BY <1>1, Members DEF Abs
  <2>2. position.size \in Nat \ {0}
    BY <1>2 DEF Position
  <2> QED BY <2>1, <2>2, Members DEF Least
<1> HIDE DEF n, price
<1>4. /\ order' \in Order /\ order' # None /\ order'.purpose = "exit"
      /\ order'.size = n /\ order'.done = n
  BY <1>1, <1>3, NoneAssumption DEF Order, ExitSide, Sides
<1>5. held' \in Int /\ cash' \in Int /\ feesPaid' \in Int
  BY <1>1, <1>3, BookTypes, RatesNat
<1>6. PricesTypeOK'
  BY <1>1, <1>4, <1>5, RatesNat DEF PricesTypeOK
<1>7. Shape'
  BY <1>1, <1>2, <1>3, <1>4 DEF Shape
<1>8. Band'
  BY <1>1 DEF Band, PricedWithinBand
<1>9. Verdict'
  BY <1>1, <1>4, VerdictKept DEF Shape
<1> QED BY <1>6, <1>7, <1>8, <1>9

---------------------------------------------------------------------------
(* Placing a maker order.                                                  *)

\* The touch is a price of the book and is taken as it is.
LEMMA ReadTouchInv ==
  ASSUME PricesInv, ReadTouch
  PROVE  PricesInv'
<1> USE DEF PricesInv
<1> DEFINE touch == IF quote.side = "buy" THEN bid ELSE ask
<1>1. /\ UNCHANGED <<bid, ask, last, order, position, lifecycle, result, held, cash,
                     feesPaid, ragged, moves, placed>>
      /\ pc = "quote" /\ pc' = "limits" /\ quote # None /\ quote \in Quote
      /\ quote' = [quote EXCEPT !.price = MakerPriceForSide(quote.side), !.touch = touch]
  BY Members DEF ReadTouch, market, account, bounds, PricesTypeOK
<1>2. touch \in Levels
  BY DEF PricesTypeOK
<1>3. /\ MakerPriceForSide(quote.side) = touch
      /\ touch \in Nat /\ touch % Quantum = 0
  BY <1>2, LevelOnGrid DEF MakerPriceForSide
<1> HIDE DEF touch
<1>4. /\ quote' \in Quote /\ quote' # None
      /\ quote'.purpose = quote.purpose /\ quote'.size = quote.size
      /\ quote'.price = touch /\ quote'.touch = touch /\ quote'.limit = quote.limit
  <2>1. quote' = [purpose |-> quote.purpose, side |-> quote.side, size |-> quote.size,
                  price |-> touch, touch |-> touch, limit |-> quote.limit]
    BY <1>1, <1>3 DEF Quote
  <2>2. quote' \in Quote
    BY <1>1, <1>3, <2>1 DEF Quote
  <2> QED BY <2>1, <2>2, NoneAssumption
<1>5. PricesTypeOK'
  BY <1>1, <1>4 DEF PricesTypeOK
<1>6. Shape'
  BY <1>1, <1>4 DEF Shape
<1>7. Band'
  BY <1>1, <1>3, <1>4 DEF Band, PricedWithinBand
<1>8. Verdict'
  BY <1>1, <1>4, VerdictKept DEF Verdict, Shape
<1> QED BY <1>5, <1>6, <1>7, <1>8

\* The clamp takes the further of touch and limit, and the rounding cannot bring
\* it back over the touch, which is on the grid.
LEMMA ReadLimitsInv ==
  ASSUME PricesInv, ReadLimits
  PROVE  PricesInv'
<1> USE DEF PricesInv
<1>1. /\ UNCHANGED <<bid, ask, last, order, position, lifecycle, result, held, cash,
                     feesPaid, ragged, moves, placed>>
      /\ pc = "limits" /\ pc' = "place" /\ quote # None /\ quote \in Quote
  BY Members DEF ReadLimits, market, account, bounds, PricesTypeOK
<1>2. PICK limit \in Limits \cup {None} :
        quote' = [quote EXCEPT !.limit = limit,
                    !.price = IF limit = None THEN quote.price
                              ELSE ClampMakerPriceToLimits(quote.side, quote.price, limit)]
  BY DEF ReadLimits
<1> DEFINE price == IF limit = None THEN quote.price
                    ELSE ClampMakerPriceToLimits(quote.side, quote.price, limit)
<1>3. /\ quote.price = quote.touch /\ quote.touch % Quantum = 0 /\ quote.touch \in Nat
      /\ quote.side \in Sides
  BY <1>1 DEF Band, Quote
<1>4. limit \in Nat \cup {None} /\ Quantum \in Nat \ {0}
  BY GridAssumption
<1>5. /\ price \in Nat
      /\ quote.side = "buy" => price <= quote.touch
      /\ quote.side = "sell" => price >= quote.touch
      /\ limit # None =>
           /\ quote.side = "buy" => 2 * (price - limit) <= Quantum
           /\ quote.side = "sell" => 2 * (limit - price) <= Quantum
  <2>1. CASE limit = None
    BY <1>3, <2>1
  <2>2. CASE limit # None /\ quote.side = "buy"
    <3> DEFINE least == Least(quote.touch, limit)
    <3>1. least \in Nat /\ least <= quote.touch /\ least <= limit
      BY <1>3, <1>4, <2>2 DEF Least
    <3>2. price = Quantize(least)
      BY <1>3, <2>2 DEF ClampMakerPriceToLimits
    <3> HIDE DEF least, price
    <3>3. price \in Nat /\ 2 * (price - least) <= Quantum /\ price <= quote.touch
      BY <1>3, <3>1, <3>2, QuantizeRounds
    <3> QED BY <1>3, <1>4, <2>2, <3>1, <3>3
  <2>3. CASE limit # None /\ quote.side = "sell"
    <3> DEFINE greatest == Greatest(quote.touch, limit)
    <3>1. greatest \in Nat /\ quote.touch <= greatest /\ limit <= greatest
      BY <1>3, <1>4, <2>3 DEF Greatest
    <3>2. price = Quantize(greatest)
      BY <1>3, <2>3 DEF ClampMakerPriceToLimits
    <3> HIDE DEF greatest, price
    <3>3. price \in Nat /\ 2 * (greatest - price) <= Quantum /\ quote.touch <= price
      BY <1>3, <3>1, <3>2, QuantizeRounds
    <3> QED BY <1>3, <1>4, <2>3, <3>1, <3>3
  <2> QED BY <1>3, <2>1, <2>2, <2>3 DEF Sides
<1>6. /\ quote' \in Quote /\ quote' # None
      /\ quote'.purpose = quote.purpose /\ quote'.size = quote.size
      /\ quote'.side = quote.side /\ quote'.touch = quote.touch
      /\ quote'.price = price /\ quote'.limit = limit
  <2>1. quote' = [[quote EXCEPT !.limit = limit] EXCEPT !.price = price]
    BY <1>2
  <2> HIDE DEF price
  <2>2. quote' = [purpose |-> quote.purpose, side |-> quote.side, size |-> quote.size,
                  price |-> price, touch |-> quote.touch, limit |-> limit]
    BY <1>1, <2>1 DEF Quote
  <2> QED BY <1>1, <1>4, <1>5, <2>2, NoneAssumption DEF Quote
<1> HIDE DEF price
<1>7. PricesTypeOK'
  BY <1>1, <1>6 DEF PricesTypeOK
<1>8. Shape'
  BY <1>1, <1>6 DEF Shape
<1>9. Band'
  BY <1>1, <1>3, <1>5, <1>6 DEF Band, PricedWithinBand, Sides
<1>10. Verdict'
  BY <1>1, <1>6, VerdictKept DEF Verdict, Shape
<1> QED BY <1>7, <1>8, <1>9, <1>10

LEMMA PlaceInv ==
  ASSUME PricesInv, Place
  PROVE  PricesInv'
<1> USE DEF PricesInv
<1> DEFINE st == IF Crosses THEN "canceled" ELSE "live"
<1>1. /\ UNCHANGED <<bid, ask, last, position, lifecycle, result, held, cash, feesPaid,
                     ragged, moves>>
      /\ pc = "place" /\ pc' = "head" /\ quote # None /\ quote \in Quote /\ quote' = None
      /\ placed < MaxOrders /\ placed' = placed + 1
      /\ order' = [purpose |-> quote.purpose, side |-> quote.side, type |-> "post_only",
                   price |-> quote.price, size |-> quote.size, done |-> 0, state |-> st]
  BY Members DEF Place, market, account, PricesTypeOK
<1>2. st \in {"canceled", "live"}
  OBVIOUS
<1> HIDE DEF st
<1>3. /\ order' \in Order /\ order' # None
      /\ order'.purpose = quote.purpose /\ order'.size = quote.size /\ order'.done = 0
      /\ order'.state # "filled" /\ quote.size \in Nat
  BY <1>1, <1>2, NoneAssumption DEF Order, Quote
<1>4. PricesTypeOK'
  BY <1>1, <1>3, RatesNat DEF PricesTypeOK
<1>5. Shape'
  BY <1>1, <1>3 DEF Shape
<1>6. Band'
  BY <1>1 DEF Band, PricedWithinBand
<1>7. Verdict'
  BY <1>1, <1>3, VerdictKept DEF Verdict
<1> QED BY <1>4, <1>5, <1>6, <1>7

LEMMA LimitRejectInv ==
  ASSUME PricesInv, LimitReject
  PROVE  PricesInv'
<1> USE DEF PricesInv
<1>1. /\ UNCHANGED <<bid, ask, last, order, position, lifecycle, result, held, cash,
                     feesPaid, ragged, moves, placed>>
      /\ pc = "place" /\ pc' = "head" /\ quote' = None
  BY DEF LimitReject, market, account, bounds
<1>2. PricesTypeOK'
  BY <1>1 DEF PricesTypeOK
<1>3. Shape'
  BY <1>1 DEF Shape
<1>4. Band'
  BY <1>1 DEF Band, PricedWithinBand
<1>5. Verdict'
  BY <1>1, VerdictKept DEF Verdict
<1> QED BY <1>2, <1>3, <1>4, <1>5

---------------------------------------------------------------------------
(* The end of a trade.                                                     *)

\* The result of a verdict's exit: what the position gains at the price of the exit
\* is compared with what it gained at the price of the verdict.
LEMMA RecordVerdict ==
  ASSUME PricesInv, position # None, result = None,
         NEW price \in Nat, NEW exitFees \in Int, NEW rate \in Nat, NEW trigger \in Triggers,
         trigger \in {"tp", "sl"} => lifecycle.trigger = trigger,
         Record(price, exitFees, rate, trigger)
  PROVE  /\ result' \in Result /\ result' # None /\ VerdictPays'
         /\ position' = None /\ pc' = "done"
<1> USE DEF PricesInv
<1>1. position' = None /\ pc' = "done"
  BY DEF Record
<1>2. PICK entryFee \in {0, IF lifecycle.entryFee = None THEN feesPaid ELSE lifecycle.entryFee},
           exitFee \in {0, exitFees} :
        result' = [side |-> position.side, size |-> position.size, price |-> price,
                   gross |-> CalcGrossPnl(price),
                   fees |-> IF entryFee + exitFee = 0 THEN EstimateFees(price, rate)
                            ELSE entryFee + exitFee,
                   trigger |-> trigger, at |-> lifecycle.at]
  BY DEF Record
<1>3. /\ position \in Position /\ position.side \in {"long", "short"}
      /\ position.cost \in Nat /\ position.size \in Nat \ {0}
  BY Members DEF Position
<1>4. /\ lifecycle \in Lifecycle /\ lifecycle.at \in Nat
      /\ lifecycle.entryFee \in Int \cup {None} /\ feesPaid \in Int
  BY DEF PricesTypeOK, Lifecycle
<1>5. entryFee \in Int /\ exitFee \in Int
  BY <1>2, <1>4
<1>6. EstimateFees(price, rate) \in Int
  <2>1. MakerRate * position.cost \in Nat
    BY <1>3, RatesNat, ProductNat
  <2>2. rate * price * position.size \in Nat
    BY <1>3, ProductNat
  <2> QED BY <2>1, <2>2 DEF EstimateFees
<1>7. \A p \in Nat : Advance(p) \in Int /\ p * position.size \in Nat
  BY <1>3, ProductNat DEF Advance
<1>8. result' \in Result
  <2>1. CalcGrossPnl(price) \in Int
    BY <1>7 DEF CalcGrossPnl
  <2> DEFINE fees == IF entryFee + exitFee = 0 THEN EstimateFees(price, rate)
                     ELSE entryFee + exitFee
  <2>2. fees \in Int
    BY <1>5, <1>6
  <2> HIDE DEF fees
  <2>3. result' = [side |-> position.side, size |-> position.size, price |-> price,
                   gross |-> CalcGrossPnl(price), fees |-> fees,
                   trigger |-> trigger, at |-> lifecycle.at]
    BY <1>2 DEF fees
  <2> QED BY <1>3, <1>4, <2>1, <2>2, <2>3 DEF Result
<1>9. /\ result'.side = position.side /\ result'.size = position.size
      /\ result'.price = price /\ result'.gross = CalcGrossPnl(price)
      /\ result'.trigger = trigger /\ result'.at = lifecycle.at
  BY <1>2
<1>10. /\ lifecycle.at <= price => Advance(lifecycle.at) <= Advance(price)
       /\ price <= lifecycle.at => Advance(price) <= Advance(lifecycle.at)
  <2>1. lifecycle.at <= price => lifecycle.at * position.size <= price * position.size
    BY <1>3, <1>4, ProductMonotone
  <2>2. price <= lifecycle.at => price * position.size <= lifecycle.at * position.size
    BY <1>3, <1>4, ProductMonotone
  <2> QED BY <1>3, <1>4, <1>7, <2>1, <2>2 DEF Advance
<1>11. TickSize * TakeProfit * position.size \in Nat /\ TickSize * StopLoss * position.size \in Nat
  BY <1>3, RatesNat, ProductNat
<1> DEFINE ahead == IF position.side = "long" THEN price - lifecycle.at
                    ELSE lifecycle.at - price
<1>12. /\ ahead >= 0 => CalcGrossPnl(lifecycle.at) <= CalcGrossPnl(price)
       /\ ahead <= 0 => CalcGrossPnl(price) <= CalcGrossPnl(lifecycle.at)
  <2>1. Advance(price) \in Int /\ Advance(lifecycle.at) \in Int
    BY <1>4, <1>7
  <2>2. CASE position.side = "long"
    BY <1>4, <1>10, <2>1, <2>2 DEF CalcGrossPnl
  <2>3. CASE position.side # "long"
    BY <1>4, <1>10, <2>1, <2>3 DEF CalcGrossPnl
  <2> QED BY <2>2, <2>3
<1>13. CalcGrossPnl(price) \in Int /\ CalcGrossPnl(lifecycle.at) \in Int
  BY <1>4, <1>7 DEF CalcGrossPnl
<1>14. /\ trigger = "tp" /\ ahead >= 0 =>
             CalcGrossPnl(price) >= TickSize * TakeProfit * position.size
       /\ trigger = "sl" /\ ahead <= 0 =>
             CalcGrossPnl(price) <= -(TickSize * StopLoss * position.size)
  <2> DEFINE tp == TickSize * TakeProfit * position.size
             sl == TickSize * StopLoss * position.size
  <2>1. /\ trigger = "tp" => CalcGrossPnl(lifecycle.at) >= tp
        /\ trigger = "sl" => CalcGrossPnl(lifecycle.at) <= -sl
    BY DEF Verdict, Gain
  <2>2. tp \in Nat /\ sl \in Nat
    BY <1>11
  <2> HIDE DEF tp, sl, ahead
  <2>3. /\ trigger = "tp" /\ ahead >= 0 => CalcGrossPnl(price) >= tp
        /\ trigger = "sl" /\ ahead <= 0 => CalcGrossPnl(price) <= -sl
    BY <1>12, <1>13, <2>1, <2>2
  <2> QED BY <2>3 DEF tp, sl
<1>15. VerdictPays'
  <2>1. /\ result'.trigger = "tp" /\ ahead >= 0 =>
              result'.gross >= TickSize * TakeProfit * result'.size
        /\ result'.trigger = "sl" /\ ahead <= 0 =>
              result'.gross <= -(TickSize * StopLoss * result'.size)
    BY <1>9, <1>14
  <2>2. ahead = IF result'.side = "long" THEN result'.price - result'.at
                ELSE result'.at - result'.price
    BY <1>9
  <2>3. -TickSize * StopLoss * result'.size = -(TickSize * StopLoss * result'.size)
    BY <1>3, <1>9, RatesNat
  <2> HIDE DEF ahead
  <2> QED BY <2>1, <2>2, <2>3 DEF VerdictPays
<1> QED BY <1>1, <1>8, <1>15, NoneAssumption

\* When the result is there, nothing else is left.
LEMMA DoneInv ==
  ASSUME PricesInv,
         UNCHANGED <<bid, ask, last, lifecycle, held, cash, feesPaid, ragged, moves, placed>>,
         order' = None, quote' = None, position' = None, pc' = "done",
         result' \in Result, VerdictPays'
  PROVE  PricesInv'
<1> USE DEF PricesInv
<1>1. PricesTypeOK'
  BY DEF PricesTypeOK
<1>2. Shape'
  BY DEF Shape
<1>3. Band'
  BY DEF Band, PricedWithinBand
<1>4. Verdict'
  BY DEF Verdict
<1> QED BY <1>1, <1>2, <1>3, <1>4

LEMMA ExitFilledInv ==
  ASSUME PricesInv, ExitFilled
  PROVE  PricesInv'
<1> USE DEF PricesInv
<1> DEFINE rate == IF order.type = "market" THEN TakerRate ELSE MakerRate
<1>1. /\ UNCHANGED <<bid, ask, last, quote, lifecycle, held, cash, feesPaid, ragged, moves,
                     placed>>
      /\ pc = "order" /\ order.purpose = "exit" /\ order # None /\ order' = None
      /\ quote = None /\ result = None /\ position # None
  BY DEF ExitFilled, market, account, bounds, PricesTypeOK, Shape
<1>2. order.price \in Nat /\ order.done \in Nat /\ rate \in Nat
  BY <1>1, Members, RatesNat DEF Order
<1>3. Record(order.price, rate * order.price * order.done, rate, lifecycle.trigger)
  BY DEF ExitFilled
<1> HIDE DEF rate
<1>4. rate * order.price * order.done \in Int
  BY <1>2
<1>5. lifecycle.trigger \in Triggers
  BY DEF PricesTypeOK, Lifecycle
<1>6. result' \in Result /\ VerdictPays' /\ position' = None /\ pc' = "done"
  BY <1>1, <1>2, <1>3, <1>4, <1>5, RecordVerdict
<1> QED BY <1>1, <1>6, DoneInv

LEMMA SyncCloseInv ==
  ASSUME PricesInv, SyncClose, position # None, order = None, result = None
  PROVE  PricesInv'
<1> USE DEF PricesInv
<1> DEFINE trigger == IF lifecycle.trigger = None THEN "reconcile" ELSE lifecycle.trigger
<1>1. /\ UNCHANGED <<bid, ask, last, order, lifecycle, held, cash, feesPaid, ragged, moves,
                     placed>>
      /\ quote' = None /\ Record(last, feesPaid, MakerRate, trigger)
  BY DEF SyncClose, market, account, bounds
<1>2. /\ trigger \in Triggers
      /\ trigger \in {"tp", "sl"} => lifecycle.trigger = trigger
  BY DEF PricesTypeOK, Lifecycle, Triggers
<1> HIDE DEF trigger
<1>3. last \in Nat /\ feesPaid \in Int /\ MakerRate \in Nat
  BY Members, RatesNat
<1>4. result' \in Result /\ VerdictPays' /\ position' = None /\ pc' = "done"
  BY <1>1, <1>2, <1>3, RecordVerdict
<1> QED BY <1>1, <1>4, DoneInv

LEMMA NothingToReduceInv ==
  ASSUME PricesInv, MarketExitRefused \/ ReduceReject
  PROVE  PricesInv'
<1>1. position # None /\ order = None /\ result = None
  BY DEF PricesInv, PricesTypeOK, Shape, MarketExitRefused, ReduceReject
<1> QED BY <1>1, SyncCloseInv DEF MarketExitRefused, ReduceReject

---------------------------------------------------------------------------
(* The specification.                                                      *)

LEMMA PricesInit ==
  ASSUME Init
  PROVE  PricesInv
<1>1. PricesTypeOK
  <2>1. Begun \in Lifecycle
    BY DEF Begun, Lifecycle, Triggers
  <2>2. 0 \in 0..MaxMoves /\ 0 \in 0..MaxOrders
    BY RatesNat
  <2>3. lifecycle = Begun /\ moves = 0 /\ placed = 0
    BY DEF Init
  <2>4. /\ pc = "head" /\ bid \in Levels /\ ask \in Levels /\ bid < ask /\ last = 0
        /\ order = None /\ quote = None /\ position = None /\ result = None
        /\ held = 0 /\ cash = 0 /\ feesPaid = 0 /\ ragged \in BOOLEAN
    BY DEF Init
  <2>5. lifecycle \in Lifecycle /\ moves \in 0..MaxMoves /\ placed \in 0..MaxOrders
    BY <2>1, <2>2, <2>3
  <2> QED BY <2>4, <2>5 DEF PricesTypeOK
<1>2. Shape /\ Band
  BY DEF Init, Shape, Band, PricedWithinBand
<1>3. Verdict
  BY DEF Init, Begun, Verdict, VerdictPays
<1> QED BY <1>1, <1>2, <1>3 DEF PricesInv

LEMMA PricesNext ==
  ASSUME PricesInv, [Next]_vars
  PROVE  PricesInv'
<1>1. CASE UNCHANGED vars
  <2>1. UNCHANGED <<pc, bid, ask, last, order, quote, position, lifecycle, result, held,
                    cash, feesPaid, ragged, moves, placed>>
    BY <1>1 DEF vars, market, account, bounds
  <2>2. PricesTypeOK'
    BY <2>1 DEF PricesInv, PricesTypeOK
  <2>3. Shape' /\ Band'
    BY <2>1 DEF PricesInv, Shape, Band, PricedWithinBand
  <2>4. Verdict'
    BY <2>1 DEF PricesInv, Verdict, VerdictPays, Gain, CalcGrossPnl, Advance
  <2> QED BY <2>2, <2>3, <2>4 DEF PricesInv
<1>2. CASE Move \/ Fill
  BY <1>2, MoveInv, FillInv
<1>3. CASE Keep \/ RepriceDue \/ Hold
  BY <1>3, ControlInv
<1>4. CASE Head \/ EntryFilled \/ ExitFilled
  BY <1>4, HeadInv, EntryFilledInv, ExitFilledInv
<1>5. CASE OrderCanceled \/ WaitedTooLong \/ CancelForReprice
  BY <1>5, GivenUpInv, CancelForRepriceInv
<1>6. CASE Decide \/ Trigger \/ MakerExit \/ MarketExit
  BY <1>6, DecideInv, TriggerInv, MakerExitInv, MarketExitInv
<1>7. CASE ReadTouch \/ ReadLimits \/ Place \/ LimitReject
  BY <1>7, ReadTouchInv, ReadLimitsInv, PlaceInv, LimitRejectInv
<1>8. CASE MarketExitRefused \/ ReduceReject
  BY <1>8, NothingToReduceInv
<1> QED BY <1>1, <1>2, <1>3, <1>4, <1>5, <1>6, <1>7, <1>8 DEF Next

\* The invariant that the others follow from: what each step has in hand, where the
\* price of the next order lies, what a verdict says of the position.
THEOREM PricesInvariance == Spec => []PricesInv
<1>1. Init => PricesInv
  BY PricesInit
<1>2. PricesInv /\ [Next]_vars => PricesInv'
  BY PricesNext
<1> QED BY <1>1, <1>2, PTL DEF Spec

\* Every variable keeps its type for any book, and a step that uses the order, the
\* position or the quote has one (app/orchestrator.py:226 on).
THEOREM PricesTypeCorrect == Spec => []PricesTypeOK
<1>1. PricesInv => PricesTypeOK
  BY DEF PricesInv
<1> QED BY <1>1, PricesInvariance, PTL

\* For every tick, book and price limit a maker order is not priced through the touch
\* it was made from, nor past the limit by more than half the last digit's unit
\* (app/orchestrator.py:979, app/position_state.py:147).
THEOREM MakerPricesWithinBand == Spec => []PricedWithinBand
<1>1. PricesInv => PricedWithinBand
  BY DEF PricesInv, Band
<1> QED BY <1>1, PricesInvariance, PTL

\* For every threshold and every path of the market a target that was hit is paid, and
\* a stop that was hit is a loss, unless the price moved back before the exit
\* (app/position_state.py:236, accounting/pnl_calculator.py).
THEOREM VerdictsPay == Spec => []VerdictPays
<1>1. PricesInv => VerdictPays
  BY DEF PricesInv, Verdict
<1> QED BY <1>1, PricesInvariance, PTL

LEMMA StaleEntryStep ==
  ASSUME PricesInv, Next, pc = "order", Resting, order.purpose = "entry", StaleTicks > 0,
         IF order.side = "buy" THEN bid > order.price + Gap ELSE ask < order.price - Gap
  PROVE  ~(pc' = "head" /\ order' = order)
<1>1. order \in Order /\ order.price \in Nat /\ order.side \in {"buy", "sell"}
      /\ bid \in Int /\ ask \in Int /\ Gap \in Int
  <2>1. order \in Order /\ bid \in Int /\ ask \in Int
    BY Members DEF PricesInv, Resting
  <2>2. TickSize \in Nat /\ StaleTicks \in Nat
    BY RatesNat
  <2>3. Gap \in Nat
    BY <2>2, ProductNat DEF Gap
  <2> QED BY <2>1, <2>3 DEF Order, Sides
<1>2. Stale
  BY <1>1 DEF Stale, IsEntryOrderPriceStale
<1>3. order # None
  BY <1>1, NoneAssumption
<1>4. CASE Move \/ Fill
  BY <1>4 DEF Move, Fill
<1>5. CASE EntryFilled \/ ExitFilled \/ OrderCanceled
  BY <1>5 DEF EntryFilled, ExitFilled, OrderCanceled, Resting
<1>6. CASE Keep \/ RepriceDue \/ WaitedTooLong
  BY <1>2, <1>3, <1>6 DEF Keep, RepriceDue, WaitedTooLong
<1>7. CASE \/ Head \/ CancelForReprice \/ Decide \/ Trigger \/ Hold \/ MakerExit
           \/ MarketExit \/ MarketExitRefused \/ ReadTouch \/ ReadLimits \/ Place
           \/ LimitReject \/ ReduceReject
  BY <1>7 DEF Head, CancelForReprice, Decide, Trigger, Hold, MakerExit, MarketExit,
    MarketExitRefused, ReadTouch, ReadLimits, Place, LimitReject, ReduceReject
<1> QED BY <1>4, <1>5, <1>6, <1>7 DEF Next

\* For every threshold, book and order price: an entry the market has left behind is
\* not left in place by the iteration that finds it (app/position_state.py:182).
THEOREM StaleEntriesMove == Spec => StaleEntryMoves
<1>1. PricesInv /\ [Next]_vars =>
        [ /\ pc = "order" /\ Resting /\ order.purpose = "entry" /\ StaleTicks > 0
          /\ IF order.side = "buy" THEN bid > order.price + Gap
             ELSE ask < order.price - Gap
          => ~(pc' = "head" /\ order' = order) ]_vars
  BY StaleEntryStep
<1> QED BY <1>1, PricesInvariance, PTL DEF Spec, StaleEntryMoves
============================================================================
