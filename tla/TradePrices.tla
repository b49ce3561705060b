------------------------------ MODULE TradePrices ------------------------------
(***************************************************************************)
(* One trade of the strategy loop in prices: the price rules and the exit  *)
(* rules of app/position_state.py, the price at which app/orchestrator.py  *)
(* places and moves a maker order, and what the trade is accounted as by   *)
(* execution/trade_finalize.py and accounting/.                            *)
(*                                                                         *)
(* ExecutorLoop is about which request is made when; here an iteration has *)
(* only the steps between which prices can move.  Requests do not fail, and *)
(* when an interval or a timeout has passed is a free choice.              *)
(*                                                                         *)
(* Prices are integers in a unit finer than the tick; a cost is a price    *)
(* times lots, so that an average price needs no fractions.                *)
(***************************************************************************)
EXTENDS Integers, FiniteSets

CONSTANTS
  Levels,       \* the prices of the book, multiples of the tick
  Limits,       \* the values the exchange may give as a price limit
  TickSize,     \* tick_size, in units
  Quantum,      \* the power of ten of the tick's last digit, in units
  TakeProfit,   \* take_profit_ticks
  StopLoss,     \* stop_loss_ticks
  StaleTicks,   \* entry_stale_reprice_ticks, exit_stale_reprice_ticks
  OrderSize,    \* order_size, in lots
  MakerRate,    \* fee_rate_maker: a fee is a cost times this
  TakerRate,    \* fee_rate_taker
  None,
  MaxMoves,     \* bound: moves of the book
  MaxOrders     \* bound: orders placed

ASSUME GridAssumption ==
  /\ TickSize \in Nat \ {0} /\ Quantum \in Nat \ {0}
  /\ Levels \subseteq Nat \ {0} /\ Limits \subseteq Nat
  /\ \A p \in Levels : p % TickSize = 0
  /\ TickSize % Quantum = 0
ASSUME RulesAssumption ==
  /\ OrderSize \in Nat \ {0}
  /\ {TakeProfit, StopLoss, StaleTicks, MakerRate, TakerRate} \subseteq Nat
  /\ {MaxMoves, MaxOrders} \subseteq Nat

VARIABLES
  pc,         \* the request the loop is about to make
  bid, ask,   \* the top of the book
  last,       \* ticker.last of this iteration
  order,      \* the order of the loop, as the exchange has it
  quote,      \* the price worked out for the next order
  position,   \* active_position
  lifecycle,  \* the tracker of the trade
  result,     \* the trade result
  held,       \* the exchange's position, in signed lots
  cash, feesPaid,   \* what the account gained by the trade's fills, and their fees
  ragged,     \* history: an order was filled in part, or without the loop noticing
  moves, placed   \* counters for the bounds

market == <<bid, ask>>
account == <<held, cash, feesPaid>>
bounds == <<moves, placed>>
vars == <<pc, market, last, order, quote, position, lifecycle, result, account,
          ragged, bounds>>

Sides == {"buy", "sell"}
Opposite(side) == IF side = "buy" THEN "sell" ELSE "buy"
Signed(side, n) == IF side = "buy" THEN n ELSE -n
Abs(n) == IF n < 0 THEN -n ELSE n
Least(m, n) == IF m < n THEN m ELSE n
Greatest(m, n) == IF m > n THEN m ELSE n

---------------------------------------------------------------------------
(* app/position_state.py.                                                  *)

\* Decimal.quantize: to the last digit of the tick, half to even.
Quantize(p) ==
  LET d == p \div Quantum
      r == 2 * (p % Quantum)
  IN IF r > Quantum \/ (r = Quantum /\ d % 2 = 1) THEN (d + 1) * Quantum
     ELSE d * Quantum

MakerPriceForSide(side) == Quantize(IF side = "buy" THEN bid ELSE ask)

\* Slip: the limits of the two sides are mixed up.
ClampCrossed(side, price, limit) ==
  Quantize(IF side = "buy" THEN Greatest(price, limit) ELSE Least(price, limit))

\* limit: buy_lmt for a buy, sell_lmt for a sell.
ClampMakerPriceToLimits(side, price, limit) ==
  Quantize(IF side = "buy" THEN Least(price, limit) ELSE Greatest(price, limit))

Gap == TickSize * StaleTicks

\* Slip: the exit's formula is used for an entry.
IsEntryOrderPriceStaleAsExit(side, price) ==
  /\ StaleTicks > 0
  /\ IF side = "sell" THEN ask - price > Gap ELSE price - bid > Gap

IsEntryOrderPriceStale(side, price) ==
  /\ StaleTicks > 0
  /\ IF side = "buy" THEN bid - price > Gap ELSE price - ask > Gap

IsExitOrderPriceStale(side, price) ==
  /\ StaleTicks > 0
  /\ \/ position.side = "long" /\ side = "sell" /\ ask - price > Gap
     \/ position.side = "short" /\ side = "buy" /\ price - bid > Gap

\* The entry price is kept as the cost of the whole position.
BuildActivePosition(side, cost, size) == [side |-> side, cost |-> cost, size |-> size]

ExitSide == IF position.side = "long" THEN "sell" ELSE "buy"

\* What the position is worth more at a price than at its entry, for a long.
Advance(price) == price * position.size - position.cost
TakeProfitDelta == TickSize * TakeProfit * position.size
StopLossDelta == TickSize * StopLoss * position.size

\* Slip: both sides are compared as a long is.
CheckExitReasonLong ==
  IF Advance(last) >= TakeProfitDelta THEN "tp"
  ELSE IF Advance(last) <= -StopLossDelta THEN "sl" ELSE None

\* check_exit_reason, before timeout_at.
CheckExitReason ==
  LET gain == IF position.side = "long" THEN Advance(last) ELSE -Advance(last)
  IN IF gain >= TakeProfitDelta THEN "tp"
     ELSE IF gain <= -StopLossDelta THEN "sl" ELSE None

\* Slip: both sides gain as a long does.
CalcGrossPnlLong(price) == Advance(price)

CalcGrossPnl(price) ==
  IF position.side = "long" THEN Advance(price) ELSE -Advance(price)

---------------------------------------------------------------------------
(* Types and initial states.                                               *)

Triggers == {"tp", "sl", "timeout", "reconcile", None}
Order == [purpose: {"entry", "exit"}, side: Sides, type: {"post_only", "market"},
          price: Nat, size: Nat, done: Nat, state: {"live", "filled", "canceled"}]
Position == [side: {"long", "short"}, cost: Nat, size: Nat \ {0}]

\* entryFee: the fees of the entry order's fills, or None when the tracker does
\* not know that order; trigger: the exit reason; at: the price that gave it.
Lifecycle == [entryFee: Int \cup {None}, trigger: Triggers,
              at: Nat]
Result == [side: {"long", "short"}, gross: Int, fees: Int, price: Nat, size: Nat,
           trigger: Triggers, at: Nat]

\* The order to be placed; touch and limit: what its price was made from.
Quote == [purpose: {"entry", "exit"}, side: Sides, size: Nat, price: Nat,
          touch: Nat, limit: Nat \cup {None}]

Begun == [entryFee |-> None, trigger |-> None, at |-> 0]
ASSUME NoneAssumption ==
  None \notin Order \cup Position \cup Result \cup Quote \cup Int
          \cup {"tp", "sl", "timeout", "reconcile"}

Init ==
  /\ pc = "head"
  /\ bid \in Levels /\ ask \in Levels /\ bid < ask
  /\ last = 0
  /\ order = None /\ quote = None /\ position = None /\ result = None
  /\ lifecycle = Begun
  /\ held = 0 /\ cash = 0 /\ feesPaid = 0
  /\ ragged = FALSE
  /\ moves = 0 /\ placed = 0

---------------------------------------------------------------------------
(* The market.                                                             *)

Resting == order # None /\ order.state = "live"

\* The book moves.  An order that rests stays part of it until it is filled.
Move ==
  /\ moves < MaxMoves
  /\ moves' = moves + 1
  /\ bid' \in Levels /\ ask' \in Levels /\ bid' < ask'
  /\ market' # market
  /\ Resting => IF order.side = "buy" THEN bid' >= order.price /\ ask' > order.price
                ELSE ask' <= order.price /\ bid' < order.price
  /\ UNCHANGED <<pc, last, order, quote, position, lifecycle, result, account,
                 ragged, placed>>

\* n lots are traded at a price.
Book(side, n, price, rate) ==
  /\ held' = held + Signed(side, n)
  /\ cash' = cash - Signed(side, n) * price
  /\ feesPaid' = feesPaid + rate * n * price

\* Slip: a resting exit is not reduce-only.
FillBeyond ==
  /\ Resting
  /\ order.price = IF order.side = "buy" THEN bid ELSE ask
  /\ \E n \in 1..(order.size - order.done) :
       /\ Book(order.side, n, order.price, MakerRate)
       /\ order' = [order EXCEPT !.done = @ + n,
                      !.state = IF order.done + n = order.size THEN "filled" ELSE "live"]
  /\ UNCHANGED <<pc, market, last, quote, position, lifecycle, result, ragged, bounds>>

\* The resting order is hit while it is at the touch.  One with nothing left to
\* reduce is canceled by the exchange.
Fill ==
  /\ Resting
  /\ order.price = IF order.side = "buy" THEN bid ELSE ask
  /\ \E n \in 1..(order.size - order.done) :
       /\ order.purpose = "exit" => n <= Abs(held)
       /\ Book(order.side, n, order.price, MakerRate)
       /\ order' = [order EXCEPT !.done = @ + n,
            !.state = IF order.done + n = order.size THEN "filled"
                      ELSE IF order.purpose = "exit" /\ held' = 0 THEN "canceled"
                      ELSE "live"]
  /\ UNCHANGED <<pc, market, last, quote, position, lifecycle, result, ragged, bounds>>

---------------------------------------------------------------------------
(* The head of an iteration: ticker, positions, the state of the order.    *)

\* An exchange position that is not known is restored at its average price: none
\* of it has been closed yet, so its cost is all that was paid.
Restored ==
  IF position = None /\ held # 0
  THEN BuildActivePosition(IF held > 0 THEN "long" ELSE "short", Abs(cash), Abs(held))
  ELSE position

Head ==
  /\ pc = "head"
  /\ last' \in {bid, ask}
  /\ position' = Restored
  /\ pc' = IF order # None THEN "order" ELSE IF Restored # None THEN "exit" ELSE "flat"
  /\ UNCHANGED <<market, order, quote, lifecycle, result, account, ragged, bounds>>

EntryFilled ==
  /\ pc = "order"
  /\ order.state = "filled" /\ order.purpose = "entry"
  /\ position' = BuildActivePosition(IF order.side = "buy" THEN "long" ELSE "short",
                                     order.price * order.done, order.done)
  /\ lifecycle' = [lifecycle EXCEPT !.entryFee = MakerRate * order.price * order.done]
  /\ order' = None
  /\ pc' = "exit"
  /\ UNCHANGED <<market, last, quote, result, account, ragged, bounds>>

\* estimate_fees: the entry order is a maker order.
EstimateFees(price, rate) == MakerRate * position.cost + rate * price * position.size

\* build_trade_result.  The fees are those of the fills of the entry and of the
\* exit order; fills may not be listed yet, and are estimated when none is.  For
\* an order the tracker does not know, all fills of the instrument are counted.
Record(price, exitFees, rate, trigger) ==
  /\ \E entryFee \in {0, IF lifecycle.entryFee = None THEN feesPaid ELSE lifecycle.entryFee},
        exitFee \in {0, exitFees} :
       result' = [side |-> position.side, size |-> position.size, price |-> price,
                  gross |-> CalcGrossPnl(price),
                  fees |-> IF entryFee + exitFee = 0 THEN EstimateFees(price, rate)
                           ELSE entryFee + exitFee,
                  trigger |-> trigger, at |-> lifecycle.at]
  /\ position' = None
  /\ pc' = "done"

ExitFilled ==
  /\ pc = "order"
  /\ order.state = "filled" /\ order.purpose = "exit"
  /\ LET rate == IF order.type = "market" THEN TakerRate ELSE MakerRate
     IN Record(order.price, rate * order.price * order.done, rate, lifecycle.trigger)
  /\ order' = None
  /\ UNCHANGED <<market, last, quote, lifecycle, account, ragged, bounds>>

OrderCanceled ==
  /\ pc = "order"
  /\ order.state = "canceled"
  /\ ragged' = (ragged \/ order.done > 0)
  /\ order' = None
  /\ lifecycle' = IF order.purpose = "exit" THEN lifecycle ELSE Begun
  /\ pc' = IF position = None THEN "head" ELSE "exit"
  /\ UNCHANGED <<market, last, quote, position, result, account, bounds>>

Stale ==
  IF order.purpose = "exit" THEN IsExitOrderPriceStale(order.side, order.price)
  ELSE IsEntryOrderPriceStale(order.side, order.price)

\* The order is live; the book is read, and it stays where it is.
Keep ==
  /\ pc = "order"
  /\ Resting
  /\ ~Stale
  /\ pc' = "head"
  /\ UNCHANGED <<market, last, order, quote, position, lifecycle, result, account,
                 ragged, bounds>>

\* It is stale or its interval has passed, and it has not waited too long.
RepriceDue ==
  /\ pc = "order"
  /\ Resting
  /\ pc' = "cancel"
  /\ UNCHANGED <<market, last, order, quote, position, lifecycle, result, account,
                 ragged, bounds>>

\* A price has to be found for this order.
Wanted(purpose, side, size) ==
  quote' = [purpose |-> purpose, side |-> side, size |-> size,
            price |-> 0, touch |-> 0, limit |-> None]

\* The cancel; that the order is already filled is swallowed.  The replacement is
\* for the size of the order.
CancelForReprice ==
  /\ pc = "cancel"
  /\ Wanted(order.purpose, order.side, order.size)
  /\ ragged' = (ragged \/ order.done > 0)
  /\ order' = None
  /\ pc' = "quote"
  /\ UNCHANGED <<market, last, position, lifecycle, result, account, bounds>>

\* Slip: an entry falls through to the exit, too.
WaitedTooLongExit ==
  /\ pc = "order"
  /\ Resting
  /\ ragged' = (ragged \/ order.done > 0)
  /\ order' = None
  /\ pc' = "exit"
  /\ UNCHANGED <<market, last, quote, position, lifecycle, result, account, bounds>>

\* The order is canceled and given up; an exit is then decided upon again.
WaitedTooLong ==
  /\ pc = "order"
  /\ Resting
  /\ ragged' = (ragged \/ order.done > 0)
  /\ order' = None
  /\ pc' = IF position = None THEN "head" ELSE "exit"
  /\ UNCHANGED <<market, last, quote, position, lifecycle, result, account, bounds>>

---------------------------------------------------------------------------
(* The entry and the exit.                                                 *)

Decide ==
  /\ pc = "flat"
  /\ \E side \in Sides : Wanted("entry", side, OrderSize)
  /\ lifecycle' = Begun
  /\ pc' = "quote"
  /\ UNCHANGED <<market, last, order, position, result, account, ragged, bounds>>

\* Is it time to leave?  The timeout comes first.
Trigger ==
  /\ pc = "exit"
  /\ \E reason \in {"timeout", CheckExitReason} \ {None} :
       lifecycle' = [lifecycle EXCEPT !.trigger = reason, !.at = last]
  /\ pc' = "submit"
  /\ UNCHANGED <<market, last, order, quote, position, result, account, ragged, bounds>>

Hold ==
  /\ pc = "exit"
  /\ CheckExitReason = None
  /\ pc' = "head"
  /\ UNCHANGED <<market, last, order, quote, position, lifecycle, result, account,
                 ragged, bounds>>

MakerExit ==
  /\ pc = "submit"
  /\ Wanted("exit", ExitSide, position.size)
  /\ pc' = "quote"
  /\ UNCHANGED <<market, last, order, position, lifecycle, result, account, ragged, bounds>>

\* finalize_reconciled_close: the exchange holds nothing to reduce.  No exit order
\* is bound, so that all fills are counted as its fills.
SyncClose ==
  /\ held = 0
  /\ Record(last, feesPaid, MakerRate,
            IF lifecycle.trigger = None THEN "reconcile" ELSE lifecycle.trigger)
  /\ quote' = None
  /\ UNCHANGED <<market, last, order, lifecycle, account, ragged, bounds>>

\* Too many attempts or the grace is over.  The exchange reduces the order to what
\* is held and fills it against the book.
MarketExit ==
  /\ pc = "submit"
  /\ placed < MaxOrders
  /\ held # 0
  /\ LET price == IF ExitSide = "buy" THEN ask ELSE bid
         n == Least(position.size, Abs(held))
     IN /\ Book(ExitSide, n, price, TakerRate)
        /\ order' = [purpose |-> "exit", side |-> ExitSide, type |-> "market",
                     price |-> price, size |-> n, done |-> n, state |-> "filled"]
  /\ placed' = placed + 1
  /\ pc' = "head"
  /\ UNCHANGED <<market, last, quote, position, lifecycle, result, ragged, moves>>

\* Neither side has anything to reduce.
MarketExitRefused == pc = "submit" /\ SyncClose

---------------------------------------------------------------------------
(* Placing a maker order.                                                  *)

\* _resolve_maker_price, the book: the touch of the order's side.
ReadTouch ==
  /\ pc = "quote"
  /\ quote' = [quote EXCEPT !.price = MakerPriceForSide(quote.side),
                            !.touch = IF quote.side = "buy" THEN bid ELSE ask]
  /\ pc' = "limits"
  /\ UNCHANGED <<market, last, order, position, lifecycle, result, account, ragged, bounds>>

\* _resolve_maker_price, the price limits; without them the touch is used.
ReadLimits ==
  /\ pc = "limits"
  /\ \E limit \in Limits \cup {None} :
       quote' = [quote EXCEPT !.limit = limit,
                   !.price = IF limit = None THEN @
                             ELSE ClampMakerPriceToLimits(quote.side, @, limit)]
  /\ pc' = "place"
  /\ UNCHANGED <<market, last, order, position, lifecycle, result, account, ragged, bounds>>

Crosses == IF quote.side = "buy" THEN quote.price >= ask ELSE quote.price <= bid

\* The exchange takes the order; one that would trade at once is canceled.
Place ==
  /\ pc = "place"
  /\ placed < MaxOrders
  /\ quote.purpose = "exit" => held # 0
  /\ order' = [purpose |-> quote.purpose, side |-> quote.side, type |-> "post_only",
               price |-> quote.price, size |-> quote.size, done |-> 0,
               state |-> IF Crosses THEN "canceled" ELSE "live"]
  /\ placed' = placed + 1
  /\ quote' = None
  /\ pc' = "head"
  /\ UNCHANGED <<market, last, position, lifecycle, result, account, ragged, moves>>

\* 51006: the limits have moved.  The loop is left without an order.
LimitReject ==
  /\ pc = "place"
  /\ quote' = None
  /\ pc' = "head"
  /\ UNCHANGED <<market, last, order, position, lifecycle, result, account, ragged, bounds>>

\* 51169: an exit with nothing to reduce.
ReduceReject == pc = "place" /\ quote.purpose = "exit" /\ SyncClose

Next ==
  \/ Move \/ Fill
  \/ Head \/ EntryFilled \/ ExitFilled \/ OrderCanceled \/ Keep
  \/ RepriceDue \/ CancelForReprice \/ WaitedTooLong
  \/ Decide \/ Trigger \/ Hold \/ MakerExit \/ MarketExit \/ MarketExitRefused
  \/ ReadTouch \/ ReadLimits \/ Place \/ LimitReject \/ ReduceReject

Spec == Init /\ [][Next]_vars

---------------------------------------------------------------------------
(* Properties.                                                             *)

\* Every variable has its type; a step at which the loop uses its order, its
\* position or its quote has one.
PricesTypeOK ==
  /\ pc \in {"head", "order", "cancel", "flat", "exit", "submit", "quote", "limits",
             "place", "done"}
  /\ bid \in Levels /\ ask \in Levels /\ bid < ask
  /\ last \in Levels \cup {0}
  /\ order \in Order \cup {None} /\ quote \in Quote \cup {None}
  /\ position \in Position \cup {None} /\ result \in Result \cup {None}
  /\ lifecycle \in Lifecycle
  /\ held \in Int /\ cash \in Int /\ feesPaid \in Int
  /\ ragged \in BOOLEAN /\ moves \in 0..MaxMoves /\ placed \in 0..MaxOrders
  /\ pc \in {"order", "cancel"} => order # None
  /\ pc \in {"quote", "limits", "place"} => quote # None
  /\ pc \in {"exit", "submit"} => position # None

\* A maker order is never placed on the far side of the touch it was priced from,
\* nor further outside the price limit than the rounding to the tick's last digit
\* explains (app/orchestrator.py:979, app/position_state.py:147).
PricedWithinBand ==
  pc = "place" =>
    IF quote.side = "buy"
    THEN /\ quote.price <= quote.touch
         /\ quote.limit # None => 2 * (quote.price - quote.limit) <= Quantum
    ELSE /\ quote.price >= quote.touch
         /\ quote.limit # None => 2 * (quote.limit - quote.price) <= Quantum

\* An entry that the market has left behind is not waited for: an iteration that
\* finds it further than the threshold from the touch never leaves it in place.
\* (position_state.py:182: "True, если entry-maker завис далеко от touch и его нужно
\* переставить немедленно.")
StaleEntryMoves ==
  [][ /\ pc = "order" /\ Resting /\ order.purpose = "entry" /\ StaleTicks > 0
      /\ IF order.side = "buy" THEN bid > order.price + Gap ELSE ask < order.price - Gap
      => ~(pc' = "head" /\ order' = order) ]_vars

\* The same of an exit (position_state.py:213: "True, если exit-maker завис далеко
\* от touch и его нужно переставить немедленно.").  The code compares the other way.
StaleExitMoves ==
  [][ /\ pc = "order" /\ Resting /\ order.purpose = "exit" /\ StaleTicks > 0
      /\ IF order.side = "buy" THEN bid > order.price + Gap ELSE ask < order.price - Gap
      => ~(pc' = "head" /\ order' = order) ]_vars

\* A trade whose every order was filled whole or not at all is accounted for as the
\* account has it: its gross result is what the fills brought, and it is never
\* charged more than the fees of its own fills (execution/trade_finalize.py:110,
\* accounting/fee_engine.py:63).
CleanTradeAccounted ==
  result # None /\ ~ragged => held = 0 /\ result.gross = cash /\ result.fees <= feesPaid

\* A verdict pays what it says: a trade left for its target at a price no worse than
\* the one that gave the verdict has won take_profit_ticks at least, and one left for
\* its stop at a price no better has lost stop_loss_ticks at least.
VerdictPays ==
  result # None =>
    LET ahead == IF result.side = "long" THEN result.price - result.at
                 ELSE result.at - result.price
    IN /\ result.trigger = "tp" /\ ahead >= 0
             => result.gross >= TickSize * TakeProfit * result.size
       /\ result.trigger = "sl" /\ ahead <= 0
             => result.gross <= -TickSize * StopLoss * result.size

\* A trade in prices is a trade of the cycle that ExecutorLoop implements: an entry is
\* decided upon only while the exchange holds nothing, whatever was filled in part,
\* given up and replaced since; no fill turns the position around; what is found at the
\* exchange is taken over, and an exit belongs to a position (orchestrator.py:209,
\* position_state.py:195).
InHand == IF order # None THEN order ELSE quote

tradePhase ==
  IF InHand # None
  THEN IF InHand.purpose = "entry" THEN "entering" ELSE "exiting"
  ELSE IF position # None THEN "holding" ELSE "flat"

Cycle == INSTANCE TradeCycle WITH
  phase <- tradePhase,
  exposure <- IF held = 0 THEN "none" ELSE IF held > 0 THEN "long" ELSE "short"

PricesImplementCycle == Cycle!Spec
=============================================================================
