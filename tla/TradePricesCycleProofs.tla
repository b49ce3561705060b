------------------------- MODULE TradePricesCycleProofs -------------------------
(***************************************************************************)
(* TradePrices implements TradeCycle, for any book, limits and thresholds: *)
(* the trade in prices, with its partial fills and its replaced orders,    *)
(* begins without exposure and is never turned around.                     *)
(*                                                                         *)
(* It rests on what the code never says: while an entry is in hand, at the *)
(* exchange or about to be replaced, nothing is held against its side.     *)
(***************************************************************************)
EXTENDS TradePricesProofs

\* An entry is decided upon with nothing held, and only adds to what its earlier
\* orders have filled.
EntryAhead ==
  /\ pc = "flat" => held = 0
  /\ order # None /\ order.purpose = "entry" => Signed(order.side, held) >= 0
  /\ quote # None /\ quote.purpose = "entry" => Signed(quote.side, held) >= 0

CycleInv == PricesInv /\ EntryAhead

Exposure == IF held = 0 THEN "none" ELSE IF held > 0 THEN "long" ELSE "short"

---------------------------------------------------------------------------
(* The invariant.                                                          *)

\* A step that trades nothing keeps it, if what it has in hand is what it had.
LEMMA AheadKept ==
  ASSUME EntryAhead, held' = held, pc' # "flat",
         \/ order' = None
         \/ order' = order
         \/ order # None /\ order'.purpose = order.purpose /\ order'.side = order.side,
         \/ quote' = None
         \/ quote' = quote
         \/ quote # None /\ quote'.purpose = quote.purpose /\ quote'.side = quote.side
  PROVE  EntryAhead'
BY DEF EntryAhead, Signed

LEMMA FillAhead ==
  ASSUME CycleInv, Fill
  PROVE  EntryAhead'
<1> USE DEF CycleInv, PricesInv
<1>1. order \in Order /\ held \in Int /\ order # None
  BY Members DEF Fill, Resting
<1>2. pc' = pc /\ quote' = quote /\ quote = None /\ pc # "flat"
  BY <1>1 DEF Fill, PricesTypeOK, Shape
<1>3. PICK n \in 1..(order.size - order.done) :
        /\ held' = held + Signed(order.side, n)
        /\ order'.purpose = order.purpose /\ order'.side = order.side
  <2>1. PICK n \in 1..(order.size - order.done) :
          /\ Book(order.side, n, order.price, MakerRate)
          /\ order' = [order EXCEPT !.done = @ + n,
               !.state = IF order.done + n = order.size THEN "filled"
                         ELSE IF order.purpose = "exit" /\ held' = 0 THEN "canceled"
                         ELSE "live"]
    BY DEF Fill
  <2>2. order'.purpose = order.purpose /\ order'.side = order.side
    BY <1>1, <2>1 DEF Order
  <2> QED BY <2>1, <2>2 DEF Book
<1>4. n \in Nat
  BY <1>1, <1>3 DEF Order
<1>5. order.purpose = "entry" => Signed(order.side, held) >= 0
  BY <1>1 DEF EntryAhead
<1>6. order.purpose = "entry" => Signed(order.side, held') >= 0
  BY <1>1, <1>3, <1>4, <1>5 DEF Signed
<1> QED BY <1>2, <1>3, <1>6 DEF EntryAhead

\* The steps that leave the account alone.
LEMMA QuietAhead ==
  ASSUME CycleInv,
         \/ Move \/ EntryFilled \/ ExitFilled \/ OrderCanceled \/ Keep
         \/ RepriceDue \/ WaitedTooLong \/ Trigger \/ Hold
         \/ MarketExitRefused \/ ReadTouch \/ ReadLimits \/ LimitReject \/ ReduceReject
  PROVE  EntryAhead'
<1> USE DEF CycleInv
<1>1. CASE Move
  BY <1>1 DEF Move, account, EntryAhead, Signed
<1>2. CASE EntryFilled \/ ExitFilled \/ OrderCanceled \/ WaitedTooLong
  BY <1>2, AheadKept DEF EntryFilled, ExitFilled, OrderCanceled, WaitedTooLong, Record,
     account
<1>3. CASE Keep \/ RepriceDue \/ Trigger \/ Hold \/ LimitReject
  BY <1>3, AheadKept DEF Keep, RepriceDue, Trigger, Hold, LimitReject, account
<1>4. CASE MarketExitRefused \/ ReduceReject
  BY <1>4, AheadKept DEF MarketExitRefused, ReduceReject, SyncClose, Record, account
<1>5. CASE ReadTouch \/ ReadLimits
  <2>1. quote # None /\ quote \in Quote
    BY <1>5, Members DEF ReadTouch, ReadLimits, PricesInv, PricesTypeOK
  <2>2. quote'.purpose = quote.purpose /\ quote'.side = quote.side
    BY <1>5, <2>1 DEF ReadTouch, ReadLimits, Quote
  <2>3. held' = held /\ order' = order /\ pc' # "flat"
    BY <1>5 DEF ReadTouch, ReadLimits, account
  <2> QED BY <2>1, <2>2, <2>3, AheadKept
<1> QED BY <1>1, <1>2, <1>3, <1>4, <1>5

\* The steps that decide upon an order, or send it.
LEMMA OrderAhead ==
  ASSUME CycleInv,
         Head \/ CancelForReprice \/ Decide \/ MakerExit \/ MarketExit \/ Place
  PROVE  EntryAhead'
<1> USE DEF CycleInv, PricesInv
<1>1. CASE Head
  <2>1. /\ order' = order /\ quote' = quote /\ held' = held
        /\ pc' = "flat" => Restored = None
    BY <1>1, NoneAssumption DEF Head, account
  <2>2. BuildActivePosition(IF held > 0 THEN "long" ELSE "short", Abs(cash), Abs(held))
          # None \/ held = 0
    <3> SUFFICES ASSUME held # 0
                 PROVE  BuildActivePosition(IF held > 0 THEN "long" ELSE "short",
                          Abs(cash), Abs(held)) \in Position
      BY NoneAssumption
    <3>1. Abs(cash) \in Nat /\ Abs(held) \in Nat \ {0}
      BY Members DEF Abs
    <3> QED BY <3>1 DEF BuildActivePosition, Position
  <2>3. pc' = "flat" => held = 0
    BY <2>1, <2>2 DEF Restored
  <2> QED BY <2>1, <2>3 DEF EntryAhead, Signed
<1>2. CASE CancelForReprice
  <2>1. /\ order # None /\ order' = None /\ held' = held /\ pc' = "quote"
        /\ quote'.purpose = order.purpose /\ quote'.side = order.side
    BY <1>2 DEF CancelForReprice, Wanted, account, PricesTypeOK
  <2> QED BY <2>1 DEF EntryAhead, Signed
<1>3. CASE Decide
  <2>1. held = 0 /\ held' = held /\ order' = None /\ pc' = "quote"
    BY <1>3 DEF Decide, account, EntryAhead, Shape
  <2> QED BY <2>1 DEF EntryAhead, Signed
<1>4. CASE MakerExit
  <2>1. /\ quote'.purpose = "exit" /\ order' = order /\ held' = held /\ pc' = "quote"
    BY <1>4 DEF MakerExit, Wanted, account
  <2> QED BY <2>1 DEF EntryAhead, Signed
<1>5. CASE MarketExit
  <2>1. order'.purpose = "exit" /\ quote' = None /\ pc' = "head"
    BY <1>5 DEF MarketExit, Shape
  <2> QED BY <2>1 DEF EntryAhead
<1>6. CASE Place
  <2>1. /\ quote # None /\ quote' = None /\ held' = held /\ pc' = "head"
        /\ order'.purpose = quote.purpose /\ order'.side = quote.side
    BY <1>6 DEF Place, account, PricesTypeOK
  <2> QED BY <2>1 DEF EntryAhead, Signed
<1> QED BY <1>1, <1>2, <1>3, <1>4, <1>5, <1>6

LEMMA CycleNext ==
  ASSUME CycleInv, [Next]_vars
  PROVE  CycleInv'
<1>1. PricesInv'
  BY PricesNext DEF CycleInv
<1>2. CASE UNCHANGED vars
  <2>1. UNCHANGED <<pc, order, quote, held>>
    BY <1>2 DEF vars, account
  <2>2. EntryAhead
    BY DEF CycleInv
  <2>3. EntryAhead'
    BY <2>1, <2>2 DEF EntryAhead, Signed
  <2> QED BY <1>1, <2>3 DEF CycleInv
<1>3. CASE Fill
  BY <1>1, <1>3, FillAhead DEF CycleInv
<1>4. CASE \/ Move \/ EntryFilled \/ ExitFilled \/ OrderCanceled \/ Keep
           \/ RepriceDue \/ WaitedTooLong \/ Trigger \/ Hold
           \/ MarketExitRefused \/ ReadTouch \/ ReadLimits \/ LimitReject \/ ReduceReject
  <2>1. EntryAhead'
    BY <1>4, QuietAhead
  <2> QED BY <1>1, <2>1 DEF CycleInv
<1>5. CASE Head \/ CancelForReprice \/ Decide \/ MakerExit \/ MarketExit \/ Place
  <2>1. EntryAhead'
    BY <1>5, OrderAhead
  <2> QED BY <1>1, <2>1 DEF CycleInv
<1> QED BY <1>2, <1>3, <1>4, <1>5 DEF Next

---------------------------------------------------------------------------
(* Each step is one of the cycle's, or none.                               *)

LEMMA FilledOrder ==
  ASSUME order \in Order, NEW done \in Nat, NEW state \in {"live", "filled", "canceled"},
         NEW new, new = [order EXCEPT !.done = done, !.state = state]
  PROVE  new # None /\ new.purpose = order.purpose
<1>1. new = [purpose |-> order.purpose, side |-> order.side, type |-> order.type,
             price |-> order.price, size |-> order.size, done |-> done, state |-> state]
  BY DEF Order
<1>2. new \in Order
  BY <1>1 DEF Order
<1> QED BY <1>1, <1>2, NoneAssumption

\* A fill brings the position nearer to what the order wants or, as it is reduced, to
\* nothing: never past it.
LEMMA FillKeepsCourse ==
  ASSUME CycleInv, Fill
  PROVE  Cycle!Exchange
<1> USE DEF CycleInv, PricesInv
<1>1. order \in Order /\ held \in Int /\ order # None
  BY Members DEF Fill, Resting
<1>2. quote' = quote /\ quote = None /\ position' = position
  BY <1>1 DEF Fill, PricesTypeOK, Shape
<1>3. PICK n \in 1..(order.size - order.done) :
        /\ order.purpose = "exit" => n <= Abs(held)
        /\ held' = held + Signed(order.side, n)
        /\ order' = [order EXCEPT !.done = @ + n,
             !.state = IF order.done + n = order.size THEN "filled"
                       ELSE IF order.purpose = "exit" /\ held' = 0 THEN "canceled"
                       ELSE "live"]
  BY DEF Fill, Book
<1>4. order' # None /\ order'.purpose = order.purpose
  <2> DEFINE state == IF order.done + n = order.size THEN "filled"
                      ELSE IF order.purpose = "exit" /\ held' = 0 THEN "canceled"
                      ELSE "live"
  <2>1. order.done + n \in Nat /\ state \in {"live", "filled", "canceled"}
    BY <1>1, <1>3 DEF Order
  <2>2. order' = [order EXCEPT !.done = order.done + n, !.state = state]
    BY <1>3
  <2> HIDE DEF state
  <2> QED BY <1>1, <2>1, <2>2, FilledOrder
<1>5. tradePhase' = tradePhase
  BY <1>1, <1>2, <1>4 DEF tradePhase, InHand
<1>6. n \in Nat /\ order.purpose \in {"entry", "exit"}
  BY <1>1, <1>3 DEF Order
<1>7. \/ held = 0
      \/ held > 0 /\ held' >= 0
      \/ held < 0 /\ held' <= 0
  <2>1. CASE order.purpose = "entry"
    <3>1. Signed(order.side, held) >= 0
      BY <1>1, <2>1 DEF EntryAhead
    <3> QED BY <1>1, <1>3, <1>6, <3>1 DEF Signed
  <2>2. CASE order.purpose = "exit"
    BY <1>1, <1>3, <1>6, <2>2 DEF Signed, Abs
  <2> QED BY <1>6, <2>1, <2>2
<1>8. Exposure' \in {"none", "long", "short"}
      /\ (Exposure = "none" \/ Exposure' \in {Exposure, "none"})
  <2>1. held' \in Int
    BY <1>1, <1>3, <1>6 DEF Signed
  <2> QED BY <1>1, <1>7, <2>1 DEF Exposure
<1> QED BY <1>5, <1>8 DEF Cycle!Exchange, Cycle!Exposures, Exposure

\* An order that is placed or replaced, and everything else that is neither bought
\* nor sold nor believed otherwise.
LEMMA StepsAside ==
  ASSUME CycleInv,
         \/ Move \/ Keep \/ RepriceDue \/ CancelForReprice \/ Trigger \/ Hold
         \/ ReadTouch \/ ReadLimits \/ Place
  PROVE  tradePhase' = tradePhase /\ held' = held
<1> USE DEF CycleInv, PricesInv
<1>1. CASE Move \/ Keep \/ RepriceDue \/ Trigger \/ Hold
  <2>1. UNCHANGED <<order, quote, position, held>>
    BY <1>1 DEF Move, Keep, RepriceDue, Trigger, Hold, account
  <2> QED BY <2>1 DEF tradePhase, InHand
<1>2. CASE CancelForReprice
  <2>1. /\ order # None /\ quote = None /\ order' = None /\ held' = held
        /\ position' = position
        /\ quote' \in [purpose : {order.purpose}, side : {order.side}, size : {order.size},
                       price : {0}, touch : {0}, limit : {None}]
    BY <1>2 DEF CancelForReprice, Wanted, account, PricesTypeOK, Shape
  <2>2. order \in Order /\ order.purpose \in {"entry", "exit"}
    BY <2>1, Members DEF Order
  <2>3. quote' \in Quote
    BY <2>1, <2>2 DEF Order, Quote
  <2> QED BY <2>1, <2>3, NoneAssumption DEF tradePhase, InHand
<1>3. CASE ReadTouch \/ ReadLimits
  <2>1. quote # None /\ quote \in Quote /\ order = None
    BY <1>3, Members DEF ReadTouch, ReadLimits, PricesTypeOK, Shape
  <2>2. quote'.purpose = quote.purpose
    BY <1>3, <2>1 DEF ReadTouch, ReadLimits, Quote
  <2>3. quote' # None
    <3>1. PricesTypeOK' /\ pc' \in {"limits", "place"}
      BY <1>3, ReadTouchInv, ReadLimitsInv DEF ReadTouch, ReadLimits
    <3> QED BY <3>1 DEF PricesTypeOK
  <2>4. order' = order /\ position' = position /\ held' = held
    BY <1>3 DEF ReadTouch, ReadLimits, account
  <2> QED BY <2>1, <2>2, <2>3, <2>4 DEF tradePhase, InHand
<1>4. CASE Place
  <2>1. /\ quote # None /\ order = None /\ quote' = None /\ held' = held
        /\ position' = position /\ order'.purpose = quote.purpose
    BY <1>4 DEF Place, account, PricesTypeOK, Shape
  <2>2. order' # None
    <3>1. order' \in [purpose : {quote.purpose}, side : {quote.side},
                      type : {"post_only"}, price : {quote.price}, size : {quote.size},
                      done : {0}, state : {"canceled", "live"}]
      BY <1>4 DEF Place
    <3>2. quote \in Quote
      BY <2>1, Members
    <3>3. order' \in Order
      BY <3>1, <3>2 DEF Order, Quote
    <3> QED BY <3>3, NoneAssumption
  <2> QED BY <2>1, <2>2 DEF tradePhase, InHand
<1> QED BY <1>1, <1>2, <1>3, <1>4

\* An entry begins with nothing held; what is found at the exchange is taken over.
LEMMA TradeBegins ==
  ASSUME CycleInv, Head \/ Decide
  PROVE  [Cycle!Enter \/ Cycle!TakeOver]_<<tradePhase, Exposure>>
<1> USE DEF CycleInv, PricesInv
<1>1. CASE Head
  <2>1. /\ order' = order /\ quote' = quote /\ held' = held /\ position' = Restored
        /\ position # None => position' = position
    BY <1>1 DEF Head, account, Restored
  <2>2. \/ tradePhase' = tradePhase
        \/ tradePhase = "flat" /\ tradePhase' = "holding"
    BY <2>1 DEF tradePhase, InHand
  <2> QED BY <2>1, <2>2 DEF Cycle!TakeOver, Exposure
<1>2. CASE Decide
  <2>1. order = None /\ quote = None /\ position = None /\ held = 0
    BY <1>2 DEF Decide, Shape, EntryAhead
  <2>2. /\ order' = None /\ held' = 0
        /\ \E side \in Sides :
             quote' = [purpose |-> "entry", side |-> side, size |-> OrderSize,
                       price |-> 0, touch |-> 0, limit |-> None]
    BY <1>2, <2>1 DEF Decide, Wanted, account
  <2>3. quote' # None /\ quote'.purpose = "entry"
    <3>1. quote' \in Quote
      BY <2>2, RatesNat DEF Quote
    <3> QED BY <2>2, <3>1, NoneAssumption
  <2>4. tradePhase = "flat" /\ tradePhase' = "entering"
    BY <2>1, <2>2, <2>3 DEF tradePhase, InHand
  <2> QED BY <2>1, <2>2, <2>4 DEF Cycle!Enter, Exposure
<1> QED BY <1>1, <1>2

\* An order is filled, canceled or rejected: its entry or its exit is over.
LEMMA OrderEnds ==
  ASSUME CycleInv,
         \/ EntryFilled \/ ExitFilled \/ OrderCanceled \/ WaitedTooLong
         \/ LimitReject \/ ReduceReject
  PROVE  Cycle!EntryEnds \/ Cycle!ExitEnds
<1> USE DEF CycleInv, PricesInv
<1>1. held' = held /\ order' = None /\ quote' = None
  BY DEF EntryFilled, ExitFilled, OrderCanceled, WaitedTooLong, LimitReject, ReduceReject,
     SyncClose, Record, account, Shape
<1>2. InHand # None
  BY DEF EntryFilled, ExitFilled, OrderCanceled, WaitedTooLong, LimitReject, ReduceReject,
     PricesTypeOK, InHand
<1>3. tradePhase \in {"entering", "exiting"} /\ tradePhase' \in {"flat", "holding"}
  BY <1>1, <1>2 DEF tradePhase, InHand
<1> QED BY <1>1, <1>3 DEF Cycle!EntryEnds, Cycle!ExitEnds

\* The exit of a position: a maker order is wanted, a market order is carried out, or
\* there is nothing left to leave.
LEMMA PositionLeft ==
  ASSUME CycleInv, MakerExit \/ MarketExit \/ MarketExitRefused
  PROVE  Cycle!Exit \/ Cycle!CloseBySync
<1> USE DEF CycleInv, PricesInv
<1>1. order = None /\ quote = None /\ position # None /\ position \in Position
  BY Members DEF MakerExit, MarketExit, MarketExitRefused, PricesTypeOK, Shape
<1>2. tradePhase = "holding"
  BY <1>1 DEF tradePhase, InHand
<1>3. CASE MakerExit
  <2>1. /\ order' = None /\ held' = held
        /\ quote' = [purpose |-> "exit", side |-> ExitSide, size |-> position.size,
                     price |-> 0, touch |-> 0, limit |-> None]
    BY <1>1, <1>3 DEF MakerExit, Wanted, account
  <2>2. quote' \in Quote
    BY <1>1, <2>1 DEF Quote, Position, ExitSide, Sides
  <2>3. tradePhase' = "exiting"
    BY <2>1, <2>2, NoneAssumption DEF tradePhase, InHand
  <2> QED BY <1>2, <2>1, <2>3 DEF Cycle!Exit
<1>4. CASE MarketExit
  <2>1. PICK n : /\ n = Least(position.size, Abs(held))
                 /\ held' = held + Signed(ExitSide, n)
                 /\ order'.purpose = "exit"
    BY <1>4 DEF MarketExit, Book
  <2>2. n \in Nat /\ n <= Abs(held) /\ held \in Int
    BY <1>1, <2>1, Members DEF Least, Abs, Position
  <2>3. order' # None
    <3>1. PICK price \in {bid, ask} :
            order' = [purpose |-> "exit", side |-> ExitSide, type |-> "market",
                      price |-> price, size |-> n, done |-> n, state |-> "filled"]
      BY <1>4, <2>1 DEF MarketExit
    <3>2. price \in Nat /\ ExitSide \in Sides
      BY Members DEF ExitSide, Sides
    <3>3. order' \in Order
      BY <2>2, <3>1, <3>2 DEF Order
    <3> QED BY <3>3, NoneAssumption
  <2>4. tradePhase' = "exiting"
    BY <2>1, <2>3 DEF tradePhase, InHand
  <2>5. \/ held' = 0
        \/ held > 0 /\ held' > 0
        \/ held < 0 /\ held' < 0
        \/ held = 0
    BY <2>1, <2>2 DEF Signed, Abs
  <2>6. Exposure' \in {Exposure, "none"}
    BY <2>1, <2>2, <2>5 DEF Exposure, Signed, Abs
  <2> QED BY <1>2, <2>4, <2>6 DEF Cycle!Exit, Exposure
<1>5. CASE MarketExitRefused
  <2>1. order' = None /\ quote' = None /\ position' = None /\ held' = held
    BY <1>1, <1>5 DEF MarketExitRefused, SyncClose, Record, account
  <2>2. tradePhase' = "flat"
    BY <2>1 DEF tradePhase, InHand
  <2> QED BY <1>2, <2>1, <2>2 DEF Cycle!CloseBySync
<1> QED BY <1>3, <1>4, <1>5

\* Every step of the trade in prices is one of the cycle's, or none.
LEMMA NextRefines ==
  ASSUME CycleInv, [Next]_vars
  PROVE  [Cycle!Next]_<<tradePhase, Exposure>>
<1>1. CASE UNCHANGED vars
  BY <1>1 DEF vars, account, tradePhase, InHand, Exposure
<1>2. CASE \/ Move \/ Keep \/ RepriceDue \/ CancelForReprice \/ Trigger \/ Hold
           \/ ReadTouch \/ ReadLimits \/ Place
  BY <1>2, StepsAside DEF Exposure
<1>3. CASE Fill
  BY <1>3, FillKeepsCourse DEF Cycle!Next
<1>4. CASE Head \/ Decide
  BY <1>4, TradeBegins DEF Cycle!Next
<1>5. CASE \/ EntryFilled \/ ExitFilled \/ OrderCanceled \/ WaitedTooLong
           \/ LimitReject \/ ReduceReject
  BY <1>5, OrderEnds DEF Cycle!Next
<1>6. CASE MakerExit \/ MarketExit \/ MarketExitRefused
  BY <1>6, PositionLeft DEF Cycle!Next
<1> QED BY <1>1, <1>2, <1>3, <1>4, <1>5, <1>6 DEF Next

\* For any book, any limits and any sizes, a trade in prices is a trade of the cycle:
\* an entry only without exposure, however it was filled in part, given up and
\* replaced, and no fill that turns the position around (app/orchestrator.py:209,
\* app/position_state.py:195).
THEOREM PricesImplementTradeCycle == Spec => PricesImplementCycle
<1>1. Init => CycleInv
  <2>1. Init => EntryAhead
    BY DEF Init, EntryAhead
  <2> QED BY <2>1, PricesInit DEF CycleInv
<1>2. CycleInv /\ [Next]_vars => CycleInv'
  BY CycleNext
<1>3. Init => Cycle!Init
  BY DEF Init, Cycle!Init, tradePhase, InHand
<1>4. CycleInv /\ [Next]_vars => [Cycle!Next]_<<tradePhase, Exposure>>
  BY NextRefines
<1> QED BY <1>1, <1>2, <1>3, <1>4, PTL
       DEF Spec, PricesImplementCycle, Cycle!Spec, Exposure
============================================================================
