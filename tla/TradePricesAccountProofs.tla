------------------------ MODULE TradePricesAccountProofs ------------------------
(***************************************************************************)
(* CleanTradeAccounted of TradePrices, for any book, limits, rates and     *)
(* thresholds.  The invariant follows the account through each fill: the   *)
(* trade is in one of four stages, and in each of them the position, the   *)
(* balance and the fees at the exchange are what the loop's order, its     *)
(* position and the tracker say.                                           *)
(***************************************************************************)
EXTENDS TradePricesProofs

EntrySide == IF position.side = "long" THEN "buy" ELSE "sell"
Rate == IF order.type = "market" THEN TakerRate ELSE MakerRate
EntryPaid == lifecycle.entryFee = MakerRate * position.cost

Untraded ==
  /\ order = None /\ position = None
  /\ held = 0 /\ cash = 0 /\ feesPaid = 0
  /\ quote # None => quote.purpose = "entry"

Entering ==
  /\ order # None /\ order.purpose = "entry"
  /\ order.done = 0 => position = None
  /\ held = Signed(order.side, order.done)
  /\ cash + Signed(order.side, order.done * order.price) = 0
  /\ feesPaid = MakerRate * (order.done * order.price)

Holding ==
  /\ order = None /\ position # None
  /\ held = Signed(EntrySide, position.size)
  /\ cash + Signed(EntrySide, position.cost) = 0
  /\ feesPaid = MakerRate * position.cost /\ EntryPaid
  /\ quote # None => /\ quote.purpose = "exit" /\ quote.side = ExitSide
                     /\ quote.size = position.size

Leaving ==
  /\ order # None /\ position # None /\ order.purpose = "exit"
  /\ order.side = ExitSide /\ order.size = position.size
  /\ order.state = "filled" => order.done = order.size
  /\ order.state = "live" => order.type = "post_only"
  /\ held = Signed(EntrySide, position.size - order.done)
  /\ cash = Signed(EntrySide, order.done * order.price - position.cost)
  /\ feesPaid = MakerRate * position.cost + Rate * (order.done * order.price) /\ EntryPaid

Stage == Untraded \/ Entering \/ Holding \/ Leaving

Accounted ==
  /\ CleanTradeAccounted
  /\ ~ragged /\ pc # "done" => Stage

AccountInv == PricesInv /\ Accounted

---------------------------------------------------------------------------
(* Arithmetic.                                                             *)

LEMMA SumProduct ==
  ASSUME NEW k \in Int, NEW m \in Int, NEW n \in Int
  PROVE  (m + n) * k = m * k + n * k
OBVIOUS

LEMMA ProductOrder ==
  ASSUME NEW k \in Int, NEW m \in Int, NEW n \in Int
  PROVE  k * m * n = k * (m * n) /\ m * n = n * m /\ k * m * n = k * (n * m)
OBVIOUS

\* n lots more at a price bring their cost and its fee.
LEMMA MoreBooked ==
  ASSUME NEW rate \in Nat, NEW d \in Nat, NEW n \in Nat, NEW p \in Nat
  PROVE  /\ (d + n) * p = d * p + n * p
         /\ rate * ((d + n) * p) = rate * (d * p) + rate * n * p
         /\ d * p \in Nat /\ n * p \in Nat /\ rate * n * p \in Nat
         /\ rate * (d * p) \in Nat
<1>1. (d + n) * p = d * p + n * p
  BY SumProduct
<1>2. d * p \in Nat /\ n * p \in Nat
  BY ProductNat
<1>3. rate * (d * p + n * p) = rate * (d * p) + rate * (n * p)
  BY <1>2
<1>4. rate * n * p = rate * (n * p)
  BY ProductOrder
<1>5. rate * (n * p) \in Nat /\ rate * (d * p) \in Nat
  BY <1>2, ProductNat
<1> QED BY <1>1, <1>2, <1>3, <1>4, <1>5

\* The minus sign of a sell goes in and out of a product.
LEMMA SignedProduct ==
  ASSUME NEW side, NEW n \in Int, NEW p \in Int
  PROVE  Signed(side, n) * p = Signed(side, n * p) /\ Signed(side, n) \in Int
BY DEF Signed

LEMMA NothingTraded ==
  ASSUME NEW side, NEW p \in Int, NEW rate \in Int
  PROVE  /\ Signed(side, 0) = 0 /\ Signed(side, 0 * p) = 0
         /\ rate * (0 * p) = 0
<1>1. 0 * p = 0
  OBVIOUS
<1>2. rate * 0 = 0
  OBVIOUS
<1>3. ASSUME NEW n \in Int, n <= 0, n >= 0
      PROVE  Signed(side, n) = 0
  BY <1>3 DEF Signed
<1>4. Signed(side, 0) = 0
  BY <1>3
<1> QED BY <1>1, <1>2, <1>4

---------------------------------------------------------------------------
(* Steps that leave the stage.                                             *)

\* The stage depends on the order, the position, the account, the entry's fees and on
\* what the next order is for.
LEMMA StageKept ==
  ASSUME Accounted, pc # "done",
         UNCHANGED <<order, position, held, cash, feesPaid, result, ragged>>,
         lifecycle'.entryFee = lifecycle.entryFee,
         \/ quote' = None
         \/ /\ quote # None
            /\ quote'.purpose = quote.purpose /\ quote'.side = quote.side
            /\ quote'.size = quote.size
  PROVE  Accounted'
<1>1. CleanTradeAccounted'
  BY DEF Accounted, CleanTradeAccounted
<1>2. ASSUME Untraded PROVE Untraded'
  BY <1>2 DEF Untraded
<1>3. ASSUME Entering PROVE Entering'
  BY <1>3 DEF Entering
<1>4. ASSUME Holding PROVE Holding'
  BY <1>4 DEF Holding, EntrySide, ExitSide, EntryPaid
<1>5. ASSUME Leaving PROVE Leaving'
  BY <1>5 DEF Leaving, EntrySide, ExitSide, EntryPaid, Rate
<1> QED BY <1>1, <1>2, <1>3, <1>4, <1>5 DEF Accounted, Stage

LEMMA QuietAccounted ==
  ASSUME AccountInv,
         Move \/ Keep \/ RepriceDue \/ Hold \/ Trigger \/ ReadTouch \/ ReadLimits \/ LimitReject
  PROVE  Accounted'
<1> USE DEF AccountInv, account
<1>1. CASE Keep \/ RepriceDue \/ Hold \/ LimitReject
  BY <1>1, StageKept DEF Keep, RepriceDue, Hold, LimitReject
<1>2. CASE Trigger
  <2>1. lifecycle \in Lifecycle
    BY DEF PricesInv, PricesTypeOK
  <2>2. lifecycle'.entryFee = lifecycle.entryFee
    BY <1>2, <2>1 DEF Trigger, Lifecycle
  <2> QED BY <1>2, <2>2, StageKept DEF Trigger
<1>3. CASE ReadTouch \/ ReadLimits
  <2>1. quote # None /\ quote \in Quote
    BY <1>3, Members DEF PricesInv, PricesTypeOK, ReadTouch, ReadLimits
  <2>2. /\ quote'.purpose = quote.purpose /\ quote'.side = quote.side
        /\ quote'.size = quote.size
    BY <1>3, <2>1 DEF ReadTouch, ReadLimits, Quote
  <2> QED BY <1>3, <2>1, <2>2, StageKept DEF ReadTouch, ReadLimits
<1>4. CASE Move
  <2>1. /\ UNCHANGED <<pc, order, position, held, cash, feesPaid, result, ragged, lifecycle,
                       quote>>
    BY <1>4 DEF Move
  <2>2. CASE pc # "done"
    BY <2>1, <2>2, StageKept
  <2>3. CASE pc = "done"
    BY <2>1, <2>3 DEF Accounted, CleanTradeAccounted
  <2> QED BY <2>2, <2>3
<1> QED BY <1>1, <1>2, <1>3, <1>4

---------------------------------------------------------------------------
(* Orders come and go.                                                     *)

\* What the steps before the result have in common.
LEMMA StageSuffices ==
  ASSUME AccountInv, pc # "done", result' = result, ~ragged' => ~ragged,
         ~ragged' => Stage'
  PROVE  Accounted'
<1>1. result = None
  BY DEF AccountInv, PricesInv, Shape
<1> QED BY <1>1 DEF Accounted, CleanTradeAccounted

LEMMA HeadAccounted ==
  ASSUME AccountInv, Head
  PROVE  Accounted'
<1>1. /\ UNCHANGED <<order, quote, lifecycle, result, held, cash, feesPaid, ragged>>
      /\ pc = "head" /\ position' = Restored
      /\ position # None => position' = position
  BY DEF Head, account, Restored
<1>2. quote = None /\ held \in Int
  BY <1>1, Members DEF AccountInv, PricesInv, Shape
<1>3. ASSUME ~ragged PROVE Stage'
  <2>1. CASE Untraded
    BY <1>1, <2>1 DEF Untraded, Restored, Stage
  <2>2. CASE Entering
    <3>1. order.done = 0 => held = 0
      BY <1>2, <2>2, NothingTraded DEF Entering
    <3>2. order.done = 0 => position' = None
      BY <1>1, <2>2, <3>1 DEF Entering, Restored
    <3> QED BY <1>1, <2>2, <3>2 DEF Entering, Stage
  <2>3. CASE Holding \/ Leaving
    <3>1. position' = position
      BY <1>1, <2>3 DEF Holding, Leaving
    <3> QED BY <1>1, <2>3, <3>1 DEF Holding, Leaving, EntrySide, ExitSide, EntryPaid, Rate, Stage
  <2> QED BY <1>1, <1>3, <2>1, <2>2, <2>3 DEF AccountInv, Accounted, Stage
<1> QED BY <1>1, <1>3, StageSuffices

LEMMA EntryFilledAccounted ==
  ASSUME AccountInv, EntryFilled
  PROVE  Accounted'
<1>1. /\ UNCHANGED <<quote, result, held, cash, feesPaid, ragged>>
      /\ pc = "order" /\ order' = None /\ order.purpose = "entry" /\ order # None
      /\ position' = BuildActivePosition(IF order.side = "buy" THEN "long" ELSE "short",
                                         order.price * order.done, order.done)
      /\ lifecycle' = [lifecycle EXCEPT !.entryFee = MakerRate * order.price * order.done]
  BY DEF EntryFilled, account, AccountInv, PricesInv, PricesTypeOK
<1>2. /\ order \in Order /\ order.side \in Sides /\ order.price \in Nat /\ order.done \in Nat
      /\ lifecycle \in Lifecycle /\ quote = None /\ position' # None
  <2>1. PricesInv'
    BY EntryFilledInv DEF AccountInv
  <2> QED BY <1>1, <2>1, Members DEF AccountInv, PricesInv, Shape, PricesTypeOK, Order, EntryFilled
<1>3. /\ order.price * order.done = order.done * order.price
      /\ MakerRate * order.price * order.done = MakerRate * (order.done * order.price)
  BY <1>2, RatesNat, ProductOrder
<1>4. /\ lifecycle'.entryFee = MakerRate * (order.done * order.price)
      /\ position'.cost = order.done * order.price /\ position'.size = order.done
      /\ EntrySide' = order.side
  BY <1>1, <1>2, <1>3 DEF Lifecycle, BuildActivePosition, EntrySide, Sides
<1>5. ASSUME ~ragged PROVE Holding'
  <2>1. Entering
    BY <1>1, <1>5 DEF AccountInv, Accounted, Stage, Untraded, Holding, Leaving
  <2> QED BY <1>1, <1>2, <1>4, <2>1 DEF Entering, Holding, EntryPaid
<1> QED BY <1>1, <1>5, StageSuffices DEF Stage

\* An order that is gone without a fill leaves the account as it was before it.
LEMMA Undone ==
  ASSUME AccountInv, pc # "done", ~ragged, order # None, order.done = 0,
         UNCHANGED <<position, held, cash, feesPaid>>, order' = None,
         order.purpose = "exit" => lifecycle'.entryFee = lifecycle.entryFee,
         \/ quote' = None
         \/ /\ quote'.purpose = order.purpose /\ quote'.side = order.side
            /\ quote'.size = order.size
  PROVE  Stage'
<1>1. /\ order \in Order /\ order.price \in Nat /\ order.purpose \in {"entry", "exit"}
      /\ position # None => /\ position \in Position /\ position.cost \in Nat
                            /\ position.size \in Nat
  BY Members DEF AccountInv, PricesInv, Order, Position
<1>2. Entering \/ Leaving
  BY DEF AccountInv, Accounted, Stage, Untraded, Holding
<1>3. 0 * order.price = 0
  BY <1>1
<1>4. CASE Entering
  <2>1. held = 0 /\ cash = 0 /\ feesPaid = 0
    <3>1. cash \in Int /\ cash + 0 = 0
      BY <1>1, <1>3, <1>4, NothingTraded, Members DEF Entering, AccountInv, PricesInv
    <3> QED BY <1>1, <1>4, <3>1, NothingTraded, RatesNat DEF Entering
  <2>2. Untraded'
    BY <1>4, <2>1 DEF Entering, Untraded
  <2> QED BY <2>2 DEF Stage
<1>5. CASE Leaving
  <2>1. held = Signed(EntrySide, position.size)
    BY <1>1, <1>5 DEF Leaving
  <2>2. cash = Signed(EntrySide, 0 - position.cost)
    BY <1>3, <1>5 DEF Leaving
  <2>3. Signed(EntrySide, 0 - position.cost) + Signed(EntrySide, position.cost) = 0
    BY <1>1, <1>5 DEF Leaving, Signed
  <2>4. feesPaid = MakerRate * position.cost
    <3>1. MakerRate * position.cost \in Nat
      BY <1>1, <1>5, RatesNat, ProductNat DEF Leaving
    <3>2. Rate * (0 * order.price) = 0
      BY <1>3, RatesNat DEF Rate
    <3> QED BY <1>5, <3>1, <3>2 DEF Leaving
  <2>5. Holding'
    BY <1>5, <2>1, <2>2, <2>3, <2>4 DEF Leaving, Holding, EntrySide, ExitSide, EntryPaid
  <2> QED BY <2>5 DEF Stage
<1> QED BY <1>2, <1>4, <1>5

LEMMA GivenUpAccounted ==
  ASSUME AccountInv, OrderCanceled \/ WaitedTooLong \/ CancelForReprice
  PROVE  Accounted'
<1>1. /\ UNCHANGED <<position, held, cash, feesPaid, result>>
      /\ pc \in {"order", "cancel"} /\ order # None /\ order' = None
      /\ ragged' = (ragged \/ order.done > 0)
      /\ order.purpose = "exit" => lifecycle'.entryFee = lifecycle.entryFee
  BY DEF OrderCanceled, WaitedTooLong, CancelForReprice, account, AccountInv, PricesInv,
     PricesTypeOK
<1>2. \/ quote' = None
      \/ /\ quote'.purpose = order.purpose /\ quote'.side = order.side
         /\ quote'.size = order.size
  BY <1>1 DEF OrderCanceled, WaitedTooLong, CancelForReprice, Wanted, AccountInv, PricesInv,
     Shape
<1>3. order.done \in Nat
  BY <1>1, Members DEF AccountInv, PricesInv, Order
<1>4. ~ragged' => ~ragged /\ order.done = 0
  <2>1. ~ragged' => ~ragged /\ ~(order.done > 0)
    BY <1>1, Zenon
  <2> QED BY <1>3, <2>1
<1>5. ~ragged' => Stage'
  BY <1>1, <1>2, <1>4, Undone
<1> QED BY <1>1, <1>4, <1>5, StageSuffices

LEMMA WantedAccounted ==
  ASSUME AccountInv, Decide \/ MakerExit
  PROVE  Accounted'
<1>1. /\ UNCHANGED <<order, position, held, cash, feesPaid, result, ragged>>
      /\ pc \in {"flat", "submit"} /\ order = None
  BY DEF Decide, MakerExit, account, AccountInv, PricesInv, Shape
<1>2. ASSUME Decide, ~ragged PROVE Stage'
  <2>1. Untraded
    BY <1>1, <1>2 DEF AccountInv, PricesInv, Shape, Accounted, Stage, Entering, Holding,
       Leaving, Decide
  <2>2. quote'.purpose = "entry"
    BY <1>2 DEF Decide, Wanted
  <2> QED BY <1>1, <2>1, <2>2 DEF Untraded, Stage
<1>3. ASSUME MakerExit, ~ragged PROVE Stage'
  <2>1. Holding
    BY <1>1, <1>3 DEF AccountInv, PricesInv, PricesTypeOK, Accounted, Stage, Untraded,
       Entering, Leaving, MakerExit
  <2>2. /\ quote'.purpose = "exit" /\ quote'.side = ExitSide /\ quote'.size = position.size
        /\ lifecycle' = lifecycle
    BY <1>3 DEF MakerExit, Wanted
  <2>3. Holding'
    BY <1>1, <2>1, <2>2 DEF Holding, EntrySide, ExitSide, EntryPaid
  <2> QED BY <2>3 DEF Stage
<1> QED BY <1>1, <1>2, <1>3, StageSuffices

LEMMA PlaceAccounted ==
  ASSUME AccountInv, Place
  PROVE  Accounted'
<1>1. /\ UNCHANGED <<position, lifecycle, held, cash, feesPaid, result, ragged>>
      /\ pc = "place" /\ order = None /\ quote # None /\ quote' = None
      /\ order' = [purpose |-> quote.purpose, side |-> quote.side, type |-> "post_only",
                   price |-> quote.price, size |-> quote.size, done |-> 0,
                   state |-> IF Crosses THEN "canceled" ELSE "live"]
  BY DEF Place, account, AccountInv, PricesInv, PricesTypeOK, Shape
<1>2. quote \in Quote /\ quote.price \in Nat /\ order' # None
  <2>1. PricesInv'
    BY PlaceInv DEF AccountInv
  <2>2. quote \in Quote
    BY <1>1, Members DEF AccountInv, PricesInv
  <2>3. order' \in Order
    BY <1>1, <2>2 DEF Order, Quote
  <2> QED BY <2>2, <2>3, NoneAssumption DEF Quote
<1>3. /\ order'.purpose = quote.purpose /\ order'.side = quote.side
      /\ order'.size = quote.size /\ order'.done = 0 /\ order'.price = quote.price
      /\ order'.state # "filled" /\ order'.type = "post_only"
  BY <1>1
<1>4. 0 * quote.price = 0
  BY <1>2
<1>5. ASSUME ~ragged PROVE Stage'
  <2>1. CASE Untraded
    <3>1. Entering'
      BY <1>1, <1>2, <1>3, <2>1, NothingTraded, RatesNat DEF Untraded, Entering
    <3> QED BY <3>1 DEF Stage
  <2>2. CASE Holding
    <3>1. position.cost \in Nat /\ position.size \in Nat
      BY <2>2, Members DEF AccountInv, PricesInv, Holding, Position
    <3>2. held' = Signed(EntrySide', position'.size - 0)
      BY <1>1, <2>2, <3>1 DEF Holding, EntrySide
    <3>3. cash' = Signed(EntrySide', 0 * quote.price - position'.cost)
      <4>1. /\ Signed(EntrySide, 0 - position.cost) + Signed(EntrySide, position.cost) = 0
            /\ Signed(EntrySide, position.cost) \in Int
            /\ Signed(EntrySide, 0 - position.cost) \in Int
        BY <3>1 DEF Signed
      <4>2. cash \in Int /\ cash + Signed(EntrySide, position.cost) = 0
        BY <2>2, Members DEF Holding, AccountInv, PricesInv
      <4>3. cash = Signed(EntrySide, 0 - position.cost)
        BY <4>1, <4>2
      <4> QED BY <1>1, <1>4, <2>2, <4>3 DEF Holding, EntrySide
    <3>4. feesPaid' = MakerRate * position'.cost + Rate' * (0 * quote.price)
      <4>1. MakerRate * position.cost \in Nat
        BY <3>1, RatesNat, ProductNat
      <4> QED BY <1>1, <1>3, <1>4, <2>2, <4>1, RatesNat DEF Holding, Rate
    <3>5. Leaving'
      BY <1>1, <1>2, <1>3, <2>2, <3>2, <3>3, <3>4 DEF Holding, Leaving, ExitSide, EntryPaid
    <3> QED BY <3>5 DEF Stage
  <2> QED BY <1>1, <1>5, <2>1, <2>2 DEF AccountInv, Accounted, Stage, Entering, Leaving
<1> QED BY <1>1, <1>5, StageSuffices

---------------------------------------------------------------------------
(* Fills.                                                                  *)

\* n lots of one side, added to what was traded of it and taken from the other's.
LEMMA SignedSums ==
  ASSUME NEW side, NEW m \in Int, NEW n \in Int
  PROVE  /\ Signed(side, m) + Signed(side, n) = Signed(side, m + n)
         /\ Signed(side, m) - Signed(side, n) = Signed(side, m - n)
BY DEF Signed

LEMMA ExitOpposes ==
  ASSUME position # None, PricesTypeOK, NEW n \in Int
  PROVE  Signed(ExitSide, n) = 0 - Signed(EntrySide, n) /\ Signed(EntrySide, n) \in Int
BY DEF ExitSide, EntrySide, Signed

LEMMA FillAccounted ==
  ASSUME AccountInv, Fill
  PROVE  Accounted'
<1>1. /\ UNCHANGED <<pc, quote, position, lifecycle, result, ragged>>
      /\ order # None /\ order.state = "live" /\ pc # "done"
  BY DEF Fill, Resting, AccountInv, PricesInv, Shape
<1>2. /\ order \in Order /\ order.size \in Nat /\ order.done \in Nat /\ order.price \in Nat
      /\ held \in Int /\ cash \in Int /\ feesPaid \in Int
  BY <1>1, Members DEF AccountInv, PricesInv, Order
<1>3. PICK n \in 1..(order.size - order.done) :
        /\ Book(order.side, n, order.price, MakerRate)
        /\ order' = [order EXCEPT !.done = @ + n,
             !.state = IF order.done + n = order.size THEN "filled"
                       ELSE IF order.purpose = "exit" /\ held' = 0 THEN "canceled"
                       ELSE "live"]
  BY DEF Fill
<1>4. n \in Nat /\ n # 0 /\ order.done + n \in Nat /\ order.done + n # 0
  BY <1>2, <1>3
<1>5. /\ order'.purpose = order.purpose /\ order'.side = order.side
      /\ order'.price = order.price /\ order'.size = order.size
      /\ order'.type = order.type /\ order'.done = order.done + n
      /\ order'.state = "filled" => order.done + n = order.size
      /\ order' # None
  <2> DEFINE st == IF order.done + n = order.size THEN "filled"
                   ELSE IF order.purpose = "exit" /\ held' = 0 THEN "canceled"
                   ELSE "live"
  <2>1. /\ st = "filled" => order.done + n = order.size
        /\ st \in {"live", "filled", "canceled"}
    OBVIOUS
  <2>2. order' = [[order EXCEPT !.done = order.done + n] EXCEPT !.state = st]
    BY <1>3
  <2> HIDE DEF st
  <2>3. order' = [purpose |-> order.purpose, side |-> order.side, type |-> order.type,
                  price |-> order.price, size |-> order.size, done |-> order.done + n,
                  state |-> st]
    BY <1>2, <2>2 DEF Order
  <2>4. order' \in Order
    BY <1>2, <1>4, <2>1, <2>3 DEF Order
  <2> QED BY <2>1, <2>3, <2>4, NoneAssumption
<1> DEFINE cost == order.done * order.price
           more == n * order.price
<1>6. /\ (order.done + n) * order.price = cost + more
      /\ MakerRate * ((order.done + n) * order.price)
           = MakerRate * cost + MakerRate * n * order.price
      /\ cost \in Nat /\ more \in Nat /\ MakerRate * n * order.price \in Nat
      /\ MakerRate * cost \in Nat
  BY <1>2, <1>4, RatesNat, MoreBooked
<1>7. /\ held' = held + Signed(order.side, n)
      /\ cash' = cash - Signed(order.side, more)
      /\ feesPaid' = feesPaid + MakerRate * n * order.price
  BY <1>2, <1>3, <1>4, SignedProduct DEF Book
<1> HIDE DEF cost, more
<1>8. ASSUME ~ragged, Entering PROVE Entering'
  <2>1. /\ held = Signed(order.side, order.done) /\ cash + Signed(order.side, cost) = 0
        /\ feesPaid = MakerRate * cost
    BY <1>8 DEF Entering, cost
  <2>2. held' = Signed(order.side, order.done + n)
    <3>1. Signed(order.side, order.done) + Signed(order.side, n)
            = Signed(order.side, order.done + n)
      <4>1. order.done \in Int /\ n \in Int
        BY <1>2, <1>4
      <4> QED BY <4>1, SignedSums
    <3> QED BY <1>7, <2>1, <3>1
  <2>3. /\ Signed(order.side, cost) + Signed(order.side, more) = Signed(order.side, cost + more)
        /\ Signed(order.side, cost) \in Int /\ Signed(order.side, more) \in Int
    BY <1>6, SignedSums DEF Signed
  <2>4. cash' + Signed(order.side, cost + more) = 0
    BY <1>2, <1>7, <2>1, <2>3
  <2>5. feesPaid' = MakerRate * ((order.done + n) * order.price)
    BY <1>6, <1>7, <2>1
  <2> QED BY <1>1, <1>4, <1>5, <1>6, <1>8, <2>2, <2>4, <2>5 DEF Entering
<1>9. ASSUME ~ragged, Leaving PROVE Leaving'
  <2> DEFINE paid == position.cost
  <2>1. /\ position # None /\ PricesTypeOK /\ paid \in Nat /\ position.size \in Nat
    BY <1>9, Members DEF Leaving, AccountInv, PricesInv, Position
  <2>2. /\ order.side = ExitSide /\ Rate = MakerRate
        /\ held = Signed(EntrySide, position.size - order.done)
        /\ cash = Signed(EntrySide, cost - paid)
        /\ feesPaid = MakerRate * paid + MakerRate * cost
    BY <1>1, <1>9 DEF Leaving, Rate, cost
  <2>3. Rate' = MakerRate /\ EntrySide' = EntrySide /\ ExitSide' = ExitSide
    BY <1>1, <1>5, <1>9 DEF Leaving, Rate, EntrySide, ExitSide
  <2> HIDE DEF paid
  <2>4. held' = Signed(EntrySide, position.size - (order.done + n))
    <3>1. held' = Signed(EntrySide, position.size - order.done) - Signed(EntrySide, n)
      BY <1>2, <1>4, <1>7, <2>1, <2>2, ExitOpposes
    <3>2. held' = Signed(EntrySide, (position.size - order.done) - n)
      <4>1. position.size - order.done \in Int
        BY <1>2, <2>1
      <4>2. Signed(EntrySide, position.size - order.done) - Signed(EntrySide, n)
              = Signed(EntrySide, (position.size - order.done) - n)
        BY <1>4, <4>1, SignedSums
      <4> QED BY <3>1, <4>2
    <3>3. (position.size - order.done) - n = position.size - (order.done + n)
      BY <1>2, <1>4, <2>1
    <3> QED BY <3>2, <3>3
  <2>5. cash' = Signed(EntrySide, (cost + more) - paid)
    <3>1. cash' = Signed(EntrySide, cost - paid) + Signed(EntrySide, more)
      BY <1>2, <1>6, <1>7, <2>1, <2>2, ExitOpposes
    <3>2. cash' = Signed(EntrySide, (cost - paid) + more)
      BY <1>6, <2>1, <3>1, SignedSums
    <3>3. (cost - paid) + more = (cost + more) - paid
      BY <1>6, <2>1
    <3> QED BY <3>2, <3>3
  <2>6. feesPaid' = MakerRate * paid + MakerRate * ((order.done + n) * order.price)
    <3>1. MakerRate * paid \in Nat
      BY <2>1, RatesNat, ProductNat
    <3> QED BY <1>6, <1>7, <2>2, <3>1
  <2> QED BY <1>1, <1>5, <1>6, <1>6, <1>9, <2>3, <2>4, <2>5, <2>6 DEF Leaving, EntryPaid, paid
<1>10. ASSUME ~ragged PROVE Stage'
  <2>1. Entering \/ Leaving
    BY <1>1, <1>10 DEF AccountInv, Accounted, Stage, Untraded, Holding
  <2> QED BY <1>8, <1>9, <1>10, <2>1 DEF Stage
<1> QED BY <1>1, <1>10, StageSuffices

LEMMA MarketExitAccounted ==
  ASSUME AccountInv, MarketExit
  PROVE  Accounted'
<1> DEFINE price == IF ExitSide = "buy" THEN ask ELSE bid
           n == Least(position.size, Abs(held))
<1>1. /\ UNCHANGED <<quote, position, lifecycle, result, ragged>>
      /\ pc = "submit" /\ order = None /\ position # None
      /\ Book(ExitSide, n, price, TakerRate)
      /\ order' = [purpose |-> "exit", side |-> ExitSide, type |-> "market",
                   price |-> price, size |-> n, done |-> n, state |-> "filled"]
  BY DEF MarketExit, AccountInv, PricesInv, PricesTypeOK, Shape
<1>2. /\ PricesTypeOK /\ position.size \in Nat /\ position.cost \in Nat /\ price \in Nat
      /\ held \in Int /\ cash \in Int /\ feesPaid \in Int
  BY <1>1, Members DEF AccountInv, PricesInv, Position
<1>3. ASSUME ~ragged PROVE Leaving'
  <2>1. Holding
    BY <1>1, <1>3 DEF AccountInv, Accounted, Stage, Untraded, Entering, Leaving
  <2>2. n = position.size
    BY <1>2, <2>1 DEF Holding, Signed, Abs, Least
  <2> HIDE DEF n, price
  <2> DEFINE more == n * price
             paid == position.cost
  <2>3. more \in Nat /\ TakerRate * n * price = TakerRate * more /\ n \in Nat
    BY <1>2, <2>2, RatesNat, ProductNat, ProductOrder
  <2>4. /\ held' = held + Signed(ExitSide, n)
        /\ cash' = cash - Signed(ExitSide, more)
        /\ feesPaid' = feesPaid + TakerRate * more
    BY <1>1, <1>2, <2>3, SignedProduct DEF Book
  <2>5. order'.purpose = "exit" /\ order'.side = ExitSide /\ order'.type = "market"
        /\ order'.price = price /\ order'.size = n /\ order'.done = n
        /\ order'.state = "filled" /\ order' # None
    <3>1. order'.purpose = "exit" /\ order'.side = ExitSide /\ order'.type = "market"
          /\ order'.price = price /\ order'.size = n /\ order'.done = n
          /\ order'.state = "filled"
      BY <1>1
    <3>2. order' \in Order
      BY <1>1, <1>2, <2>3 DEF Order, ExitSide, Sides
    <3> QED BY <3>1, <3>2, NoneAssumption
  <2>6. Rate' = TakerRate /\ EntrySide' = EntrySide /\ ExitSide' = ExitSide
    BY <1>1, <2>5 DEF Rate, EntrySide, ExitSide
  <2> HIDE DEF more, paid
  <2>7. held' = Signed(EntrySide, position.size - n)
    <3>1. Signed(ExitSide, n) = 0 - Signed(EntrySide, n) /\ Signed(EntrySide, n) \in Int
      BY <1>1, <1>2, <2>3, ExitOpposes
    <3>2. held = Signed(EntrySide, n)
      BY <2>1, <2>2 DEF Holding
    <3>3. held' = 0
      BY <2>4, <3>1, <3>2
    <3>4. position.size - n = 0
      BY <1>2, <2>2
    <3> QED BY <3>3, <3>4, NothingTraded
  <2>8. cash' = Signed(EntrySide, more - paid)
    <3>1. paid \in Nat /\ cash + Signed(EntrySide, paid) = 0
      BY <1>2, <2>1 DEF Holding, paid
    <3>2. /\ Signed(EntrySide, more) - Signed(EntrySide, paid) = Signed(EntrySide, more - paid)
          /\ Signed(ExitSide, more) = 0 - Signed(EntrySide, more)
          /\ Signed(EntrySide, more) \in Int /\ Signed(EntrySide, paid) \in Int
      BY <1>1, <1>2, <2>3, <3>1, SignedSums, ExitOpposes
    <3> QED BY <1>2, <2>4, <3>1, <3>2
  <2>9. feesPaid' = MakerRate * paid + TakerRate * more /\ EntryPaid
    BY <2>1, <2>4 DEF Holding, paid
  <2> QED BY <1>1, <2>2, <2>5, <2>6, <2>7, <2>8, <2>9 DEF Leaving, EntryPaid, more, paid
<1> QED BY <1>1, <1>3, StageSuffices DEF Stage

---------------------------------------------------------------------------
(* The result.                                                             *)

\* When the exit is filled whole, what the loop works out is what the account has.
LEMMA ExitFilledAccounted ==
  ASSUME AccountInv, ExitFilled
  PROVE  Accounted'
<1> DEFINE rate == IF order.type = "market" THEN TakerRate ELSE MakerRate
<1>1. /\ UNCHANGED <<lifecycle, held, cash, feesPaid, ragged>>
      /\ pc = "order" /\ order # None /\ order.purpose = "exit" /\ order.state = "filled"
      /\ Record(order.price, rate * order.price * order.done, rate, lifecycle.trigger)
  BY DEF ExitFilled, account, AccountInv, PricesInv, PricesTypeOK
<1>2. pc' = "done"
  BY <1>1 DEF Record
<1>3. ASSUME ~ragged
      PROVE  held = 0 /\ result'.gross = cash /\ result'.fees <= feesPaid
  <2>1. Leaving
    BY <1>1, <1>3 DEF AccountInv, Accounted, Stage, Untraded, Entering, Holding
  <2>2. /\ PricesTypeOK /\ order.price \in Nat /\ order.done = position.size
        /\ position.size \in Nat /\ position.cost \in Nat
        /\ position.side \in {"long", "short"}
    BY <1>1, <2>1, Members DEF AccountInv, PricesInv, Order, Position, Leaving
  <2> DEFINE paid == MakerRate * position.cost
             charged == rate * (position.size * order.price)
  <2>3. rate \in Nat /\ rate = Rate
    BY RatesNat DEF Rate
  <2>4. paid \in Nat /\ charged \in Nat /\ position.size * order.price \in Nat
    BY <2>2, <2>3, RatesNat, ProductNat
  <2>5. /\ rate * order.price * order.done = charged
        /\ rate * order.price * position.size = charged
        /\ order.price * position.size = position.size * order.price
    BY <2>2, <2>3, ProductOrder
  <2>6. feesPaid = paid + charged /\ lifecycle.entryFee = paid
    BY <2>1, <2>2, <2>3 DEF Leaving, EntryPaid
  <2>7. held = 0
    BY <2>1, <2>2, NothingTraded DEF Leaving
  <2>8. CalcGrossPnl(order.price) = cash
    <3>1. cash = Signed(EntrySide, position.size * order.price - position.cost)
      BY <2>1, <2>2 DEF Leaving
    <3>2. Advance(order.price) = position.size * order.price - position.cost
      BY <2>5 DEF Advance
    <3>3. Advance(order.price) \in Int
      BY <2>2, <2>4, <3>2
    <3> QED BY <3>1, <3>2, <3>3 DEF CalcGrossPnl, Signed, EntrySide
  <2> HIDE DEF rate, paid, charged
  <2>9. PICK entryFee \in {0, paid}, exitFee \in {0, charged} :
          result' = [side |-> position.side, size |-> position.size, price |-> order.price,
                     gross |-> CalcGrossPnl(order.price),
                     fees |-> IF entryFee + exitFee = 0 THEN EstimateFees(order.price, rate)
                              ELSE entryFee + exitFee,
                     trigger |-> lifecycle.trigger, at |-> lifecycle.at]
    <3>1. lifecycle.entryFee # None
      BY <2>4, <2>6, NoneAssumption
    <3> QED BY <1>1, <2>5, <2>6, <3>1 DEF Record
  <2>10. EstimateFees(order.price, rate) = feesPaid
    BY <2>5, <2>6 DEF EstimateFees, paid
  <2>11. result'.gross = cash
    BY <2>8, <2>9
  <2>12. result'.fees = IF entryFee + exitFee = 0 THEN feesPaid ELSE entryFee + exitFee
    BY <2>9, <2>10
  <2>13. result'.fees <= feesPaid
    BY <2>4, <2>6, <2>9, <2>12
  <2> QED BY <2>7, <2>11, <2>13
<1>4. ~ragged' => ~ragged
  BY <1>1
<1> QED BY <1>1, <1>2, <1>3, <1>4 DEF Accounted, CleanTradeAccounted

\* A clean trade that is held has something to reduce.
LEMMA NothingToReduceAccounted ==
  ASSUME AccountInv, MarketExitRefused \/ ReduceReject
  PROVE  Accounted'
<1>1. /\ position # None /\ order = None /\ pc # "done" /\ held = 0 /\ pc' = "done"
      /\ ragged' = ragged
  BY DEF AccountInv, PricesInv, PricesTypeOK, Shape, MarketExitRefused, ReduceReject,
     SyncClose, Record
<1>2. ragged
  <2>1. SUFFICES ASSUME ~ragged PROVE FALSE
    OBVIOUS
  <2>2. Holding
    BY <1>1, <2>1 DEF AccountInv, Accounted, Stage, Untraded, Entering, Leaving
  <2>3. position.size \in Nat \ {0}
    BY <1>1, Members DEF AccountInv, PricesInv, Position
  <2> QED BY <1>1, <2>2, <2>3 DEF Holding, Signed
<1> QED BY <1>1, <1>2 DEF Accounted, CleanTradeAccounted

---------------------------------------------------------------------------
(* The specification.                                                      *)

LEMMA AccountInit ==
  ASSUME Init
  PROVE  AccountInv
<1>1. Untraded /\ CleanTradeAccounted
  BY DEF Init, Untraded, CleanTradeAccounted
<1> QED BY <1>1, PricesInit DEF AccountInv, Accounted, Stage

LEMMA AccountNext ==
  ASSUME AccountInv, [Next]_vars
  PROVE  AccountInv'
<1>1. SUFFICES Accounted'
  BY PricesNext DEF AccountInv
<1>2. CASE UNCHANGED vars
  <2>1. UNCHANGED <<pc, order, quote, position, lifecycle, result, held, cash, feesPaid,
                    ragged>>
    BY <1>2 DEF vars, account
  <2>2. CASE pc # "done"
    <3>1. quote' = None \/ quote # None
      BY <2>1
    <3> QED BY <2>1, <2>2, <3>1, StageKept DEF AccountInv
  <2>3. CASE pc = "done"
    BY <2>1, <2>3 DEF AccountInv, Accounted, CleanTradeAccounted
  <2> QED BY <2>2, <2>3
<1>3. CASE Move \/ Keep \/ RepriceDue \/ Hold \/ Trigger \/ ReadTouch \/ ReadLimits
           \/ LimitReject
  BY <1>3, QuietAccounted
<1>4. CASE Fill \/ MarketExit
  BY <1>4, FillAccounted, MarketExitAccounted
<1>5. CASE Head \/ EntryFilled \/ ExitFilled
  BY <1>5, HeadAccounted, EntryFilledAccounted, ExitFilledAccounted
<1>6. CASE OrderCanceled \/ WaitedTooLong \/ CancelForReprice
  BY <1>6, GivenUpAccounted
<1>7. CASE Decide \/ MakerExit
  BY <1>7, WantedAccounted
<1>8. CASE Place
  BY <1>8, PlaceAccounted
<1>9. CASE MarketExitRefused \/ ReduceReject
  BY <1>9, NothingToReduceAccounted
<1> QED BY <1>2, <1>3, <1>4, <1>5, <1>6, <1>7, <1>8, <1>9 DEF Next

\* Whatever the market does between the requests, a trade whose orders were filled whole
\* or not at all is recorded with the gross result its fills brought, and is never
\* charged more than the fees of its own fills (execution/trade_finalize.py:110,
\* accounting/fee_engine.py:63).
THEOREM CleanTradesAccounted == Spec => []CleanTradeAccounted
<1>1. Init => AccountInv
  BY AccountInit
<1>2. AccountInv /\ [Next]_vars => AccountInv'
  BY AccountNext
<1>3. AccountInv => CleanTradeAccounted
  BY DEF AccountInv, Accounted
<1> QED BY <1>1, <1>2, <1>3, PTL DEF Spec
=============================================================================
