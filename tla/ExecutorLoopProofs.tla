------------------------- MODULE ExecutorLoopProofs -------------------------
(***************************************************************************)
(* Theorems about ExecutorLoop, for every value of its constants.          *)
(*                                                                         *)
(* The inductive invariant IInv has five parts:                            *)
(*  - TypeOK;                                                              *)
(*  - Control: what the step the loop is at says about its locals;         *)
(*  - Tracking: the active order describes an order the exchange knows;    *)
(*  - Snapshots: what the flags of this iteration still guarantee;         *)
(*  - Direction: all orders and positions belong to one direction, entries *)
(*    with it and exits against it.                                        *)
(***************************************************************************)
EXTENDS ExecutorLoop, TLAPS

OrderSteps == {"getOrder", "finalize", "cancelReprice", "replace",
               "cancelTimeout", "verify", "verifyRetry"}
HoldSteps == {"exit", "placeExit", "syncCheck", "syncClose"}

Control ==
  /\ pc \in OrderSteps => activeOrder # None
  /\ pc \in {"down", "bootPositions", "bootOrders", "flat", "placeEntry"} =>
       activeOrder = None /\ activePosition = None
  /\ pc \in HoldSteps => activeOrder = None /\ activePosition # None
  /\ pc = "finalize" => activeOrder.purpose = "exit"
  /\ activeOrder # None /\ activeOrder.purpose = "exit" => activePosition # None

Tracking ==
  /\ activeOrder # None =>
       /\ orders[activeOrder.id] # None
       /\ orders[activeOrder.id].side = activeOrder.side
       /\ orders[activeOrder.id].reduceOnly = activeOrder.reduceOnly
       /\ activeOrder.reduceOnly <=> activeOrder.purpose = "exit"
  /\ \A o \in OrderIds : orders[o] # None =>
       /\ o = tracked \/ orders[o].state = "live"
       /\ orders[o].reduceOnly <=> orders[o].kind = "exit"

Empty == net = 0 /\ LiveOrders = {}

Snapshots ==
  /\ pc \in {"positions", "sweep"} \cup OrderSteps /\ activeOrder # None => iter.hasOrder
  /\ pc \in {"positions", "sweep"} /\ ~iter.hasOrder =>
       LiveOrders = {} /\ activeOrder = None
  /\ pc = "sweep" /\ ~iter.hasOrder /\ ~iter.hasPosition => net = 0 /\ iter.seen = 0
  /\ pc = "flat" /\ ~iter.hasOrder /\ ~iter.hasPosition /\ ~cooldown =>
       Empty /\ iter.seen = 0
  /\ pc = "placeEntry" => Empty /\ iter.seen = 0
  /\ pc = "sweep" /\ activePosition # None => iter.hasPosition
  /\ pc = "sweep" /\ iter.seen # 0 => iter.hasPosition

Facing(s) ==
  /\ Signed(s, net) >= 0
  /\ Signed(s, iter.seen) >= 0
  /\ pc = "placeEntry" => iter.side = s
  /\ activePosition # None => ExitSide(activePosition) = Opposite(s)
  /\ \A o \in OrderIds : orders[o] # None =>
       orders[o].side = IF orders[o].reduceOnly THEN Opposite(s) ELSE s

Direction == \E s \in Sides : Facing(s)

IInv == TypeOK /\ Control /\ Tracking /\ Snapshots /\ Direction

---------------------------------------------------------------------------
(* What the requests and the market do to the book of orders.              *)

Books == [OrderIds -> Order \cup {None}]

\* A step that adds no order, wakes none up and changes no order's nature.
Shrinks == \A o \in OrderIds : orders'[o] # None =>
  /\ orders[o] # None
  /\ orders'[o].side = orders[o].side
  /\ orders'[o].kind = orders[o].kind
  /\ orders'[o].reduceOnly = orders[o].reduceOnly
  /\ orders'[o].state = "live" => orders[o].state = "live"

\* After the step only open orders and t are known, and t still is.
Watches(t) ==
  /\ \A o \in OrderIds : orders'[o] # None => o = t \/ orders'[o].state = "live"
  /\ t \in OrderIds => (orders[t] # None => orders'[t] # None)

Passive(t) == orders' \in Books /\ Shrinks /\ Watches(t)

\* Keeping what later requests can be about adds and changes nothing.
LEMMA ForgetPassive ==
  ASSUME orders \in Books, NEW t, orders' = Known(orders, t)
  PROVE  Passive(t)
BY DEF Books, Known, Passive, Shrinks, Watches

\* A cancelled order stays what it was.
LEMMA MarkPassive ==
  ASSUME orders \in Books, NEW o \in OrderIds, Live(o), NEW t,
         MarkCanceled(o, t)
  PROVE  Passive(t) /\ net' = net
<1> DEFINE book == [orders EXCEPT ![o].state = "canceled"]
<1>1. book \in Books
  BY DEF Books, Live, Order
<1>2. orders' = Known(book, t) /\ net' = net
  BY DEF MarkCanceled
<1>3. \A p \in OrderIds : p # o => book[p] = orders[p]
  BY DEF Books
<1>4. /\ book[o] # None /\ orders[o] # None
      /\ book[o].side = orders[o].side
      /\ book[o].kind = orders[o].kind
      /\ book[o].reduceOnly = orders[o].reduceOnly
      /\ orders[o].state = "live"
  BY NoneAssumption DEF Books, Live, Order
<1> HIDE DEF book
<1>5. \A p \in OrderIds :
        orders'[p] = IF book[p] # None /\ (book[p].state = "live" \/ p = t)
                     THEN book[p] ELSE None
  BY <1>2 DEF Known
<1>6. orders' \in Books
  BY <1>1, <1>2 DEF Known, Books
<1>7. Shrinks
  BY <1>3, <1>4, <1>5 DEF Shrinks
<1>8. Watches(t)
  BY <1>3, <1>4, <1>5 DEF Watches
<1> QED BY <1>2, <1>6, <1>7, <1>8 DEF Passive

\* A filled order stays what it was; the net position moves by the fill.
LEMMA FillPassive ==
  ASSUME orders \in Books, net \in Int, NEW o \in OrderIds,
         NEW q \in Nat \ {0}, NEW t, Fill(o, q, t)
  PROVE  /\ Passive(t)
         /\ net' = net + Signed(orders[o].side, q) /\ net' \in Int
         /\ orders[o].reduceOnly => CanReduce(orders[o].side) /\ q <= Abs(net)
         /\ Live(o)
<1> DEFINE after == orders[o].done + q
           state == IF after = orders[o].size THEN "filled" ELSE "live"
           book == [orders EXCEPT ![o].done = @ + q, ![o].state = state]
<1>0. orders[o] \in Order /\ orders[o] # None /\ orders[o].state = "live"
  BY NoneAssumption DEF Fill, Live, Books
<1>a. book = [orders EXCEPT ![o] = [orders[o] EXCEPT !.done = after, !.state = state]]
  BY <1>0 DEF Books
<1>b. [orders[o] EXCEPT !.done = after, !.state = state] \in Order
  <2>1. after \in Nat /\ state \in {"live", "filled", "canceled"}
    BY <1>0 DEF Order
  <2> HIDE DEF after, state
  <2> QED BY <1>0, <2>1 DEF Order
<1>1. book \in Books
  BY <1>a, <1>b DEF Books
<1>2. orders' = Known(book, t)
  BY DEF Fill
<1>3. \A p \in OrderIds : p # o => book[p] = orders[p]
  BY <1>a DEF Books
<1>4. /\ book[o] # None
      /\ book[o].side = orders[o].side
      /\ book[o].kind = orders[o].kind
      /\ book[o].reduceOnly = orders[o].reduceOnly
  BY <1>0, <1>a, <1>b, NoneAssumption DEF Books, Order
<1> HIDE DEF book
<1>5. \A p \in OrderIds :
        orders'[p] = IF book[p] # None /\ (book[p].state = "live" \/ p = t)
                     THEN book[p] ELSE None
  BY <1>2 DEF Known
<1>6. orders' \in Books
  BY <1>1, <1>2 DEF Known, Books
<1>7. Shrinks
  BY <1>0, <1>3, <1>4, <1>5 DEF Shrinks
<1>8. Watches(t)
  BY <1>3, <1>4, <1>5 DEF Watches
<1>9. net' = net + Signed(orders[o].side, q) /\ net' \in Int
  BY DEF Fill, Signed
<1> QED BY <1>6, <1>7, <1>8, <1>9 DEF Passive, Fill

\* A step that adds one order and changes no other.
Adds(o, order, t) ==
  /\ orders' \in Books
  /\ orders[o] = None
  /\ orders'[o] = order
  /\ \A p \in OrderIds : p # o /\ orders'[p] # None => orders'[p] = orders[p]
  /\ Watches(t)

\* An accepted limit order is added to the book.
LEMMA RestAdds ==
  ASSUME orders \in Books, NEW o \in OrderIds, NEW order \in Order,
         order.state = "live", NEW t, Rest(o, order, t)
  PROVE  Adds(o, order, t) /\ net' = net
BY NoneAssumption DEF Books, Rest, Unused, Known, Adds, Watches

\* A new order is an open order.
LEMMA NewOrderType ==
  ASSUME NEW side \in Sides, NEW kind \in Kinds, NEW flag \in BOOLEAN,
         NEW size \in Lots
  PROVE  /\ NewOrder(side, kind, flag, size) \in Order
         /\ NewOrder(side, kind, flag, size).side = side
         /\ NewOrder(side, kind, flag, size).kind = kind
         /\ NewOrder(side, kind, flag, size).reduceOnly = flag
         /\ NewOrder(side, kind, flag, size).state = "live"
BY DEF NewOrder, Order, Lots

---------------------------------------------------------------------------
(* The values the locals take.                                             *)

\* The iteration starts with nothing read.
LEMMA BlankType == Blank \in Iteration
BY DEF Blank, Iteration, Sides

\* A position that is restored or filled is well formed and on the side of
\* its lots.
LEMMA PositionType ==
  ASSUME NEW n \in Int \ {0}, NEW age \in Ages
  PROVE  /\ PositionOf(n, age) \in ActivePosition
         /\ PositionOf(n, age).side = PositionSide(n)
BY AttemptsAssumption DEF PositionOf, ActivePosition, PositionSide, Abs, Lots, Ages

\* A failed attempt leaves the position what it is.
LEMMA AttemptType ==
  ASSUME NEW position \in ActivePosition
  PROVE  /\ AttemptFailed(position) \in ActivePosition
         /\ AttemptFailed(position).side = position.side
         /\ AttemptFailed(position).size = position.size
         /\ AttemptFailed(position) # None
<1>1. Least(position.attempts + 1, ExitMaxAttempts) \in 0..ExitMaxAttempts
  BY AttemptsAssumption DEF Least, ActivePosition
<1>2. AttemptFailed(position) =
        [position EXCEPT !.attempts = Least(position.attempts + 1, ExitMaxAttempts)]
  BY DEF AttemptFailed
<1>3. /\ AttemptFailed(position) \in ActivePosition
      /\ AttemptFailed(position).side = position.side
      /\ AttemptFailed(position).size = position.size
  BY <1>1, <1>2 DEF ActivePosition
<1> QED BY <1>3, NoneAssumption

\* Time changes nothing but the age of a position.
LEMMA AgedType ==
  ASSUME NEW position \in ActivePosition \cup {None},
         NEW older \in Aged(position)
  PROVE  /\ older \in ActivePosition \cup {None}
         /\ older = None <=> position = None
         /\ position # None => /\ older.side = position.side
                               /\ older.size = position.size
<1>1. CASE position = None
  BY <1>1 DEF Aged
<1>2. CASE position # None
  <2>1. PICK a \in Ages : older = [position EXCEPT !.age = a]
    BY <1>2 DEF Aged
  <2>2. older \in ActivePosition /\ older.side = position.side
          /\ older.size = position.size
    BY <1>2, <2>1 DEF ActivePosition
  <2> QED BY <1>2, <2>2, NoneAssumption
<1> QED BY <1>1, <1>2

\* Time changes nothing but the waiting of an order.
LEMMA OlderType ==
  ASSUME NEW order \in ActiveOrder \cup {None},
         NEW older \in Older(order)
  PROVE  /\ older \in ActiveOrder \cup {None}
         /\ older = None <=> order = None
         /\ order # None => /\ older.id = order.id
                            /\ older.side = order.side
                            /\ older.purpose = order.purpose
                            /\ older.reduceOnly = order.reduceOnly
<1>1. CASE order = None
  BY <1>1 DEF Older
<1>2. CASE order # None
  <2>1. PICK w \in Waits : older = [order EXCEPT !.wait = w]
    BY <1>2 DEF Older
  <2>2. /\ older \in ActiveOrder
        /\ older.id = order.id /\ older.side = order.side
        /\ older.purpose = order.purpose
        /\ older.reduceOnly = order.reduceOnly
    BY <1>2, <2>1 DEF ActiveOrder
  <2> QED BY <1>2, <2>2, NoneAssumption
<1> QED BY <1>1, <1>2

\* A placed order is tracked as what it is.
LEMMA TrackType ==
  ASSUME NEW o \in OrderIds, NEW order \in Order,
         NEW purpose \in {"entry", "exit"}
  PROVE  /\ Track(o, order, purpose) \in ActiveOrder
         /\ Track(o, order, purpose).id = o
         /\ Track(o, order, purpose).side = order.side
         /\ Track(o, order, purpose).reduceOnly = order.reduceOnly
         /\ Track(o, order, purpose).purpose = purpose
BY DEF Track, ActiveOrder, Order, Waits

\* A repriced order is tracked under its new identifier.
LEMMA MovedType ==
  ASSUME NEW order \in ActiveOrder, NEW o \in OrderIds
  PROVE  LET moved == [order EXCEPT !.id = o, !.wait = 0]
         IN /\ moved \in ActiveOrder /\ moved.id = o
            /\ moved.side = order.side /\ moved.purpose = order.purpose
            /\ moved.reduceOnly = order.reduceOnly
<1>1. 0 \in Waits
  BY DEF Waits
<1> QED BY <1>1 DEF ActiveOrder

\* An adopted order is an open order on the exit side.
LEMMA AdoptedType ==
  ASSUME NEW position \in ActivePosition, NEW order \in Adopted(position),
         order # None
  PROVE  /\ order \in ActiveOrder
         /\ Live(order.id)
         /\ orders[order.id].side = ExitSide(position)
         /\ order.side = ExitSide(position)
         /\ order.reduceOnly /\ order.purpose = "exit"
<1>1. PICK o \in ExitOrders(position) :
        order = [id |-> o, side |-> ExitSide(position), purpose |-> "exit",
                 reduceOnly |-> TRUE, size |-> position.size, wait |-> 0]
  BY DEF Adopted
<1>2. o \in OrderIds /\ Live(o) /\ orders[o].side = ExitSide(position)
  BY DEF ExitOrders, LiveOrders
<1> QED
  BY <1>1, <1>2 DEF ActiveOrder, ActivePosition, Sides, Waits, ExitSide

\* The three requests that place orders.
LEMMA EntryType ==
  ASSUME TypeOK
  PROVE  /\ Entry \in Order /\ Entry.side = iter.side
         /\ ~Entry.reduceOnly /\ Entry.kind = "signal" /\ Entry.state = "live"
<1>1. iter.side \in Sides
  BY DEF TypeOK, Iteration
<1> QED BY <1>1, OrderSizeAssumption DEF Entry, NewOrder, Order, Kinds, Lots

\* An exit is an order on the closing side, reduce-only.
LEMMA ExitType ==
  ASSUME TypeOK, activePosition # None
  PROVE  /\ Exit \in Order /\ Exit.side = ExitSide(activePosition)
         /\ Exit.reduceOnly /\ Exit.kind = "exit" /\ Exit.state = "live"
<1>1. ExitSide(activePosition) \in Sides /\ activePosition.size \in Lots
  BY DEF TypeOK, ActivePosition, ExitSide, Sides
<1> QED BY <1>1 DEF Exit, NewOrder, Order, Kinds, Lots

\* A replacement is like the order it replaces.
LEMMA ReplacementType ==
  ASSUME TypeOK, activeOrder # None
  PROVE  /\ Replacement \in Order /\ Replacement.side = activeOrder.side
         /\ Replacement.reduceOnly = activeOrder.reduceOnly
         /\ Replacement.kind = activeOrder.purpose /\ Replacement.state = "live"
<1>1. /\ activeOrder.side \in Sides /\ activeOrder.size \in Lots
      /\ activeOrder.purpose \in Kinds /\ activeOrder.reduceOnly \in BOOLEAN
  BY DEF TypeOK, ActiveOrder, Kinds
<1> DEFINE side == activeOrder.side
           kind == activeOrder.purpose
           flag == activeOrder.reduceOnly
           size == activeOrder.size
<1>2. Replacement = NewOrder(side, kind, flag, size)
  BY DEF Replacement
<1>3. side \in Sides /\ kind \in Kinds /\ flag \in BOOLEAN /\ size \in Lots
  BY <1>1
<1> HIDE DEF side, kind, flag, size
<1>4. /\ Replacement \in Order /\ Replacement.side = side
      /\ Replacement.kind = kind /\ Replacement.reduceOnly = flag
      /\ Replacement.state = "live"
  BY <1>2, <1>3, NewOrderType
<1> QED BY <1>4 DEF side, kind, flag, size

---------------------------------------------------------------------------
(* What a step of the system does to the exchange.                         *)

\* A step that leaves the exchange alone is passive.
LEMMA SamePassive ==
  ASSUME TypeOK, Tracking, UNCHANGED exchangeVars
  PROVE  Passive(tracked) /\ net' = net
BY DEF TypeOK, Tracking, exchangeVars, Passive, Shrinks, Watches, Books,
       tracked, Tracked

\* Canceling an order is passive.
LEMMA CancelPassive ==
  ASSUME TypeOK, Tracking, NEW o \in OrderIds,
         CancelDone(o) \/ CancelUncertain(o)
  PROVE  Passive(tracked) /\ net' = net /\ faults' \in Nat
<1>1. faults' \in Nat
  BY DEF CancelDone, CancelUncertain, Healthy, Faulty, TypeOK
<1>2. CASE UNCHANGED exchangeVars
  BY <1>1, <1>2, SamePassive
<1>3. CASE Live(o) /\ MarkCanceled(o, tracked)
  BY <1>1, <1>3, MarkPassive DEF TypeOK, Books
<1> QED BY <1>2, <1>3 DEF CancelDone, CancelUncertain

\* Not tracking an order any more.
LEMMA DropPassive ==
  ASSUME TypeOK, Forget
  PROVE  Passive(None) /\ net' = net
BY ForgetPassive DEF TypeOK, Books, Forget

\* The market hits an open order.
Filled(o, q) ==
  /\ Passive(tracked')
  /\ Live(o)
  /\ net' = net + Signed(orders[o].side, q)
  /\ orders[o].reduceOnly => CanReduce(orders[o].side) /\ q <= Abs(net)

\* A limit order is added by the request the loop is at.
Placed(o) ==
  /\ net' = net
  /\ \/ pc = "placeEntry" /\ Adds(o, Entry, tracked')
     \/ pc = "replace" /\ Adds(o, Replacement, tracked')
     \/ pc = "placeExit" /\ Adds(o, Exit, tracked')

\* A market exit is carried out, and tracked or not.
Taken ==
  /\ pc = "placeExit"
  /\ TakeMarket(Exit)
  /\ \/ Passive(tracked')
     \/ \E o \in OrderIds : 
          Adds(o, [Exit EXCEPT !.done = Exit.size, !.state = "filled"], tracked')

\* What the loop's own steps do, and what any step does.
LoopEffect ==
  \/ Passive(tracked') /\ net' = net
  \/ \E o \in OrderIds : Placed(o)
  \/ Taken

Effect == LoopEffect \/ \E o \in OrderIds, q \in Nat \ {0} : Filled(o, q)

\* The request of the current await is carried out by the exchange.
LEMMA CarriedOutEffect ==
  ASSUME TypeOK, Control, CarriedOut(tracked')
  PROVE  LoopEffect
<1> USE DEF LoopEffect
<1>0. orders \in Books
  BY DEF TypeOK, Books
<1>1. ASSUME pc = "placeEntry", NEW o \in OrderIds, Rest(o, Entry, tracked')
      PROVE  Placed(o)
  BY <1>0, <1>1, EntryType, RestAdds DEF Placed
<1>2. ASSUME pc = "replace", NEW o \in OrderIds, Rest(o, Replacement, tracked')
      PROVE  Placed(o)
  <2>1. activeOrder # None
    BY <1>2 DEF Control, OrderSteps
  <2> QED BY <1>0, <1>2, <2>1, ReplacementType, RestAdds DEF Placed
<1>3. ASSUME pc = "placeExit", NEW o \in OrderIds, Rest(o, Exit, tracked')
      PROVE  Placed(o)
  <2>1. activePosition # None
    BY <1>3 DEF Control, HoldSteps
  <2> QED BY <1>0, <1>3, <2>1, ExitType, RestAdds DEF Placed
<1>4. ASSUME pc = "placeExit", TakeMarket(Exit), orders' = Known(orders, tracked')
      PROVE  Taken
  BY <1>0, <1>4, ForgetPassive DEF Taken
<1> QED BY <1>1, <1>2, <1>3, <1>4 DEF CarriedOut

\* An iteration at its start or with its snapshots.
LEMMA SnapshotEffect ==
  ASSUME TypeOK, Control, Tracking, Boot \/ Snapshot
  PROVE  LoopEffect
<1> USE DEF LoopEffect
<1>1. CASE BootRestore
  <2>1. activeOrder = None /\ orders' = orders /\ net' = net
    BY <1>1 DEF BootRestore, Control, exchangeVars
  <2>2. \A o \in OrderIds : orders[o] # None => orders[o].state = "live"
    BY <2>1, NoneAssumption DEF Tracking, tracked, Tracked
  <2>3. orders' \in Books
    BY <2>1 DEF TypeOK, Books
  <2>4. Passive(tracked')
    BY <2>1, <2>2, <2>3 DEF Passive, Shrinks, Watches
  <2> QED BY <2>1, <2>4
<1>2. CASE Head
  <2>1. activeOrder' \in Older(activeOrder) /\ UNCHANGED exchangeVars
    BY <1>2 DEF Head
  <2>2. tracked' = tracked
    BY <2>1, OlderType DEF TypeOK, tracked, Tracked
  <2> QED BY <2>1, <2>2, SamePassive
<1>3. CASE CancelListed
  <2>1. PICK o \in iter.toCancel : CancelDone(o) \/ CancelUncertain(o)
    BY <1>3 DEF CancelListed
  <2>2. o \in OrderIds
    BY <2>1 DEF TypeOK, Iteration
  <2>3. tracked' = tracked
    BY <1>3 DEF CancelListed, KeepLocal, tracked
  <2> QED BY <2>1, <2>2, <2>3, CancelPassive
<1>4. CASE ~(BootRestore \/ Head \/ CancelListed)
  <2>1. UNCHANGED <<exchangeVars, activeOrder>>
    BY <1>4 DEF Boot, Snapshot, BootSnapshotFails, BootPositions, BootFlat,
         BootWithoutPrice, BootDone, HeadUnhealthy, ReadOpenOrders,
         ReadPositions, ReadFails, Reconcile, GiveUp, KeepLocal
  <2>2. tracked' = tracked
    BY <2>1 DEF tracked
  <2> QED BY <2>1, <2>2, SamePassive
<1> QED BY <1>1, <1>2, <1>3, <1>4

\* The branch for an active order.
LEMMA OrderEffect ==
  ASSUME TypeOK, Control, Tracking, OrderBranch \/ Reprice \/ Timeout
  PROVE  LoopEffect
<1> USE DEF LoopEffect
<1>0. pc \in OrderSteps => activeOrder # None /\ tracked = activeOrder.id
                           /\ activeOrder.id \in OrderIds
  BY DEF TypeOK, Control, tracked, Tracked, ActiveOrder
<1>1. CASE UNCHANGED <<exchangeVars, activeOrder>>
  <2>1. tracked' = tracked
    BY <1>1 DEF tracked
  <2> QED BY <1>1, <2>1, SamePassive
<1>2. CASE activeOrder' = None /\ Forget
  <2>1. tracked' = None
    BY <1>2 DEF tracked, Tracked
  <2> QED BY <1>2, <2>1, DropPassive
<1>3. CASE CancelForReprice \/ CancelForTimeout
  <2>1. CancelDone(activeOrder.id) \/ CancelUncertain(activeOrder.id)
    BY <1>3 DEF CancelForReprice, CancelForTimeout
  <2>2. activeOrder.id \in OrderIds
    BY <1>0, <1>3 DEF OrderSteps, CancelForReprice, CancelForTimeout
  <2>3. tracked' = tracked
    BY <1>3 DEF CancelForReprice, CancelForTimeout, KeepLocal, tracked
  <2> QED BY <2>1, <2>2, <2>3, CancelPassive
<1>4. CASE Replace
  <2>1. PICK o \in OrderIds :
          /\ Rest(o, Replacement, o)
          /\ activeOrder' = [activeOrder EXCEPT !.id = o, !.wait = 0]
    BY <1>4 DEF Replace
  <2>2. activeOrder # None /\ pc = "replace"
    BY <1>4 DEF Replace, Control, OrderSteps
  <2>3. tracked' = o
    <3>1. activeOrder' \in ActiveOrder /\ activeOrder'.id = o
      BY <2>1, <2>2, MovedType DEF TypeOK
    <3> QED BY <3>1, NoneAssumption DEF tracked, Tracked
  <2>4. Placed(o)
    BY <2>1, <2>2, <2>3, ReplacementType, RestAdds DEF Placed, TypeOK, Books
  <2> QED BY <2>4
<1>5. CASE VerifyRetry
  <2>1. /\ activeOrder' = None
        /\ \/ Live(activeOrder.id) /\ MarkCanceled(activeOrder.id, None)
           \/ Forget
        /\ pc = "verifyRetry"
    BY <1>5 DEF VerifyRetry, AttemptOver
  <2>2. tracked' = None /\ activeOrder.id \in OrderIds
    BY <1>0, <2>1 DEF tracked, Tracked, OrderSteps
  <2> QED BY <1>2, <2>1, <2>2, MarkPassive DEF TypeOK, Books
<1> QED
  BY <1>1, <1>2, <1>3, <1>4, <1>5
     DEF OrderBranch, Reprice, Timeout, EntryFilled, ExitFilled, Finalize,
         OrderCanceled, OrderRests, RepriceDue, WaitedTooLong,
         ReplacePriceReject, ReplaceSyncReject, Verify, DropOrder, AttemptOver,
         KeepLocal, GiveUp

\* The branches for no position and for a position.
LEMMA PositionEffect ==
  ASSUME TypeOK, Control, Tracking, Flat \/ HoldOrExit \/ PlaceAnswerLost
  PROVE  LoopEffect
<1> USE DEF LoopEffect
<1>0. orders \in Books
  BY DEF TypeOK, Books
<1>1. CASE UNCHANGED <<exchangeVars, activeOrder>>
  <2>1. tracked' = tracked
    BY <1>1 DEF tracked
  <2> QED BY <1>1, <2>1, SamePassive
<1>2. CASE PlaceEntry
  <2>1. PICK o \in OrderIds : /\ Rest(o, Entry, o)
                              /\ activeOrder' = Track(o, Entry, "entry")
    BY <1>2 DEF PlaceEntry
  <2>2. tracked' = o
    BY <2>1, EntryType, TrackType, NoneAssumption DEF tracked, Tracked
  <2>3. Placed(o)
    BY <1>0, <1>2, <2>1, <2>2, EntryType, RestAdds DEF Placed, PlaceEntry
  <2> QED BY <2>3
<1>3. CASE PlaceMakerExit
  <2>1. PICK o \in OrderIds : /\ Rest(o, Exit, o)
                              /\ activeOrder' = Track(o, Exit, "exit")
    BY <1>3 DEF PlaceMakerExit
  <2>2. activePosition # None /\ pc = "placeExit"
    BY <1>3 DEF PlaceMakerExit, Control, HoldSteps
  <2>3. tracked' = o
    BY <2>1, <2>2, ExitType, TrackType, NoneAssumption DEF tracked, Tracked
  <2>4. Placed(o)
    BY <1>0, <2>1, <2>2, <2>3, ExitType, RestAdds DEF Placed
  <2> QED BY <2>4
<1>4. CASE PlaceMarketExit
  <2> DEFINE exit == [Exit EXCEPT !.done = Exit.size, !.state = "filled"]
  <2>1. PICK o \in Unused :
          /\ orders' = Known([orders EXCEPT ![o] = exit], o)
          /\ activeOrder' = Track(o, Exit, "exit")
    BY <1>4 DEF PlaceMarketExit
  <2>2. activePosition # None /\ pc = "placeExit" /\ TakeMarket(Exit)
    BY <1>4 DEF PlaceMarketExit, Control, HoldSteps
  <2>3. o \in OrderIds /\ orders[o] = None
    BY <2>1 DEF Unused
  <2>4. tracked' = o
    BY <2>1, <2>2, <2>3, ExitType, TrackType, NoneAssumption DEF tracked, Tracked
  <2>5. exit \in Order
    BY <2>2, ExitType DEF Order, Lots
  <2> HIDE DEF exit
  <2>6. Adds(o, exit, o)
    BY <1>0, <2>1, <2>3, <2>5, NoneAssumption DEF Adds, Known, Books, Watches
  <2> QED BY <2>2, <2>3, <2>4, <2>6 DEF Taken, exit
<1>5. CASE DrainCompleted
  <2>1. tracked' = tracked
    BY <1>5 DEF DrainCompleted, Ended, Control, tracked, Tracked
  <2> QED BY <1>5, <2>1, SamePassive DEF DrainCompleted
<1>6. CASE PlaceAnswerLost
  <2>1. tracked' = tracked
    BY <1>6 DEF PlaceAnswerLost, GiveUp, KeepLocal, tracked
  <2>2. CASE UNCHANGED exchangeVars
    BY <2>1, <2>2, SamePassive
  <2> QED BY <1>6, <2>1, <2>2, CarriedOutEffect DEF PlaceAnswerLost
<1> QED
  BY <1>1, <1>2, <1>3, <1>4, <1>5, <1>6
     DEF Flat, HoldOrExit, NoDecision, Decide, EntryPriceReject, Hold,
         TriggerExit, ExitPriceReject, ExitSyncReject, SyncCheck, SyncClose,
         KeepLocal, GiveUp

\* What happens between two steps of the loop adds no order.
LEMMA OutsideEffect ==
  ASSUME TypeOK, Tracking, RequestDrain \/ Market
  PROVE  \/ Passive(tracked') /\ net' = net
         \/ \E o \in OrderIds, q \in Nat \ {0} : Filled(o, q)
<1>1. tracked' = tracked
  BY DEF RequestDrain, Market, localVars, tracked
<1>2. orders \in Books /\ net \in Int
  BY DEF TypeOK, Books
<1>3. CASE RequestDrain
  BY <1>1, <1>3, SamePassive DEF RequestDrain
<1>4. CASE Market
  <2>1. PICK o \in OrderIds : \/ \E q \in 1..MaxNet : Fill(o, q, tracked)
                              \/ CancelUnasked(o, tracked)
    BY <1>4 DEF Market
  <2>2. ASSUME NEW q \in 1..MaxNet, Fill(o, q, tracked)
        PROVE  q \in Nat \ {0} /\ Filled(o, q)
    <3>1. q \in Nat \ {0}
      BY MaxNetAssumption
    <3> QED BY <1>1, <1>2, <2>2, <3>1, FillPassive DEF Filled
  <2>3. ASSUME CancelUnasked(o, tracked)
        PROVE  Passive(tracked') /\ net' = net
    BY <1>1, <1>2, <2>3, MarkPassive DEF CancelUnasked
  <2> QED BY <2>1, <2>2, <2>3
<1> QED BY <1>3, <1>4

\* A step of the loop, its end and its start.
LEMMA LoopStepEffect ==
  ASSUME TypeOK, Control, Tracking, LoopStep \/ Abort \/ Start
  PROVE  LoopEffect
<1>1. CASE LoopStep
  BY <1>1, SnapshotEffect, OrderEffect, PositionEffect DEF LoopStep
<1>2. CASE Abort
  <2>1. tracked' = None
    BY <1>2 DEF Abort, Ended, tracked, Tracked
  <2> QED BY <1>2, <2>1, DropPassive, CarriedOutEffect DEF Abort, LoopEffect
<1>3. CASE Start
  <2>1. tracked' = tracked /\ UNCHANGED exchangeVars
    BY <1>3 DEF Start, tracked
  <2> QED BY <2>1, SamePassive DEF LoopEffect
<1> QED BY <1>1, <1>2, <1>3

\* Every step has one of the effects.
LEMMA NextEffect ==
  ASSUME TypeOK, Control, Tracking, Next
  PROVE  Effect
BY LoopStepEffect, OutsideEffect DEF Next, Effect, LoopEffect

---------------------------------------------------------------------------
(* Types.                                                                  *)

\* Whatever a step does to the exchange, book and position keep their types.
LEMMA EffectTypes ==
  ASSUME TypeOK, Control, Effect
  PROVE  orders' \in Books /\ net' \in Int
<1>0. net \in Int
  BY DEF TypeOK
<1>1. CASE Passive(tracked') /\ net' = net
  BY <1>0, <1>1 DEF Passive
<1>2. ASSUME NEW o \in OrderIds, NEW q \in Nat \ {0}, Filled(o, q)
      PROVE  orders' \in Books /\ net' \in Int
  BY <1>0, <1>2 DEF Filled, Passive, Signed
<1>3. ASSUME NEW o \in OrderIds, Placed(o)
      PROVE  orders' \in Books /\ net' \in Int
  BY <1>0, <1>3 DEF Placed, Adds
<1>4. CASE Taken
  <2>1. activePosition # None
    BY <1>4 DEF Taken, Control, HoldSteps
  <2>2. Exit.size \in Nat
    BY <2>1, ExitType DEF Order, Lots
  <2>3. net' = net + Signed(Exit.side, Least(Exit.size, Abs(net)))
    BY <1>4 DEF Taken, TakeMarket
  <2>4. net' \in Int
    BY <1>0, <2>2, <2>3 DEF Signed, Least, Abs
  <2>5. orders' \in Books
    BY <1>4 DEF Taken, Passive, Adds
  <2> QED BY <2>4, <2>5
<1> QED BY <1>1, <1>2, <1>3, <1>4 DEF Effect, LoopEffect

\* The types of everything but the exchange.
LocalTypes ==
  /\ pc \in Steps
  /\ iter \in Iteration
  /\ activeOrder \in ActiveOrder \cup {None}
  /\ activePosition \in ActivePosition \cup {None}
  /\ cooldown \in BOOLEAN
  /\ draining \in BOOLEAN
  /\ faults \in Nat /\ starts \in Nat /\ decisions \in Nat

\* A position restored from the exchange is one the loop can hold.
LEMMA FromOkxType ==
  ASSUME TypeOK, iter.seen # 0
  PROVE  FromOkx(iter.seen) \subseteq ActivePosition
<1>1. iter.seen \in Int \ {0}
  BY DEF TypeOK, Iteration
<1> QED BY <1>1, PositionType DEF FromOkx

\* The start keeps the types of the local variables.
LEMMA BootTypes ==
  ASSUME TypeOK, Boot
  PROVE  LocalTypes'
<1> USE DEF LocalTypes, TypeOK, GiveUp, EndIteration, KeepLocal, SameBounds,
           Healthy, Faulty
<1>1. CASE BootSnapshotFails
  BY <1>1, BlankType DEF BootSnapshotFails, Steps
<1>2. CASE BootPositions
  BY <1>2 DEF BootPositions, Iteration, Steps
<1>3. CASE BootFlat
  BY <1>3 DEF BootFlat, Iteration, LiveOrders, Steps
<1>4. CASE BootRestore
  <2>1. PICK position \in FromOkx(iter.seen) :
          /\ activePosition' = position
          /\ activeOrder' \in Adopted(position)
          /\ iter' = [iter EXCEPT !.toCancel = LiveOrders \ ExitOrders(position)]
    BY <1>4 DEF BootRestore
  <2>2. position \in ActivePosition
    BY <1>4, FromOkxType DEF BootRestore
  <2>3. activeOrder' \in ActiveOrder \cup {None}
    BY <2>1, <2>2, AdoptedType
  <2>4. iter' \in Iteration
    BY <2>1 DEF Iteration, LiveOrders
  <2> QED BY <1>4, <2>1, <2>2, <2>3, <2>4 DEF BootRestore, Steps
<1>5. CASE BootWithoutPrice
  BY <1>5, BlankType DEF BootWithoutPrice, Steps
<1>6. CASE BootDone
  BY <1>6, BlankType DEF BootDone, Steps
<1> QED BY <1>1, <1>2, <1>3, <1>4, <1>5, <1>6 DEF Boot

\* Reading the snapshots keeps the types of the local variables.
LEMMA SnapshotTypes ==
  ASSUME TypeOK, Control, Snapshot
  PROVE  LocalTypes'
<1> USE DEF LocalTypes, TypeOK, GiveUp, EndIteration, Goto, KeepLocal,
           SameBounds, Healthy, Faulty
<1>1. CASE Head
  <2>1. activeOrder' \in ActiveOrder \cup {None}
    BY <1>1, OlderType DEF Head
  <2>2. activePosition' \in ActivePosition \cup {None}
    BY <1>1, AgedType DEF Head
  <2> QED BY <1>1, <2>1, <2>2 DEF Head, Steps
<1>2. CASE HeadUnhealthy
  BY <1>2, BlankType DEF HeadUnhealthy, Steps
<1>3. CASE ReadOpenOrders
  <2>1. iter' \in Iteration
    BY <1>3 DEF ReadOpenOrders, Iteration, LiveOrders
  <2> QED BY <1>3, <2>1 DEF ReadOpenOrders, Steps
<1>4. CASE ReadPositions
  BY <1>4 DEF ReadPositions, Iteration, Steps
<1>5. CASE ReadFails
  BY <1>5, BlankType DEF ReadFails, Steps
<1>6. CASE CancelListed
  <2>1. iter' \in Iteration
    BY <1>6 DEF CancelListed, Iteration
  <2>2. faults' \in Nat
    BY <1>6 DEF CancelListed, CancelDone, CancelUncertain
  <2> QED BY <1>6, <2>1, <2>2 DEF CancelListed
<1>7. CASE Reconcile
  <2>1. activePosition' \in ActivePosition \cup {None}
    BY <1>7, FromOkxType DEF Reconcile
  <2>2. iter' \in Iteration
    BY <1>7 DEF Reconcile, Iteration
  <2>3. faults' \in Nat
    BY <1>7 DEF Reconcile
  <2> QED BY <1>7, <2>1, <2>2, <2>3 DEF Reconcile, Branch, Steps
<1> QED BY <1>1, <1>2, <1>3, <1>4, <1>5, <1>6, <1>7 DEF Snapshot

\* An attempt that is over leaves well-typed locals.
LEMMA AttemptOverTypes ==
  ASSUME TypeOK, AttemptOver, SameBounds, faults' \in Nat
  PROVE  LocalTypes'
<1>1. activePosition' \in ActivePosition \cup {None}
  BY AttemptType DEF AttemptOver, TypeOK
<1>2. pc' \in Steps /\ iter' \in Iteration
  BY DEF AttemptOver, Goto, Branch, Steps, TypeOK
<1> QED BY <1>1, <1>2 DEF AttemptOver, LocalTypes, TypeOK, SameBounds

\* The position a filled entry leaves is on the side of the entry.
LEMMA EntryFilledType ==
  ASSUME TypeOK, Control, Tracking, EntryFilled
  PROVE  /\ activePosition' \in ActivePosition
         /\ activePosition'.side = IF activeOrder.side = "buy" THEN "long" ELSE "short"
<1>1. activeOrder \in ActiveOrder /\ activeOrder.id \in OrderIds
  BY DEF TypeOK, Control, OrderSteps, EntryFilled, ActiveOrder
<1>2. current \in Order /\ current.side = activeOrder.side
  BY <1>1, NoneAssumption DEF current, Tracking, TypeOK
<1> DEFINE n == Signed(current.side, current.size)
<1>3. n \in Int \ {0} /\ (n > 0 <=> activeOrder.side = "buy")
  BY <1>2 DEF Order, Signed, Lots
<1>4. activePosition' = PositionOf(n, 0) /\ 0 \in Ages
  BY DEF EntryFilled, Ages
<1> HIDE DEF n
<1> QED BY <1>3, <1>4, PositionType DEF PositionSide

\* Managing an order keeps the types of the local variables.
LEMMA OrderTypes ==
  ASSUME TypeOK, Control, Tracking, OrderBranch \/ Reprice \/ Timeout
  PROVE  LocalTypes'
<1> USE DEF LocalTypes, TypeOK, GiveUp, EndIteration, Goto, KeepLocal,
           SameBounds, Healthy, Faulty
<1>0. pc \in OrderSteps => activeOrder \in ActiveOrder
  BY DEF Control
<1>1. CASE EntryFilled
  <2>4. activePosition' \in ActivePosition
    BY <1>1, EntryFilledType
  <2>5. iter' \in Iteration
    BY <1>1 DEF EntryFilled, Iteration
  <2> QED BY <1>1, <2>4, <2>5 DEF EntryFilled, DropOrder, Steps
<1>2. CASE ExitFilled
  BY <1>2 DEF ExitFilled, Steps
<1>3. CASE Finalize
  <2>1. iter' \in Iteration
    BY <1>3 DEF Finalize, Iteration
  <2> QED BY <1>3, <2>1 DEF Finalize, ClosePosition, DropOrder, Steps
<1>4. CASE OrderCanceled
  BY <1>4, AttemptOverTypes DEF OrderCanceled
<1>5. CASE OrderRests \/ ReplacePriceReject
  BY <1>5, BlankType DEF OrderRests, ReplacePriceReject, DropOrder, Steps
<1>6. CASE RepriceDue \/ WaitedTooLong
  BY <1>6 DEF RepriceDue, WaitedTooLong, Steps
<1>7. CASE CancelForReprice \/ CancelForTimeout
  <2>1. faults' \in Nat
    BY <1>7 DEF CancelForReprice, CancelForTimeout, CancelDone, CancelUncertain
  <2>2. pc' \in Steps /\ iter' \in Iteration
    BY <1>7, BlankType DEF CancelForReprice, CancelForTimeout, Steps
  <2> QED BY <1>7, <2>1, <2>2 DEF CancelForReprice, CancelForTimeout
<1>8. CASE Replace
  <2>1. activeOrder' \in ActiveOrder
    <3>1. PICK o \in OrderIds :
            activeOrder' = [activeOrder EXCEPT !.id = o, !.wait = 0]
      BY <1>8 DEF Replace
    <3>2. activeOrder \in ActiveOrder
      BY <1>0, <1>8 DEF Replace, OrderSteps
    <3> QED BY <3>1, <3>2, MovedType
  <2> QED BY <1>8, <2>1, BlankType DEF Replace, Steps
<1>9. CASE ReplaceSyncReject
  BY <1>9, BlankType DEF ReplaceSyncReject, DropOrder, Steps
<1>10. CASE Verify
  <2>1. CASE AttemptOver
    BY <1>10, <2>1, AttemptOverTypes DEF Verify
  <2>2. CASE ~AttemptOver
    BY <1>10, <2>2, BlankType DEF Verify, Steps
  <2> QED BY <2>1, <2>2
<1>11. CASE VerifyRetry
  <2>1. faults' \in Nat
    BY <1>11 DEF VerifyRetry
  <2> QED BY <1>11, <2>1, AttemptOverTypes DEF VerifyRetry
<1> QED
  BY <1>1, <1>2, <1>3, <1>4, <1>5, <1>6, <1>7, <1>8, <1>9, <1>10, <1>11
     DEF OrderBranch, Reprice, Timeout

\* Entering, holding and exiting keep the types of the local variables.
LEMMA PositionTypes ==
  ASSUME TypeOK, Control, Flat \/ HoldOrExit \/ PlaceAnswerLost
  PROVE  LocalTypes'
<1> USE DEF LocalTypes, TypeOK, GiveUp, EndIteration, Goto, KeepLocal,
           SameBounds, Healthy, Faulty
<1>1. CASE NoDecision \/ EntryPriceReject \/ Hold \/ ExitPriceReject
             \/ PlaceAnswerLost
  BY <1>1, BlankType DEF NoDecision, EntryPriceReject, Hold, ExitPriceReject,
       PlaceAnswerLost, Steps
<1>2. CASE Decide
  <2>1. iter' \in Iteration
    BY <1>2 DEF Decide, Iteration
  <2> QED BY <1>2, <2>1 DEF Decide, Steps
<1>3. CASE PlaceEntry
  <2>1. activeOrder' \in ActiveOrder
    BY <1>3, EntryType, TrackType DEF PlaceEntry
  <2> QED BY <1>3, <2>1, BlankType DEF PlaceEntry, Steps
<1>4. CASE DrainCompleted
  BY <1>4, BlankType DEF DrainCompleted, Ended, Steps
<1>5. CASE TriggerExit \/ ExitSyncReject
  BY <1>5 DEF TriggerExit, ExitSyncReject, Steps
<1>6. CASE PlaceMakerExit \/ PlaceMarketExit
  <2>1. activePosition # None
    BY <1>6 DEF PlaceMakerExit, PlaceMarketExit, Control, HoldSteps
  <2>2. activeOrder' \in ActiveOrder
    <3>1. PICK o \in OrderIds : activeOrder' = Track(o, Exit, "exit")
      BY <1>6 DEF PlaceMakerExit, PlaceMarketExit, Unused
    <3>2. Exit \in Order
      BY <2>1, ExitType
    <3> QED BY <3>1, <3>2, TrackType
  <2> QED BY <1>6, <2>2, BlankType DEF PlaceMakerExit, PlaceMarketExit, Steps
<1>7. CASE SyncCheck
  BY <1>7, BlankType DEF SyncCheck, Steps
<1>8. CASE SyncClose
  BY <1>8, BlankType DEF SyncClose, ClosePosition, Steps
<1> QED BY <1>1, <1>2, <1>3, <1>4, <1>5, <1>6, <1>7, <1>8 DEF Flat, HoldOrExit

\* Every step of the system keeps the type invariant.
LEMMA NextTypes ==
  ASSUME TypeOK, Control, Tracking, [Next]_vars
  PROVE  TypeOK'
<1>1. CASE Next
  <2>1. orders' \in Books /\ net' \in Int
    BY <1>1, NextEffect, EffectTypes
  <2>2. LocalTypes'
    <3>1. CASE LoopStep
      BY <3>1, BootTypes, SnapshotTypes, OrderTypes, PositionTypes DEF LoopStep
    <3>2. CASE Abort
      BY <3>2, BlankType DEF Abort, Ended, SameBounds, Healthy,
           LocalTypes, TypeOK, Steps
    <3>4. CASE Start
      <4>1. starts' \in Nat /\ faults' \in Nat /\ decisions' \in Nat
        BY <3>4 DEF Start, Healthy, TypeOK
      <4>3. pc' \in Steps /\ draining' \in BOOLEAN
        BY <3>4 DEF Start, Goto, Steps
      <4>2. UNCHANGED <<iter, activeOrder, activePosition, cooldown>>
        BY <3>4 DEF Start, Goto
      <4> QED BY <4>1, <4>2, <4>3 DEF LocalTypes, TypeOK
    <3>3. CASE RequestDrain \/ Market
      BY <3>3 DEF RequestDrain, Market, localVars, boundVars, LocalTypes, TypeOK
    <3> QED BY <1>1, <3>1, <3>2, <3>3, <3>4 DEF Next
  <2> QED BY <2>1, <2>2 DEF TypeOK, LocalTypes, Books
<1>2. CASE UNCHANGED vars
  BY <1>2 DEF vars, exchangeVars, localVars, boundVars, TypeOK
<1> QED BY <1>1, <1>2

---------------------------------------------------------------------------
(* Control: where the loop is and what it holds.                           *)

\* An attempt that is over leaves the loop where its locals allow it.
LEMMA AttemptOverControl ==
  ASSUME TypeOK, Control, AttemptOver
  PROVE  Control'
<1>1. activePosition' = None <=> activePosition = None
  BY AttemptType DEF AttemptOver, TypeOK
<1> QED BY <1>1 DEF AttemptOver, Goto, Branch, Control, OrderSteps, HoldSteps

\* The start and the snapshots keep the control invariant.
LEMMA SnapshotControl ==
  ASSUME TypeOK, Control, Boot \/ Snapshot
  PROVE  Control'
<1> USE DEF Control, OrderSteps, HoldSteps, GiveUp, EndIteration, Goto, KeepLocal
<1>1. CASE BootSnapshotFails \/ BootPositions \/ BootFlat \/ BootWithoutPrice
             \/ BootDone
  BY <1>1 DEF BootSnapshotFails, BootPositions, BootFlat, BootWithoutPrice, BootDone
<1>2. CASE BootRestore
  <2>1. activePosition' # None /\ pc' = "bootCancel"
    BY <1>2, FromOkxType, NoneAssumption DEF BootRestore
  <2> QED BY <2>1
<1>3. CASE Head
  <2>1. /\ activeOrder' \in Older(activeOrder)
        /\ activePosition' \in Aged(activePosition)
        /\ pc' = "openOrders" /\ pc = "head"
    BY <1>3 DEF Head
  <2>2. /\ activePosition' = None <=> activePosition = None
        /\ activeOrder' = None <=> activeOrder = None
        /\ activeOrder # None => activeOrder'.purpose = activeOrder.purpose
    BY <2>1, AgedType, OlderType DEF TypeOK
  <2> QED BY <2>1, <2>2
<1>4. CASE HeadUnhealthy \/ ReadOpenOrders \/ ReadPositions \/ ReadFails
             \/ CancelListed
  BY <1>4 DEF HeadUnhealthy, ReadOpenOrders, ReadPositions, ReadFails, CancelListed
<1>5. CASE Reconcile
  <2>1. activePosition # None => activePosition' = activePosition
    BY <1>5 DEF Reconcile
  <2> QED BY <1>5, <2>1 DEF Reconcile, Branch
<1> QED BY <1>1, <1>2, <1>3, <1>4, <1>5 DEF Boot, Snapshot

\* Managing an order keeps the control invariant.
LEMMA OrderControl ==
  ASSUME TypeOK, Control, Tracking, OrderBranch \/ Reprice \/ Timeout
  PROVE  Control'
<1> USE DEF Control, OrderSteps, HoldSteps, GiveUp, EndIteration, Goto, KeepLocal
<1>1. CASE EntryFilled
  <2>1. activePosition' # None
    BY <1>1, EntryFilledType, NoneAssumption
  <2> QED BY <1>1, <2>1 DEF EntryFilled, DropOrder
<1>2. CASE ExitFilled \/ OrderRests \/ RepriceDue \/ WaitedTooLong
             \/ CancelForReprice \/ CancelForTimeout
  BY <1>2 DEF ExitFilled, OrderRests, RepriceDue, WaitedTooLong,
       CancelForReprice, CancelForTimeout
<1>3. CASE Finalize
  BY <1>3 DEF Finalize, ClosePosition, DropOrder
<1>4. CASE OrderCanceled \/ VerifyRetry
  BY <1>4, AttemptOverControl DEF OrderCanceled, VerifyRetry
<1>5. CASE Replace
  <2>1. activeOrder \in ActiveOrder
    BY <1>5 DEF Replace, TypeOK
  <2>2. activeOrder'.purpose = activeOrder.purpose
    BY <1>5, <2>1, MovedType DEF Replace
  <2> QED BY <1>5, <2>2 DEF Replace
<1>6. CASE ReplacePriceReject \/ ReplaceSyncReject
  BY <1>6 DEF ReplacePriceReject, ReplaceSyncReject, DropOrder
<1>7. CASE Verify
  BY <1>7, AttemptOverControl DEF Verify
<1> QED BY <1>1, <1>2, <1>3, <1>4, <1>5, <1>6, <1>7
       DEF OrderBranch, Reprice, Timeout

\* Entering, holding and exiting keep the control invariant.
LEMMA PositionControl ==
  ASSUME TypeOK, Control, Flat \/ HoldOrExit \/ PlaceAnswerLost
  PROVE  Control'
<1> USE DEF Control, OrderSteps, HoldSteps, GiveUp, EndIteration, Goto, KeepLocal
<1>1. CASE NoDecision \/ Decide \/ EntryPriceReject \/ Hold \/ TriggerExit
             \/ ExitPriceReject \/ ExitSyncReject \/ SyncCheck \/ PlaceAnswerLost
  BY <1>1 DEF NoDecision, Decide, EntryPriceReject, Hold, TriggerExit,
       ExitPriceReject, ExitSyncReject, SyncCheck, PlaceAnswerLost
<1>2. CASE PlaceEntry
  <2>1. activeOrder'.purpose = "entry"
    BY <1>2, EntryType, TrackType DEF PlaceEntry
  <2> QED BY <1>2, <2>1 DEF PlaceEntry
<1>3. CASE PlaceMakerExit \/ PlaceMarketExit
  BY <1>3 DEF PlaceMakerExit, PlaceMarketExit
<1>4. CASE DrainCompleted
  BY <1>4 DEF DrainCompleted, Ended
<1>5. CASE SyncClose
  BY <1>5 DEF SyncClose
<1> QED BY <1>1, <1>2, <1>3, <1>4, <1>5 DEF Flat, HoldOrExit

\* Every step of the system keeps the control invariant.
LEMMA NextControl ==
  ASSUME TypeOK, Control, Tracking, [Next]_vars
  PROVE  Control'
<1>1. CASE LoopStep
  BY <1>1, SnapshotControl, OrderControl, PositionControl DEF LoopStep
<1>2. CASE Abort
  BY <1>2 DEF Abort, Ended, Control, OrderSteps, HoldSteps
<1>3. CASE Start
  BY <1>3 DEF Start, Goto, Control, OrderSteps, HoldSteps
<1>4. CASE RequestDrain \/ Market \/ UNCHANGED vars
  BY <1>4 DEF RequestDrain, Market, vars, localVars, Control
<1> QED BY <1>1, <1>2, <1>3, <1>4 DEF Next

---------------------------------------------------------------------------
(* Tracking: the active order and the order the exchange knows.            *)

\* What Tracking says of the whole book.
BookKept(t) ==
  \A o \in OrderIds : orders[o] # None =>
    /\ o = t \/ orders[o].state = "live"
    /\ orders[o].reduceOnly <=> orders[o].kind = "exit"

\* What it says of the active order.
Described ==
  activeOrder # None =>
    /\ orders[activeOrder.id] # None
    /\ orders[activeOrder.id].side = activeOrder.side
    /\ orders[activeOrder.id].reduceOnly = activeOrder.reduceOnly
    /\ activeOrder.reduceOnly <=> activeOrder.purpose = "exit"

\* The book goes on holding open orders and the managed one only.
LEMMA NextBookKept ==
  ASSUME TypeOK, Control, Tracking, Effect
  PROVE  BookKept(tracked)'
<1>1. ASSUME Passive(tracked')
      PROVE  BookKept(tracked)'
  BY <1>1 DEF Passive, Shrinks, Watches, BookKept, Tracking
<1>2. ASSUME NEW o \in OrderIds, NEW order, Adds(o, order, tracked'),
             order.reduceOnly <=> order.kind = "exit"
      PROVE  BookKept(tracked)'
  BY <1>2 DEF Adds, Watches, BookKept, Tracking
<1>3. ASSUME NEW o \in OrderIds, Placed(o)
      PROVE  BookKept(tracked)'
  <2>1. CASE pc = "placeEntry" /\ Adds(o, Entry, tracked')
    BY <1>2, <2>1, EntryType
  <2>2. CASE pc = "replace" /\ Adds(o, Replacement, tracked')
    <3>1. activeOrder # None
      BY <2>2 DEF Control, OrderSteps
    <3> QED BY <1>2, <2>2, <3>1, ReplacementType DEF Tracking
  <2>3. CASE pc = "placeExit" /\ Adds(o, Exit, tracked')
    <3>1. activePosition # None
      BY <2>3 DEF Control, HoldSteps
    <3> QED BY <1>2, <2>3, <3>1, ExitType
  <2> QED BY <1>3, <2>1, <2>2, <2>3 DEF Placed
<1>4. CASE Taken
  <2> DEFINE exit == [Exit EXCEPT !.done = Exit.size, !.state = "filled"]
  <2>1. activePosition # None
    BY <1>4 DEF Taken, Control, HoldSteps
  <2>2. exit.reduceOnly /\ exit.kind = "exit"
    BY <2>1, ExitType DEF Order
  <2> QED BY <1>1, <1>2, <1>4, <2>2 DEF Taken
<1> QED BY <1>1, <1>3, <1>4 DEF Effect, LoopEffect, Filled

\* An order that goes on being managed is still described as it is.
LEMMA DescribedKept ==
  ASSUME TypeOK, Control, Tracking, Effect,
         activeOrder # None, activeOrder' # None,
         activeOrder'.id = activeOrder.id,
         activeOrder'.side = activeOrder.side,
         activeOrder'.purpose = activeOrder.purpose,
         activeOrder'.reduceOnly = activeOrder.reduceOnly
  PROVE  Described'
<1> DEFINE t == activeOrder.id
<1>1. t \in OrderIds /\ tracked' = t /\ orders[t] # None
  BY DEF TypeOK, ActiveOrder, Tracking, tracked, Tracked
<1>2. SUFFICES /\ orders'[t] # None
               /\ orders'[t].side = orders[t].side
               /\ orders'[t].reduceOnly = orders[t].reduceOnly
  BY DEF Described, Tracking
<1> HIDE DEF t
<1>3. CASE Passive(tracked')
  BY <1>1, <1>3 DEF Passive, Watches, Shrinks
<1>4. ASSUME NEW o \in OrderIds, NEW order, Adds(o, order, tracked')
      PROVE  orders'[t] # None /\ orders'[t] = orders[t]
  BY <1>1, <1>4 DEF Adds, Watches
<1> QED BY <1>3, <1>4 DEF Effect, LoopEffect, Filled, Placed, Taken

\* A position that was found lies in the direction of everything else, so
\* that the orders on its exit side are exits.
LEMMA FoundDirection ==
  ASSUME TypeOK, NEW s \in Sides, Facing(s), iter.seen # 0,
         NEW position \in FromOkx(iter.seen)
  PROVE  ExitSide(position) = Opposite(s)
<1>1. iter.seen \in Int \ {0} /\ Signed(s, iter.seen) >= 0
  BY DEF TypeOK, Iteration, Facing
<1>2. position.side = PositionSide(iter.seen)
  BY <1>1, PositionType DEF FromOkx
<1> QED BY <1>1, <1>2 DEF Signed, Sides, PositionSide, ExitSide, Opposite

\* The steps that change the active order to another than none.
LEMMA ActiveOrderMoves ==
  ASSUME Next
  PROVE  \/ activeOrder' = None \/ UNCHANGED activeOrder
         \/ Head \/ BootRestore \/ Replace
         \/ PlaceEntry \/ PlaceMakerExit \/ PlaceMarketExit
<1> USE DEF GiveUp, KeepLocal, DropOrder, AttemptOver, Ended
<1>1. CASE Boot \/ Snapshot
  BY <1>1 DEF Boot, Snapshot, BootSnapshotFails, BootPositions, BootFlat,
       BootWithoutPrice, BootDone, HeadUnhealthy, ReadOpenOrders, ReadPositions,
       ReadFails, CancelListed, Reconcile
<1>2. CASE OrderBranch \/ Reprice \/ Timeout
  BY <1>2 DEF OrderBranch, Reprice, Timeout, EntryFilled, ExitFilled, Finalize,
       OrderCanceled, OrderRests, RepriceDue, WaitedTooLong, CancelForReprice,
       ReplacePriceReject, ReplaceSyncReject, CancelForTimeout, Verify, VerifyRetry
<1>3. CASE Flat \/ HoldOrExit \/ PlaceAnswerLost
  BY <1>3 DEF Flat, HoldOrExit, PlaceAnswerLost, NoDecision, Decide,
       EntryPriceReject, DrainCompleted, Hold, TriggerExit, ExitPriceReject,
       ExitSyncReject, SyncCheck, SyncClose
<1>4. CASE Abort \/ Start \/ RequestDrain \/ Market
  BY <1>4 DEF Abort, Start, RequestDrain, Market, localVars
<1> QED BY <1>1, <1>2, <1>3, <1>4 DEF Next, LoopStep

\* The tracked order is described right after every step of the loop.
LEMMA NextDescribed ==
  ASSUME IInv, Next, Effect
  PROVE  Described'
<1> USE DEF IInv
<1>0. orders \in Books
  BY DEF TypeOK, Books
<1>1. CASE activeOrder' = None
  BY <1>1 DEF Described
<1>2. CASE activeOrder # None /\ UNCHANGED activeOrder
  BY <1>2, DescribedKept
<1>3. CASE Head /\ activeOrder' # None
  <2>1. activeOrder' \in Older(activeOrder)
    BY <1>3 DEF Head
  <2> QED BY <1>3, <2>1, OlderType, DescribedKept DEF TypeOK
<1>4. CASE BootRestore /\ activeOrder' # None
  <2>1. PICK s \in Sides : Facing(s)
    BY DEF Direction
  <2>2. PICK position \in FromOkx(iter.seen) : activeOrder' \in Adopted(position)
    BY <1>4 DEF BootRestore
  <2>3. iter.seen # 0 /\ orders' = orders
    BY <1>4 DEF BootRestore, exchangeVars
  <2>4. position \in ActivePosition /\ ExitSide(position) = Opposite(s)
    BY <2>1, <2>3, FoundDirection, FromOkxType
  <2>5. /\ activeOrder' \in ActiveOrder /\ Live(activeOrder'.id)
        /\ orders[activeOrder'.id].side = ExitSide(position)
        /\ activeOrder'.side = ExitSide(position)
        /\ activeOrder'.reduceOnly /\ activeOrder'.purpose = "exit"
    BY <1>4, <2>2, <2>4, AdoptedType
  <2>6. orders[activeOrder'.id] \in Order /\ orders[activeOrder'.id] # None
    BY <2>5 DEF ActiveOrder, Live, TypeOK
  <2>7. orders[activeOrder'.id].reduceOnly
    BY <2>1, <2>4, <2>5, <2>6 DEF Facing, Sides, Opposite, ActiveOrder
  <2> QED BY <2>3, <2>5, <2>6, <2>7 DEF Described, Order, ActiveOrder
<1>5. CASE Replace
  <2>1. PICK o \in OrderIds :
          /\ Rest(o, Replacement, o)
          /\ activeOrder' = [activeOrder EXCEPT !.id = o, !.wait = 0]
    BY <1>5 DEF Replace
  <2>2. activeOrder \in ActiveOrder /\ activeOrder # None
    BY <1>5 DEF Replace, Control, OrderSteps, TypeOK
  <2>3. orders'[o] = Replacement
    BY <1>0, <2>1, <2>2, ReplacementType, RestAdds DEF Adds
  <2> QED BY <2>1, <2>2, <2>3, MovedType, ReplacementType, NoneAssumption
          DEF Described, Tracking
<1>6. CASE PlaceEntry
  <2>1. PICK o \in OrderIds : /\ Rest(o, Entry, o)
                              /\ activeOrder' = Track(o, Entry, "entry")
    BY <1>6 DEF PlaceEntry
  <2>2. orders'[o] = Entry
    BY <1>0, <2>1, EntryType, RestAdds DEF Adds
  <2> QED BY <2>1, <2>2, EntryType, TrackType, NoneAssumption DEF Described
<1>7. CASE PlaceMakerExit
  <2>1. PICK o \in OrderIds : /\ Rest(o, Exit, o)
                              /\ activeOrder' = Track(o, Exit, "exit")
    BY <1>7 DEF PlaceMakerExit
  <2>2. activePosition # None
    BY <1>7 DEF PlaceMakerExit, Control, HoldSteps
  <2>3. orders'[o] = Exit
    BY <1>0, <2>1, <2>2, ExitType, RestAdds DEF Adds
  <2> QED BY <2>1, <2>2, <2>3, ExitType, TrackType, NoneAssumption DEF Described
<1>8. CASE PlaceMarketExit
  <2> DEFINE exit == [Exit EXCEPT !.done = Exit.size, !.state = "filled"]
  <2>1. PICK o \in Unused :
          /\ orders' = Known([orders EXCEPT ![o] = exit], o)
          /\ activeOrder' = Track(o, Exit, "exit")
    BY <1>8 DEF PlaceMarketExit
  <2>2. activePosition # None /\ o \in OrderIds
    BY <1>8, <2>1 DEF PlaceMarketExit, Control, HoldSteps, Unused
  <2>3. exit \in Order /\ exit.side = Exit.side /\ exit.reduceOnly = Exit.reduceOnly
    BY <2>2, ExitType DEF Order, Lots
  <2> HIDE DEF exit
  <2>4. orders'[o] = exit
    BY <1>0, <2>1, <2>2, <2>3, NoneAssumption DEF Known, Books
  <2> QED BY <2>1, <2>2, <2>3, <2>4, ExitType, TrackType, NoneAssumption
          DEF Described
<1> QED BY <1>1, <1>2, <1>3, <1>4, <1>5, <1>6, <1>7, <1>8, ActiveOrderMoves

\* Every step of the system keeps the managed order in line with the book.
LEMMA NextTracking ==
  ASSUME IInv, Next
  PROVE  Tracking'
<1>1. Effect
  BY NextEffect DEF IInv
<1>2. BookKept(tracked)' /\ Described'
  BY <1>1, NextBookKept, NextDescribed DEF IInv
<1> QED BY <1>2 DEF BookKept, Described, Tracking

---------------------------------------------------------------------------
(* Snapshots: what the loop has read and what is still true of it.         *)

\* Without a request no order is added to the book.
LEMMA LiveShrinks ==
  ASSUME NEW t, Passive(t)
  PROVE  LiveOrders' \subseteq LiveOrders
BY NoneAssumption DEF Passive, Shrinks, LiveOrders, Live

\* Steps that leave the stretch in which the snapshots matter.
LEMMA LeavesSnapshots ==
  ASSUME pc' \in {"down", "bootPositions", "bootOrders", "bootCancel", "head",
                  "openOrders"} \cup HoldSteps
  PROVE  Snapshots'
BY DEF Snapshots, OrderSteps, HoldSteps

\* The start and the snapshots establish what they read and keep it.
LEMMA SnapshotSteps ==
  ASSUME IInv, Boot \/ Snapshot
  PROVE  Snapshots'
<1> USE DEF IInv, GiveUp, EndIteration, Goto, KeepLocal
<1>1. CASE Boot \/ Head \/ HeadUnhealthy \/ ReadFails
  BY <1>1, LeavesSnapshots DEF Boot, BootSnapshotFails, BootPositions, BootFlat,
       BootRestore, BootWithoutPrice, BootDone, Head, HeadUnhealthy, ReadFails
<1>2. CASE ReadOpenOrders
  <2>1. /\ iter'.hasOrder = (LiveOrders # {} \/ activeOrder # None)
        /\ pc' = "positions" /\ UNCHANGED <<exchangeVars, activeOrder>>
    BY <1>2 DEF ReadOpenOrders, TypeOK, Iteration
  <2>2. LiveOrders' = LiveOrders
    BY <2>1 DEF LiveOrders, Live, exchangeVars
  <2> QED BY <2>1, <2>2 DEF Snapshots, OrderSteps
<1>3. CASE ReadPositions
  <2>1. /\ iter'.hasOrder = iter.hasOrder /\ iter'.seen = net
        /\ iter'.hasPosition = (net # 0 \/ activePosition # None)
        /\ pc = "positions" /\ pc' = "sweep"
        /\ UNCHANGED <<exchangeVars, activeOrder, activePosition>>
    BY <1>3 DEF ReadPositions, TypeOK, Iteration
  <2>2. LiveOrders' = LiveOrders /\ net' = net
    BY <2>1 DEF LiveOrders, Live, exchangeVars
  <2> QED BY <2>1, <2>2 DEF Snapshots, OrderSteps
<1>4. CASE CancelListed
  <2>1. PICK o \in iter.toCancel : CancelDone(o) \/ CancelUncertain(o)
    BY <1>4 DEF CancelListed
  <2>2. o \in OrderIds
    BY <2>1 DEF TypeOK, Iteration
  <2>3. Passive(tracked) /\ net' = net
    BY <2>1, <2>2, CancelPassive
  <2>4. LiveOrders' \subseteq LiveOrders
    BY <2>3, LiveShrinks
  <2>5. /\ iter'.hasOrder = iter.hasOrder /\ iter'.seen = iter.seen
        /\ iter'.hasPosition = iter.hasPosition
        /\ UNCHANGED <<pc, activeOrder, activePosition, cooldown>>
        /\ pc \in {"bootCancel", "sweep"}
    BY <1>4 DEF CancelListed, TypeOK, Iteration
  <2> QED BY <2>3, <2>4, <2>5 DEF Snapshots, OrderSteps
<1>5. CASE Reconcile
  <2>1. /\ iter'.hasOrder = iter.hasOrder /\ iter'.seen = iter.seen
        /\ iter'.hasPosition = (iter.hasPosition \/ activePosition' # None)
        /\ pc = "sweep" /\ UNCHANGED <<exchangeVars, activeOrder, cooldown>>
        /\ pc' = IF activeOrder # None THEN "getOrder"
                 ELSE IF activePosition' = None THEN "flat" ELSE "exit"
    BY <1>5 DEF Reconcile, Branch, TypeOK, Iteration
  <2>2. LiveOrders' = LiveOrders /\ net' = net
    BY <2>1 DEF LiveOrders, Live, exchangeVars
  <2> QED BY <2>1, <2>2 DEF Snapshots, Empty, OrderSteps
<1> QED BY <1>1, <1>2, <1>3, <1>4, <1>5 DEF Snapshot

\* Managing an order keeps what the snapshots allow to conclude.
LEMMA OrderSnapshots ==
  ASSUME IInv, OrderBranch \/ Reprice \/ Timeout
  PROVE  Snapshots'
<1> USE DEF IInv, GiveUp, EndIteration, Goto, KeepLocal
<1>0. pc \in OrderSteps => iter.hasOrder
  BY DEF Snapshots, Control
<1>1. CASE AttemptOver
  <2>1. pc \in OrderSteps
    BY <1>1 DEF OrderBranch, Reprice, Timeout, EntryFilled, ExitFilled, Finalize,
         OrderCanceled, OrderRests, RepriceDue, WaitedTooLong, CancelForReprice,
         Replace, ReplacePriceReject, ReplaceSyncReject, CancelForTimeout,
         Verify, VerifyRetry, OrderSteps
  <2>2. pc' \in {"flat", "exit"} /\ iter' = iter
    BY <1>1 DEF AttemptOver, Branch
  <2> QED BY <1>0, <2>1, <2>2 DEF Snapshots, OrderSteps
<1>2. CASE Finalize
  <2>1. activePosition # None
    BY <1>2 DEF Finalize, Control, OrderSteps
  <2>2. CooldownSec > 0
    BY CooldownAssumption
  <2>3. pc' = "flat" /\ activeOrder' = None
    BY <1>2 DEF Finalize, DropOrder
  <2>4. cooldown'
    BY <1>2, <2>1, <2>2, Zenon DEF Finalize, ClosePosition
  <2> QED BY <2>3, <2>4 DEF Snapshots, OrderSteps
<1>3. CASE pc' \in OrderSteps /\ pc \in OrderSteps /\ UNCHANGED iter
  BY <1>0, <1>3 DEF Snapshots, OrderSteps
<1>4. CASE EntryFilled \/ OrderRests \/ Replace \/ ReplacePriceReject
            \/ ReplaceSyncReject
  BY <1>4, LeavesSnapshots DEF EntryFilled, OrderRests, Replace,
       ReplacePriceReject, ReplaceSyncReject, HoldSteps
<1>5. CASE ExitFilled \/ RepriceDue \/ WaitedTooLong
  BY <1>3, <1>5 DEF ExitFilled, RepriceDue, WaitedTooLong, OrderSteps
<1>6. CASE CancelForReprice \/ CancelForTimeout \/ (Verify /\ ~AttemptOver)
  BY <1>3, <1>6, LeavesSnapshots
     DEF CancelForReprice, CancelForTimeout, Verify, OrderSteps
<1> QED BY <1>1, <1>2, <1>4, <1>5, <1>6
       DEF OrderBranch, Reprice, Timeout, OrderCanceled, VerifyRetry

\* Entering, holding and exiting keep what the snapshots allow to conclude.
LEMMA PositionSnapshots ==
  ASSUME IInv, Flat \/ HoldOrExit \/ PlaceAnswerLost
  PROVE  Snapshots'
<1> USE DEF IInv, GiveUp, EndIteration, Goto, KeepLocal
<1>1. CASE Decide
  <2>1. /\ iter'.seen = iter.seen /\ pc' = "placeEntry"
        /\ UNCHANGED <<exchangeVars, activeOrder>>
        /\ Empty /\ iter.seen = 0
    BY <1>1 DEF Decide, Snapshots, TypeOK, Iteration
  <2>2. Empty'
    BY <2>1 DEF Empty, LiveOrders, Live, exchangeVars
  <2> QED BY <2>1, <2>2 DEF Snapshots, OrderSteps
<1>2. CASE ~Decide
  BY <1>2, LeavesSnapshots
     DEF Flat, HoldOrExit, NoDecision, PlaceEntry, EntryPriceReject,
         DrainCompleted, Ended, Hold, TriggerExit, PlaceMakerExit,
         PlaceMarketExit, ExitPriceReject, ExitSyncReject, SyncCheck, SyncClose,
         PlaceAnswerLost, HoldSteps
<1> QED BY <1>1, <1>2

\* Every step of the system keeps what the snapshots allow to conclude.
LEMMA NextSnapshots ==
  ASSUME IInv, Next
  PROVE  Snapshots'
<1>1. CASE LoopStep
  BY <1>1, SnapshotSteps, OrderSnapshots, PositionSnapshots DEF LoopStep
<1>2. CASE Abort \/ Start
  BY <1>2, LeavesSnapshots DEF Abort, Ended, Start, Goto
<1>3. CASE RequestDrain \/ Market
  <2>1. LiveOrders = {} => LiveOrders' = {} /\ net' = net
    BY <1>3, OutsideEffect, LiveShrinks DEF IInv, Filled, LiveOrders
  <2>2. UNCHANGED <<pc, iter, activeOrder, activePosition, cooldown>>
    BY <1>3 DEF RequestDrain, Market, localVars
  <2> QED BY <2>1, <2>2 DEF IInv, Snapshots, Empty
<1> QED BY <1>1, <1>2, <1>3 DEF Next

---------------------------------------------------------------------------
(* Direction: everything belongs to one side.                              *)

\* The net position and the book after a step.
LEMMA BookFacing ==
  ASSUME IInv, NEW s \in Sides, Facing(s), Effect
  PROVE  /\ Signed(s, net') >= 0
         /\ \A o \in OrderIds : orders'[o] # None =>
              orders'[o].side = IF orders'[o].reduceOnly THEN Opposite(s) ELSE s
<1> DEFINE Placeable(order) ==
             order.side = IF order.reduceOnly THEN Opposite(s) ELSE s
           Book == \A o \in OrderIds : orders[o] # None => Placeable(orders[o])
<1>0. Book /\ Signed(s, net) >= 0 /\ net \in Int
  BY DEF Facing, IInv, TypeOK
<1>1. ASSUME Passive(tracked') PROVE Book'
  BY <1>0, <1>1 DEF Passive, Shrinks
<1>2. ASSUME NEW o \in OrderIds, NEW order, Placeable(order),
             Adds(o, order, tracked')
      PROVE  Book'
  <2>1. ASSUME NEW p \in OrderIds, orders'[p] # None
        PROVE  \/ orders'[p] = order
               \/ orders[p] # None /\ orders'[p] = orders[p]
    BY <1>2, <2>1 DEF Adds
  <2> QED BY <1>0, <1>2, <2>1
<1>3. ASSUME activePosition # None
      PROVE  Exit.side = Opposite(s) /\ Exit.reduceOnly /\ Exit \in Order
  BY <1>3, ExitType DEF IInv, Facing
<1>4. CASE Passive(tracked') /\ net' = net
  BY <1>0, <1>1, <1>4
<1>5. ASSUME NEW o \in OrderIds, NEW q \in Nat \ {0}, Filled(o, q)
      PROVE  Signed(s, net') >= 0 /\ Book'
  <2>1. Book'
    BY <1>1, <1>5 DEF Filled
  <2>2. Placeable(orders[o]) /\ net' = net + Signed(orders[o].side, q)
    BY <1>0, <1>5 DEF Filled, Live
  <2>3. CASE orders[o].reduceOnly
    <3>1. orders[o].side = Opposite(s) /\ CanReduce(orders[o].side) /\ q <= Abs(net)
      BY <1>5, <2>2, <2>3 DEF Filled
    <3> QED BY <1>0, <2>1, <2>2, <3>1 DEF CanReduce, Opposite, Signed, Abs, Sides
  <2>4. CASE ~orders[o].reduceOnly
    <3>1. orders[o].side = s
      BY <2>2, <2>4
    <3> QED BY <1>0, <2>1, <2>2, <3>1 DEF Signed, Sides
  <2> QED BY <2>3, <2>4
<1>6. ASSUME NEW o \in OrderIds, Placed(o)
      PROVE  Signed(s, net') >= 0 /\ Book'
  <2>0. net' = net
    BY <1>6 DEF Placed
  <2>1. CASE pc = "placeEntry" /\ Adds(o, Entry, tracked')
    <3>1. Placeable(Entry)
      BY <2>1, EntryType DEF IInv, Facing
    <3> QED BY <1>0, <1>2, <2>0, <2>1, <3>1
  <2>2. CASE pc = "replace" /\ Adds(o, Replacement, tracked')
    <3>1. activeOrder # None /\ activeOrder.id \in OrderIds
      BY <2>2 DEF IInv, Control, OrderSteps, TypeOK, ActiveOrder
    <3>2. Placeable(orders[activeOrder.id])
      BY <1>0, <3>1 DEF IInv, Tracking
    <3>3. /\ Replacement.side = orders[activeOrder.id].side
          /\ Replacement.reduceOnly = orders[activeOrder.id].reduceOnly
      BY <3>1, ReplacementType DEF IInv, Tracking
    <3> QED BY <1>0, <1>2, <2>0, <2>2, <3>2, <3>3
  <2>3. CASE pc = "placeExit" /\ Adds(o, Exit, tracked')
    <3>1. activePosition # None
      BY <2>3 DEF IInv, Control, HoldSteps
    <3>2. Placeable(Exit)
      BY <1>3, <3>1
    <3> QED BY <1>0, <1>2, <2>0, <2>3, <3>2
  <2> QED BY <1>6, <2>1, <2>2, <2>3 DEF Placed
<1>7. CASE Taken
  <2>1. activePosition # None
    BY <1>7 DEF Taken, IInv, Control, HoldSteps
  <2>2. /\ Exit.side = Opposite(s) /\ Exit.reduceOnly /\ Exit.size \in Nat
        /\ Exit \in Order
    BY <1>3, <2>1 DEF Order, Lots
  <2>3. /\ CanReduce(Exit.side)
        /\ net' = net + Signed(Exit.side, Least(Exit.size, Abs(net)))
    BY <1>7, <2>2 DEF Taken, TakeMarket, Accepts
  <2>4. Signed(s, net') >= 0
    BY <1>0, <2>2, <2>3 DEF CanReduce, Opposite, Signed, Abs, Least, Sides
  <2> DEFINE exit == [Exit EXCEPT !.done = Exit.size, !.state = "filled"]
  <2>5. Placeable(exit)
    BY <2>2 DEF Order
  <2>6. Book'
    BY <1>1, <1>2, <1>7, <2>5 DEF Taken
  <2> QED BY <2>4, <2>6
<1> QED BY <1>4, <1>5, <1>6, <1>7 DEF Effect, LoopEffect

\* The steps that change the position the loop holds to another than none.
LEMMA ActivePositionMoves ==
  ASSUME Next
  PROVE  \/ activePosition' = None \/ UNCHANGED activePosition
         \/ BootRestore \/ Head \/ Reconcile \/ EntryFilled \/ AttemptOver
<1> USE DEF GiveUp, KeepLocal, DropOrder, Ended
<1>1. CASE Boot \/ Snapshot
  BY <1>1 DEF Boot, Snapshot, BootSnapshotFails, BootPositions, BootFlat,
       BootWithoutPrice, BootDone, HeadUnhealthy, ReadOpenOrders, ReadPositions,
       ReadFails, CancelListed
<1>2. CASE OrderBranch \/ Reprice \/ Timeout
  BY <1>2 DEF OrderBranch, Reprice, Timeout, ExitFilled, Finalize, ClosePosition,
       OrderCanceled, OrderRests, RepriceDue, WaitedTooLong, CancelForReprice,
       Replace, ReplacePriceReject, ReplaceSyncReject, CancelForTimeout, Verify,
       VerifyRetry
<1>3. CASE Flat \/ HoldOrExit \/ PlaceAnswerLost
  BY <1>3 DEF Flat, HoldOrExit, PlaceAnswerLost, NoDecision, Decide, PlaceEntry,
       EntryPriceReject, DrainCompleted, Hold, TriggerExit, PlaceMakerExit,
       PlaceMarketExit, ExitPriceReject, ExitSyncReject, SyncCheck, SyncClose,
       ClosePosition
<1>4. CASE Abort \/ Start \/ RequestDrain \/ Market
  BY <1>4 DEF Abort, Start, RequestDrain, Market, localVars
<1> QED BY <1>1, <1>2, <1>3, <1>4 DEF Next, LoopStep

\* A held position stays in the direction it was found in.
LEMMA PositionFacing ==
  ASSUME IInv, NEW s \in Sides, Facing(s), Next, activePosition' # None
  PROVE  ExitSide(activePosition') = Opposite(s)
<1>1. CASE UNCHANGED activePosition
  BY <1>1 DEF Facing, ExitSide
<1>2. CASE BootRestore
  <2>1. activePosition' \in FromOkx(iter.seen) /\ iter.seen # 0
    BY <1>2 DEF BootRestore
  <2> QED BY <2>1, FoundDirection DEF IInv
<1>3. CASE Head
  <2>1. activePosition' \in Aged(activePosition)
    BY <1>3 DEF Head
  <2>2. activePosition # None /\ activePosition'.side = activePosition.side
    BY <2>1, AgedType DEF IInv, TypeOK
  <2> QED BY <2>2 DEF Facing, ExitSide
<1>4. CASE Reconcile
  <2>1. CASE activePosition = None /\ iter.seen # 0
    BY <1>4, <2>1, FoundDirection DEF Reconcile, IInv
  <2>2. CASE ~(activePosition = None /\ iter.seen # 0)
    BY <1>1, <1>4, <2>2 DEF Reconcile
  <2> QED BY <2>1, <2>2
<1>5. CASE EntryFilled
  <2>1. activeOrder # None /\ activeOrder.purpose = "entry"
    BY <1>5 DEF EntryFilled, IInv, Control, OrderSteps
  <2>2. activeOrder \in ActiveOrder /\ activeOrder.id \in OrderIds
    BY <2>1 DEF IInv, TypeOK, ActiveOrder
  <2>3. activeOrder.side = s
    BY <2>1, <2>2 DEF IInv, Tracking, Facing
  <2>4. activePosition'.side = IF activeOrder.side = "buy" THEN "long" ELSE "short"
    BY <1>5, EntryFilledType DEF IInv
  <2> QED BY <2>3, <2>4 DEF ExitSide, Opposite, Sides
<1>6. CASE AttemptOver
  <2>1. activePosition # None
    BY <1>6 DEF AttemptOver
  <2>2. activePosition'.side = activePosition.side
    BY <1>6, <2>1, AttemptType DEF AttemptOver, IInv, TypeOK
  <2> QED BY <2>1, <2>2 DEF Facing, ExitSide
<1> QED BY <1>1, <1>2, <1>3, <1>4, <1>5, <1>6, ActivePositionMoves

\* The iteration's own record of the exchange.
LEMMA IterationFacing ==
  ASSUME IInv, NEW s \in Sides, Facing(s), Next, ~Decide
  PROVE  /\ Signed(s, iter'.seen) >= 0
         /\ pc' = "placeEntry" => iter'.side = s
<1> USE DEF GiveUp, EndIteration, Goto
<1>0. /\ Signed(s, iter.seen) >= 0 /\ Signed(s, net) >= 0
      /\ pc = "placeEntry" => iter.side = s
      /\ Signed(s, 0) >= 0 /\ Blank.seen = 0
  BY DEF Facing, Signed, Blank, Sides
<1>1. ASSUME pc' # "placeEntry",
             iter' = Blank \/ iter'.seen = iter.seen \/ iter'.seen = net
      PROVE  /\ Signed(s, iter'.seen) >= 0
             /\ pc' = "placeEntry" => iter'.side = s
  BY <1>0, <1>1
<1>2. CASE Boot \/ Snapshot
  BY <1>1, <1>2 DEF IInv, TypeOK, Iteration, Boot, Snapshot, BootSnapshotFails,
       BootPositions, BootFlat, BootRestore, BootWithoutPrice, BootDone, Head,
       HeadUnhealthy, ReadOpenOrders, ReadPositions, ReadFails, CancelListed,
       Reconcile, Branch
<1>3. CASE OrderBranch \/ Reprice \/ Timeout
  BY <1>1, <1>3 DEF IInv, TypeOK, Iteration, OrderBranch, Reprice, Timeout,
       EntryFilled, ExitFilled, Finalize, OrderCanceled, OrderRests, RepriceDue,
       WaitedTooLong, CancelForReprice, Replace, ReplacePriceReject,
       ReplaceSyncReject, CancelForTimeout, Verify, VerifyRetry, AttemptOver,
       Branch
<1>4. CASE Flat \/ HoldOrExit \/ PlaceAnswerLost
  BY <1>1, <1>4 DEF Flat, HoldOrExit, PlaceAnswerLost, NoDecision, PlaceEntry,
       EntryPriceReject, DrainCompleted, Ended, Hold, TriggerExit,
       PlaceMakerExit, PlaceMarketExit, ExitPriceReject, ExitSyncReject,
       SyncCheck, SyncClose
<1>5. CASE Abort \/ Start
  BY <1>1, <1>5 DEF Abort, Ended, Start
<1>6. CASE RequestDrain \/ Market
  BY <1>0, <1>6 DEF RequestDrain, Market, localVars
<1> QED BY <1>2, <1>3, <1>4, <1>5, <1>6 DEF Next, LoopStep

\* A decision is taken when nothing has a direction: it may choose one.
LEMMA DecideDirection ==
  ASSUME IInv, Decide
  PROVE  Direction'
<1>1. /\ activePosition = None /\ activeOrder = None
      /\ net = 0 /\ LiveOrders = {} /\ iter.seen = 0
  BY DEF Decide, IInv, Control, Snapshots, Empty
<1>2. \A o \in OrderIds : orders[o] = None
  BY <1>1, NoneAssumption DEF IInv, Tracking, tracked, Tracked, LiveOrders, Live
<1>3. PICK s \in Sides : iter' = [iter EXCEPT !.side = s]
  BY DEF Decide
<1>4. iter'.seen = 0 /\ iter'.side = s
  BY <1>1, <1>3 DEF IInv, TypeOK, Iteration
<1>5. UNCHANGED <<orders, net, activePosition>>
  BY DEF Decide, KeepLocal, exchangeVars
<1>6. Facing(s)'
  BY <1>1, <1>2, <1>4, <1>5 DEF Facing, Signed, Sides
<1> QED BY <1>6 DEF Direction

\* Every step of the system keeps all exposure in one direction.
LEMMA NextDirection ==
  ASSUME IInv, Next
  PROVE  Direction'
<1>1. CASE Decide
  BY <1>1, DecideDirection
<1>2. CASE ~Decide
  <2>1. PICK s \in Sides : Facing(s)
    BY DEF IInv, Direction
  <2>2. Effect
    BY NextEffect DEF IInv
  <2>3. Facing(s)'
    BY <1>2, <2>1, <2>2, BookFacing, IterationFacing, PositionFacing DEF Facing
  <2> QED BY <2>3 DEF Direction
<1> QED BY <1>1, <1>2

---------------------------------------------------------------------------
(* The invariant and its consequences.                                     *)

\* The invariant holds in the beginning.
LEMMA InitInvariant == Init => IInv
<1> SUFFICES ASSUME Init PROVE IInv
  OBVIOUS
<1>1. TypeOK
  <2>1. orders \in [OrderIds -> Order \cup {None}] /\ net \in Int
    BY DEF Init
  <2>2. pc \in Steps /\ iter \in Iteration
    BY BlankType DEF Init, Steps
  <2> QED BY <2>1, <2>2 DEF Init, TypeOK
<1>2. Control /\ Tracking /\ Snapshots
  BY NoneAssumption DEF Init, Control, Tracking, Snapshots, OrderSteps, HoldSteps
<1>3. Facing("buy") /\ "buy" \in Sides
  BY DEF Init, Facing, Signed, Blank, Sides
<1> QED BY <1>1, <1>2, <1>3 DEF IInv, Direction

\* Every step of the system, and stuttering, keeps the invariant.
LEMMA NextInvariant == IInv /\ [Next]_vars => IInv'
<1> SUFFICES ASSUME IInv, [Next]_vars PROVE IInv'
  OBVIOUS
<1>1. CASE Next
  BY <1>1, NextTypes, NextControl, NextTracking, NextSnapshots, NextDirection
     DEF IInv
<1>2. CASE UNCHANGED vars
  <2>1. TypeOK' /\ Control'
    BY <1>2, NextTypes, NextControl DEF IInv
  <2>2. Tracking' /\ Snapshots'
    BY <1>2 DEF IInv, vars, exchangeVars, localVars, Tracking, Snapshots,
         tracked, Tracked, Empty, LiveOrders, Live
  <2>3. Direction'
    BY <1>2 DEF IInv, vars, exchangeVars, localVars, Direction, Facing, ExitSide
  <2> QED BY <2>1, <2>2, <2>3 DEF IInv
<1> QED BY <1>1, <1>2

\* Every behaviour keeps the inductive invariant.
THEOREM Invariance == Spec => []IInv
BY InitInvariant, NextInvariant, PTL DEF Spec

\* Values have their types, in every behaviour and for all constants.
THEOREM TypeCorrect == Spec => []TypeOK
<1>1. IInv => TypeOK
  BY DEF IInv
<1> QED BY <1>1, Invariance, PTL

\* The snapshots an entry decision rests on are still true when the entry is
\* submitted, some awaits later (orchestrator.py).
THEOREM EntrySafety == Spec => []EntryOnlyWhenFlat
<1>1. IInv => EntryOnlyWhenFlat
  BY DEF IInv, Snapshots, Empty, EntryOnlyWhenFlat
<1> QED BY <1>1, Invariance, PTL

\* No exit order on the book can open a position.
THEOREM ExitsReduceOnly == Spec => []ExitIsReduceOnly
<1>1. IInv => ExitIsReduceOnly
  BY DEF IInv, Tracking, ExitIsReduceOnly, LiveOrders, Live
<1> QED BY <1>1, Invariance, PTL

\* Two things that have one direction agree, whichever direction it is.
LEMMA DirectionAgrees ==
  ASSUME IInv
  PROVE  SidesAgree /\ EntriesNeverOppose
<1>1. PICK s \in Sides : Facing(s)
  BY DEF IInv, Direction
<1>2. SidesAgree
  <2>1. SUFFICES ASSUME activePosition # None, net # 0
                 PROVE  activePosition.side = PositionSide(net)
    BY DEF SidesAgree
  <2>2. activePosition.side \in {"long", "short"} /\ net \in Int
    BY <2>1 DEF IInv, TypeOK, ActivePosition
  <2> QED BY <1>1, <2>1, <2>2 DEF Facing, Signed, Sides, PositionSide,
          ExitSide, Opposite
<1>3. EntriesNeverOppose
  BY <1>1 DEF Facing, EntriesNeverOppose, LiveOrders, Live
<1> QED BY <1>2, <1>3

\* The loop's position and the exchange's are never opposite.
THEOREM SidesNeverDisagree == Spec => []SidesAgree
<1>1. IInv => SidesAgree
  BY DirectionAgrees
<1> QED BY <1>1, Invariance, PTL

\* No resting order can turn a position around.
THEOREM EntriesNeverOpposed == Spec => []EntriesNeverOppose
<1>1. IInv => EntriesNeverOppose
  BY DirectionAgrees
<1> QED BY <1>1, Invariance, PTL

\* The exit the loop manages closes the position the loop holds.
THEOREM ExitsMatch == Spec => []ExitMatchesPosition
<1>1. ASSUME IInv PROVE ExitMatchesPosition
  <2>1. SUFFICES ASSUME activeOrder # None, activeOrder.purpose = "exit"
                 PROVE  /\ activePosition # None
                        /\ activeOrder.side = ExitSide(activePosition)
                        /\ activeOrder.reduceOnly
    BY DEF ExitMatchesPosition
  <2>2. activePosition # None /\ activeOrder.id \in OrderIds
    BY <1>1, <2>1 DEF IInv, Control, TypeOK, ActiveOrder
  <2>3. PICK s \in Sides : Facing(s)
    BY <1>1 DEF IInv, Direction
  <2> QED BY <1>1, <2>1, <2>2, <2>3 DEF IInv, Tracking, Facing
<1> QED BY <1>1, Invariance, PTL

---------------------------------------------------------------------------
(* Steps.                                                                  *)

\* Numbers of one direction add up without loss, and only they do.
LEMMA SameSideAdds ==
  ASSUME NEW m \in Int, NEW n \in Int, NEW s \in Sides,
         Signed(s, m) >= 0, Signed(s, n) >= 0
  PROVE  Abs(m + n) = Abs(m) + Abs(n)
BY DEF Signed, Abs, Sides

\* A sum as large as its parts together has parts of one sign.
LEMMA SumsAgree ==
  ASSUME NEW m \in Int, NEW n \in Int, n = 0 \/ Abs(m + n) = Abs(m) + Abs(n)
  PROVE  \/ n = 0 \/ m = 0
         \/ m > 0 /\ n > 0
         \/ m < 0 /\ n < 0
BY DEF Abs

\* A step takes the exposure to zero or leaves it in its direction.
LEMMA NextNoReversal ==
  ASSUME IInv, [Next]_vars
  PROVE  net' = 0 \/ Abs(net + net') = Abs(net) + Abs(net')
<1>0. net \in Int /\ net' \in Int
  BY NextInvariant DEF IInv, TypeOK
<1>1. CASE net' = net
  BY <1>0, <1>1 DEF Abs
<1>2. CASE Next /\ net' # net
  <2>1. PICK s \in Sides : Facing(s)
    BY DEF IInv, Direction
  <2>2. Signed(s, net) >= 0 /\ Signed(s, net') >= 0
    BY <1>2, <2>1, NextEffect, BookFacing DEF IInv, Facing
  <2> QED BY <1>0, <2>1, <2>2, SameSideAdds
<1>3. UNCHANGED vars => net' = net
  BY DEF vars, exchangeVars
<1> QED BY <1>1, <1>2, <1>3

\* A long position never becomes a short one, or the other way round, in one
\* step of anything, for any size of fills.
THEOREM NeverReversed == Spec => NoReversal
<1>1. IInv /\ [Next]_vars =>
        [net' = 0 \/ Abs(net + net') = Abs(net) + Abs(net')]_vars
  BY NextNoReversal
<1> QED BY <1>1, Invariance, PTL DEF Spec, NoReversal

---------------------------------------------------------------------------
(* The loop implements TradeCycle.                                         *)

\* The abstract exposure of the exchange.
Exposure == IF net = 0 THEN "none" ELSE PositionSide(net)

\* The loop begins to enter only from flat and without exposure.
LEMMA EnteringBegins ==
  ASSUME IInv, Next, cyclePhase' = "entering"
  PROVE  \/ cyclePhase = "entering"
         \/ PlaceEntry /\ cyclePhase = "flat" /\ net = 0 /\ net' = net
<1>1. activeOrder' # None /\ activeOrder'.purpose = "entry"
  BY DEF cyclePhase
<1>2. CASE UNCHANGED activeOrder
  BY <1>1, <1>2 DEF cyclePhase
<1>3. CASE Head
  <2>1. activeOrder' \in Older(activeOrder)
    BY <1>3 DEF Head
  <2> QED BY <1>1, <2>1, OlderType DEF cyclePhase, IInv, TypeOK
<1>4. CASE BootRestore
  <2>1. PICK position \in FromOkx(iter.seen) : activeOrder' \in Adopted(position)
    BY <1>4 DEF BootRestore
  <2>2. position \in ActivePosition
    BY <1>4, FromOkxType DEF BootRestore, IInv
  <2> QED BY <1>1, <2>1, <2>2, AdoptedType
<1>5. CASE Replace
  <2>1. activeOrder \in ActiveOrder /\ activeOrder # None
    BY <1>5 DEF Replace, IInv, Control, OrderSteps, TypeOK
  <2>2. activeOrder'.purpose = activeOrder.purpose
    BY <1>5, <2>1, MovedType DEF Replace
  <2> QED BY <1>1, <2>1, <2>2 DEF cyclePhase
<1>6. CASE PlaceEntry
  <2>1. activeOrder = None /\ activePosition = None /\ net = 0
    BY <1>6 DEF PlaceEntry, IInv, Control, Snapshots, Empty
  <2>2. net' = net
    BY <1>6 DEF PlaceEntry, Rest
  <2> QED BY <1>6, <2>1, <2>2 DEF cyclePhase
<1>7. CASE PlaceMakerExit \/ PlaceMarketExit
  <2>1. PICK o \in OrderIds : activeOrder' = Track(o, Exit, "exit")
    BY <1>7 DEF PlaceMakerExit, PlaceMarketExit, Unused
  <2>2. activePosition # None
    BY <1>7 DEF PlaceMakerExit, PlaceMarketExit, IInv, Control, HoldSteps
  <2> QED BY <1>1, <2>1, <2>2, ExitType, TrackType DEF IInv
<1> QED BY <1>1, <1>2, <1>3, <1>4, <1>5, <1>6, <1>7, ActiveOrderMoves

\* An entry is never turned into an exit.
LEMMA EnteringEnds ==
  ASSUME IInv, Next, cyclePhase = "entering"
  PROVE  cyclePhase' # "exiting"
<1>1. activeOrder # None /\ activeOrder.purpose = "entry" /\ activeOrder \in ActiveOrder
  BY DEF cyclePhase, IInv, TypeOK
<1>2. SUFFICES ASSUME activeOrder' # None
               PROVE  activeOrder'.purpose = "entry"
  BY DEF cyclePhase
<1>3. CASE Head
  <2>1. activeOrder' \in Older(activeOrder)
    BY <1>3 DEF Head
  <2> QED BY <1>1, <2>1, OlderType
<1>4. CASE Replace
  <2>1. PICK o \in OrderIds :
          activeOrder' = [activeOrder EXCEPT !.id = o, !.wait = 0]
    BY <1>4 DEF Replace
  <2> QED BY <1>1, <2>1, MovedType
<1>5. ~(BootRestore \/ PlaceEntry \/ PlaceMakerExit \/ PlaceMarketExit)
  BY <1>1 DEF BootRestore, PlaceEntry, PlaceMakerExit, PlaceMarketExit,
     IInv, Control, HoldSteps
<1> QED BY <1>1, <1>2, <1>3, <1>4, <1>5, ActiveOrderMoves

\* A market exit leaves the exposure or takes it away.
LEMMA TakenExposure ==
  ASSUME IInv, Taken
  PROVE  Exposure' \in {Exposure, "none"} /\ cyclePhase = "holding"
<1>1. activePosition # None /\ activeOrder = None
  BY DEF Taken, IInv, Control, HoldSteps
<1>2. Exit.reduceOnly /\ Exit.size \in Nat /\ Exit.side \in Sides /\ net \in Int
  BY <1>1, ExitType DEF IInv, TypeOK, Order, Lots
<1>3. /\ CanReduce(Exit.side)
      /\ net' = net + Signed(Exit.side, Least(Exit.size, Abs(net)))
  BY <1>2 DEF Taken, TakeMarket, Accepts
<1>4. Exposure' \in {Exposure, "none"}
  BY <1>2, <1>3 DEF Exposure, PositionSide, CanReduce, Signed, Least, Abs, Sides
<1> QED BY <1>1, <1>4 DEF cyclePhase

\* Every step of the loop and of the exchange is one of TradeCycle, or none.
LEMMA NextRefines ==
  ASSUME IInv, [Next]_vars
  PROVE  [Cycle!Next]_<<cyclePhase, Exposure>>
<1> USE DEF Cycle!Next, Cycle!Exchange, Cycle!Enter, Cycle!EntryEnds,
           Cycle!TakeOver, Cycle!Exit, Cycle!ExitEnds, Cycle!CloseBySync,
           Cycle!Stop, Cycle!Exposures, Exposure
<1>0. /\ cyclePhase \in {"flat", "entering", "holding", "exiting"}
      /\ cyclePhase' \in {"flat", "entering", "holding", "exiting"}
  BY DEF cyclePhase
<1>1. CASE UNCHANGED vars
  BY <1>1 DEF vars, exchangeVars, localVars, cyclePhase
<1>2. CASE RequestDrain \/ Market
  <2>1. cyclePhase' = cyclePhase
    BY <1>2 DEF RequestDrain, Market, localVars, cyclePhase
  <2>2. Exposure = "none" \/ Exposure' \in {Exposure, "none"}
    <3>1. net \in Int /\ net' \in Int
      BY NextInvariant DEF IInv, TypeOK
    <3>2. net' = 0 \/ Abs(net + net') = Abs(net) + Abs(net')
      BY NextNoReversal
    <3>3. \/ net' = 0 \/ net = 0
          \/ net > 0 /\ net' > 0
          \/ net < 0 /\ net' < 0
      BY <3>1, <3>2, SumsAgree
    <3> QED BY <3>1, <3>3 DEF PositionSide
  <2> QED BY <2>1, <2>2 DEF PositionSide
<1>3. CASE LoopStep \/ Abort \/ Start
  <2>1. \/ net' = net
        \/ cyclePhase = "holding" /\ Exposure' \in {Exposure, "none"}
    BY <1>3, LoopStepEffect, TakenExposure DEF LoopEffect, Placed, IInv
  <2>2. cyclePhase' = "entering" =>
          \/ cyclePhase = "entering"
          \/ cyclePhase = "flat" /\ net = 0 /\ net' = net
    BY <1>3, EnteringBegins DEF Next
  <2>3. cyclePhase = "entering" => cyclePhase' # "exiting"
    BY <1>3, EnteringEnds DEF Next
  <2> QED BY <1>0, <2>1, <2>2, <2>3 DEF PositionSide
<1> QED BY <1>1, <1>2, <1>3 DEF Next

\* The loop with its exchange implements the trade cycle.
THEOREM Refinement == Spec => ImplementsTradeCycle
<1>1. Init => Cycle!Init
  BY DEF Init, Cycle!Init, cyclePhase
<1>2. IInv /\ [Next]_vars => [Cycle!Next]_<<cyclePhase, Exposure>>
  BY NextRefines
<1> QED BY <1>1, <1>2, Invariance, PTL
       DEF Spec, ImplementsTradeCycle, Cycle!Spec, Exposure
=============================================================================
