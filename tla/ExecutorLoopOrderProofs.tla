---------------------- MODULE ExecutorLoopOrderProofs ----------------------
(***************************************************************************)
(* NoOrderLost of ExecutorLoop, for every value of its constants.  It is    *)
(* not inductive: the loop drops an order right after a cancel or a fill,   *)
(* so the invariant must also say at which steps the order the loop manages *)
(* is known to be closed (Settled).                                         *)
(***************************************************************************)
EXTENDS ExecutorLoopProofs

\* Where the loop is about to drop or replace its order, that order is closed;
\* only a failed request makes a second cancel necessary.
Settled ==
  faults = 0 =>
    /\ pc \in {"finalize", "replace", "verify"} => ~Live(activeOrder.id)
    /\ pc # "verifyRetry"

OrdersInv == IInv /\ Settled /\ NoOrderLost

\* A step counts a fault or none, and only a start counts as one.
LEMMA Counted ==
  ASSUME Next
  PROVE  /\ Healthy \/ Faulty
         /\ UNCHANGED starts \/ Start
<1> USE DEF GiveUp, SameBounds, Healthy
<1>1. CASE Boot \/ Snapshot
  BY <1>1 DEF Boot, Snapshot, BootSnapshotFails, BootPositions, BootFlat, BootRestore,
       BootWithoutPrice, BootDone, Head, HeadUnhealthy, ReadOpenOrders,
       ReadPositions, ReadFails, CancelListed, CancelDone, CancelUncertain,
       Reconcile
<1>2. CASE OrderBranch \/ Reprice \/ Timeout
  BY <1>2 DEF OrderBranch, Reprice, Timeout, EntryFilled, ExitFilled, Finalize,
       OrderCanceled, OrderRests, RepriceDue, WaitedTooLong, CancelForReprice,
       CancelDone, CancelUncertain, Replace, ReplacePriceReject, ReplaceSyncReject,
       CancelForTimeout, Verify, VerifyRetry
<1>3. CASE Flat \/ HoldOrExit \/ PlaceAnswerLost
  BY <1>3 DEF Flat, HoldOrExit, PlaceAnswerLost, NoDecision, Decide, PlaceEntry,
       EntryPriceReject, DrainCompleted, Ended, Hold, TriggerExit, PlaceMakerExit,
       PlaceMarketExit, ExitPriceReject, ExitSyncReject, SyncCheck, SyncClose
<1>4. CASE Abort \/ Start \/ RequestDrain \/ Market
  BY <1>4 DEF Abort, Ended, Start, RequestDrain, Market, boundVars
<1> QED BY <1>1, <1>2, <1>3, <1>4 DEF Next, LoopStep

\* The history "no failed request, no restart" only ever ends.
LEMMA CleanBefore ==
  ASSUME IInv, Next
  PROVE  /\ faults' = 0 => faults = 0 /\ ~Faulty
         /\ starts' = 0 => starts = 0 /\ ~Start
<1>1. faults \in Nat /\ starts \in Nat
  BY DEF IInv, TypeOK
<1>2. Faulty => faults' = faults + 1
  BY DEF Faulty
<1>3. Start => starts' = starts + 1
  BY DEF Start
<1>4. /\ faults' = faults \/ Faulty
      /\ starts' = starts \/ Start
  BY Counted DEF Healthy
<1>5. Faulty => faults' # 0
  BY <1>1, <1>2
<1>6. Start => starts' # 0
  BY <1>1, <1>3
<1> QED BY <1>4, <1>5, <1>6

\* A canceled order is not open any more.
LEMMA MarkedNotLive ==
  ASSUME TypeOK, NEW o \in OrderIds, NEW t, Live(o), MarkCanceled(o, t)
  PROVE  ~Live(o)'
<1>1. orders[o] \in Order
  BY DEF TypeOK, Live
<1>2. [orders EXCEPT ![o].state = "canceled"][o].state = "canceled"
  BY <1>1 DEF TypeOK, Order
<1> QED BY <1>2 DEF MarkCanceled, Known, Live

\* A request that cancels an order and is answered closes it.
LEMMA CancelCloses ==
  ASSUME TypeOK, NEW o \in OrderIds, CancelDone(o)
  PROVE  ~Live(o)'
<1>1. CASE Live(o) /\ MarkCanceled(o, tracked)
  BY <1>1, MarkedNotLive
<1>2. CASE ~Live(o) /\ UNCHANGED exchangeVars
  BY <1>2 DEF Live, exchangeVars
<1> QED BY <1>1, <1>2 DEF CancelDone

\* The steps that lead to, or stay at, a place where the order is closed.
LEMMA SettlingSteps ==
  ASSUME Next, pc' \in {"finalize", "replace", "verify", "verifyRetry"}
  PROVE  \/ ExitFilled \/ CancelForReprice \/ CancelForTimeout \/ Verify
         \/ RequestDrain \/ Market
<1> USE DEF GiveUp, Goto, EndIteration
<1>1. CASE Boot \/ Snapshot
  BY <1>1 DEF Boot, Snapshot, BootSnapshotFails, BootPositions, BootFlat, BootRestore,
       BootWithoutPrice, BootDone, Head, HeadUnhealthy, ReadOpenOrders,
       ReadPositions, ReadFails, CancelListed, Reconcile, Branch
<1>2. CASE OrderBranch \/ Reprice \/ Timeout
  BY <1>2 DEF OrderBranch, Reprice, Timeout, EntryFilled, Finalize,
       OrderCanceled, OrderRests, RepriceDue, WaitedTooLong, Replace,
       ReplacePriceReject, ReplaceSyncReject, VerifyRetry, AttemptOver, Branch
<1>3. CASE Flat \/ HoldOrExit \/ PlaceAnswerLost
  BY <1>3 DEF Flat, HoldOrExit, PlaceAnswerLost, NoDecision, Decide, PlaceEntry,
       EntryPriceReject, DrainCompleted, Ended, Hold, TriggerExit, PlaceMakerExit,
       PlaceMarketExit, ExitPriceReject, ExitSyncReject, SyncCheck, SyncClose
<1>4. CASE Abort \/ Start
  BY <1>4 DEF Abort, Ended, Start
<1> QED BY <1>1, <1>2, <1>3, <1>4 DEF Next, LoopStep

\* An order that is not open is not opened again under the same identifier.
LEMMA StaysClosed ==
  ASSUME NEW o \in OrderIds, NEW t, Passive(t), ~Live(o)
  PROVE  ~Live(o)'
BY LiveShrinks DEF LiveOrders

\* Without a failed request the loop gets to these places with a closed order.
LEMMA NextSettled ==
  ASSUME IInv, Settled, Next
  PROVE  Settled'
<1> USE DEF IInv
<1> SUFFICES ASSUME faults' = 0, pc' \in {"finalize", "replace", "verify", "verifyRetry"}
             PROVE  pc' # "verifyRetry" /\ ~Live(activeOrder.id)'
  BY DEF Settled
<1>1. faults = 0 /\ ~Faulty
  BY CleanBefore
<1>2. CASE ExitFilled
  <2>1. current.state = "filled" /\ pc' = "finalize" /\ UNCHANGED <<exchangeVars, activeOrder>>
    BY <1>2 DEF ExitFilled, Goto, KeepLocal
  <2> QED BY <2>1 DEF current, Live, exchangeVars
<1>3. CASE CancelForReprice \/ CancelForTimeout
  <2>1. activeOrder.id \in OrderIds
    BY <1>3 DEF CancelForReprice, CancelForTimeout, Control, OrderSteps, TypeOK,
         ActiveOrder
  <2>2. CancelDone(activeOrder.id) /\ UNCHANGED activeOrder /\ pc' # "verifyRetry"
    BY <1>1, <1>3 DEF CancelForReprice, CancelForTimeout, CancelUncertain, KeepLocal,
         Goto
  <2> QED BY <2>1, <2>2, CancelCloses
<1>4. CASE Verify
  <2>1. ~Live(activeOrder.id) /\ activeOrder # None /\ pc = "verify"
    BY <1>1, <1>4 DEF Verify, Settled, Control, OrderSteps
  <2>2. current.state # "live"
    BY <2>1 DEF current, Live, Tracking
  <2> QED BY <1>1, <1>4, <2>2 DEF Verify, AttemptOver, Goto, Branch
<1>5. CASE RequestDrain \/ Market
  <2>1. UNCHANGED <<pc, activeOrder>>
    BY <1>5 DEF RequestDrain, Market, localVars
  <2>2. Passive(tracked')
    BY <1>5, OutsideEffect DEF Filled
  <2>3. activeOrder.id \in OrderIds
    BY <2>1 DEF Control, OrderSteps, TypeOK, ActiveOrder
  <2>4. pc # "verifyRetry" /\ ~Live(activeOrder.id)
    BY <1>1, <2>1 DEF Settled
  <2>5. ~Live(activeOrder.id)'
    BY <2>1, <2>2, <2>3, <2>4, StaysClosed
  <2> QED BY <2>1, <2>4, <2>5
<1> QED BY <1>2, <1>3, <1>4, <1>5, SettlingSteps

\* The steps that change which order is managed, and the head, which ages it.
LEMMA MovingSteps ==
  ASSUME Next
  PROVE  \/ UNCHANGED activeOrder \/ pc' = "down" \/ Head \/ BootRestore
         \/ EntryFilled \/ Finalize \/ OrderCanceled
         \/ Replace \/ ReplacePriceReject \/ ReplaceSyncReject
         \/ Verify \/ VerifyRetry
         \/ PlaceEntry \/ PlaceMakerExit \/ PlaceMarketExit
<1> USE DEF GiveUp, KeepLocal, Ended
<1>1. CASE Boot \/ Snapshot
  BY <1>1 DEF Boot, Snapshot, BootSnapshotFails, BootPositions, BootFlat,
       BootWithoutPrice, BootDone, HeadUnhealthy, ReadOpenOrders, ReadPositions,
       ReadFails, CancelListed, Reconcile
<1>2. CASE OrderBranch \/ Reprice \/ Timeout
  BY <1>2 DEF OrderBranch, Reprice, Timeout, ExitFilled,
       OrderRests, RepriceDue, WaitedTooLong, CancelForReprice,
       CancelForTimeout
<1>3. CASE Flat \/ HoldOrExit \/ PlaceAnswerLost
  BY <1>3 DEF Flat, HoldOrExit, PlaceAnswerLost, NoDecision, Decide,
       EntryPriceReject, DrainCompleted, Hold, TriggerExit, ExitPriceReject,
       ExitSyncReject, SyncCheck, SyncClose
<1>4. CASE Abort \/ Start \/ RequestDrain \/ Market
  BY <1>4 DEF Abort, Start, RequestDrain, Market, localVars
<1> QED BY <1>1, <1>2, <1>3, <1>4 DEF Next, LoopStep

\* Only a start gets a loop running that was down.
LEMMA RunningBefore ==
  ASSUME Next, pc' # "down", ~Start
  PROVE  pc # "down"
<1> SUFFICES ASSUME pc = "down" PROVE FALSE
  OBVIOUS
<1>1. ~Boot /\ ~Snapshot
  BY DEF Boot, Snapshot, BootSnapshotFails, BootPositions, BootFlat, BootRestore,
       BootWithoutPrice, BootDone, Head, HeadUnhealthy, ReadOpenOrders,
       ReadPositions, ReadFails, CancelListed, Reconcile
<1>2. ~OrderBranch /\ ~Reprice /\ ~Timeout
  BY DEF OrderBranch, Reprice, Timeout, EntryFilled, ExitFilled, Finalize,
       OrderCanceled, OrderRests, RepriceDue, WaitedTooLong, CancelForReprice,
       Replace, ReplacePriceReject, ReplaceSyncReject,
       CancelForTimeout, Verify, VerifyRetry
<1>3. ~Flat /\ ~HoldOrExit /\ ~PlaceAnswerLost
  BY DEF Flat, HoldOrExit, PlaceAnswerLost, NoDecision, Decide, PlaceEntry,
       EntryPriceReject, DrainCompleted, Hold, TriggerExit, PlaceMakerExit,
       PlaceMarketExit, ExitPriceReject, ExitSyncReject, SyncCheck, SyncClose
<1>4. ~Abort /\ ~RequestDrain /\ ~Market
  BY DEF Abort, RequestDrain, Market, localVars
<1> QED BY <1>1, <1>2, <1>3, <1>4 DEF Next, LoopStep

\* Whatever the loop lets go of is closed: where it manages another order
\* afterwards, or none, there was nothing open.
LEMMA NothingOpenDropped ==
  ASSUME IInv, Settled, NoOrderLost, Next, pc' # "down", faults' = 0, starts' = 0
  PROVE  tracked' = tracked \/ LiveOrders = {}
<1> USE DEF IInv
<1>1. faults = 0 /\ ~Faulty /\ starts = 0 /\ ~Start
  BY CleanBefore
<1>2. pc # "down"
  BY <1>1, RunningBefore
<1>3. LiveOrders \subseteq {tracked}
  BY <1>1, <1>2 DEF NoOrderLost
<1>4. ASSUME activeOrder = None \/ ~Live(activeOrder.id)
      PROVE  LiveOrders = {}
  BY <1>3, <1>4, NoneAssumption DEF LiveOrders, tracked, Tracked
<1>5. CASE UNCHANGED activeOrder
  BY <1>5 DEF tracked
<1>6. CASE Head
  <2>1. activeOrder' \in Older(activeOrder)
    BY <1>6 DEF Head
  <2> QED BY <2>1, OlderType DEF TypeOK, tracked, Tracked
<1>7. CASE BootRestore \/ PlaceEntry \/ PlaceMakerExit \/ PlaceMarketExit
  BY <1>4, <1>7 DEF BootRestore, PlaceEntry, PlaceMakerExit, PlaceMarketExit, Control,
       HoldSteps
<1>8. CASE Finalize \/ Replace \/ ReplacePriceReject \/ ReplaceSyncReject \/ Verify
             \/ VerifyRetry
  BY <1>1, <1>4, <1>8 DEF Finalize, Replace, ReplacePriceReject, ReplaceSyncReject,
       Verify, VerifyRetry, Settled
<1>9. CASE EntryFilled \/ OrderCanceled
  BY <1>4, <1>9 DEF EntryFilled, OrderCanceled, current, Live
<1> QED BY <1>5, <1>6, <1>7, <1>8, <1>9, MovingSteps

\* At a request that places an order the loop places it, loses the answer, is
\* rejected, or something else happens first.
LEMMA PlacingSteps ==
  ASSUME IInv, Next, pc \in {"placeEntry", "replace", "placeExit"}, pc' # "down"
  PROVE  \/ PlaceEntry \/ Replace \/ PlaceMakerExit \/ PlaceMarketExit
         \/ PlaceAnswerLost /\ Faulty
         \/ Passive(tracked')
<1> USE DEF IInv
<1>1. ASSUME UNCHANGED exchangeVars, UNCHANGED activeOrder
      PROVE  Passive(tracked')
  <2>1. tracked' = tracked
    BY <1>1 DEF tracked
  <2> QED BY <1>1, <2>1, SamePassive
<1>2. ASSUME DropOrder
      PROVE  Passive(tracked')
  <2>1. tracked' = None
    BY <1>2 DEF DropOrder, tracked, Tracked
  <2> QED BY <1>2, <2>1, DropPassive DEF DropOrder
<1>3. CASE ReplacePriceReject \/ ReplaceSyncReject
  BY <1>2, <1>3 DEF ReplacePriceReject, ReplaceSyncReject
<1>4. CASE EntryPriceReject \/ ExitPriceReject \/ ExitSyncReject
  BY <1>1, <1>4 DEF EntryPriceReject, ExitPriceReject, ExitSyncReject, GiveUp, KeepLocal
<1>5. CASE RequestDrain \/ Market
  BY <1>5, OutsideEffect DEF Filled
<1>6. CASE PlaceAnswerLost
  BY <1>6 DEF PlaceAnswerLost
<1>7. \/ PlaceEntry \/ Replace \/ PlaceMakerExit \/ PlaceMarketExit
      \/ ReplacePriceReject \/ ReplaceSyncReject
      \/ EntryPriceReject \/ ExitPriceReject \/ ExitSyncReject
      \/ RequestDrain \/ Market \/ PlaceAnswerLost
  <2>1. ~Boot /\ ~Snapshot
    BY DEF Boot, Snapshot, BootSnapshotFails, BootPositions, BootFlat, BootRestore,
       BootWithoutPrice, BootDone, Head, HeadUnhealthy, ReadOpenOrders,
       ReadPositions, ReadFails, CancelListed, Reconcile
  <2>2. ~OrderBranch /\ ~Timeout
    BY DEF OrderBranch, Timeout, EntryFilled, ExitFilled, Finalize,
       OrderCanceled, OrderRests, RepriceDue, WaitedTooLong, CancelForTimeout,
       Verify, VerifyRetry
  <2>3. ~Abort /\ ~Start
    BY DEF Abort, Ended, Start
  <2>4. ~NoDecision /\ ~Decide /\ ~DrainCompleted /\ ~Hold /\ ~TriggerExit
          /\ ~SyncCheck /\ ~SyncClose /\ ~CancelForReprice
    BY DEF NoDecision, Decide, DrainCompleted, Hold, TriggerExit, SyncCheck, SyncClose,
           CancelForReprice
  <2> QED BY <2>1, <2>2, <2>3, <2>4 DEF Next, LoopStep, Reprice, Flat, HoldOrExit
<1> QED BY <1>3, <1>4, <1>5, <1>6, <1>7

\* An order that was placed is the managed one and the only new open order.
LEMMA PlacedIsManaged ==
  ASSUME IInv, PlaceEntry \/ Replace \/ PlaceMakerExit \/ PlaceMarketExit
  PROVE  LiveOrders' \subseteq LiveOrders \cup {tracked'}
<1> USE DEF IInv
<1>0. orders \in Books
  BY DEF TypeOK, Books
<1>1. ASSUME NEW o \in OrderIds, NEW order, Adds(o, order, o), tracked' = o
      PROVE  LiveOrders' \subseteq LiveOrders \cup {tracked'}
  BY <1>1, NoneAssumption DEF Adds, LiveOrders, Live
<1>2. CASE PlaceEntry
  <2>1. PICK o \in OrderIds : /\ Rest(o, Entry, o)
                              /\ activeOrder' = Track(o, Entry, "entry")
    BY <1>2 DEF PlaceEntry
  <2>2. Adds(o, Entry, o)
    BY <1>0, <2>1, EntryType, RestAdds
  <2>3. tracked' = o
    BY <2>1, EntryType, TrackType, NoneAssumption DEF tracked, Tracked
  <2> QED BY <1>1, <2>2, <2>3
<1>3. CASE Replace
  <2>1. PICK o \in OrderIds :
          /\ Rest(o, Replacement, o)
          /\ activeOrder' = [activeOrder EXCEPT !.id = o, !.wait = 0]
    BY <1>3 DEF Replace
  <2>2. activeOrder \in ActiveOrder /\ activeOrder # None
    BY <1>3 DEF Replace, Control, OrderSteps, TypeOK
  <2>3. Adds(o, Replacement, o)
    BY <1>0, <2>1, <2>2, ReplacementType, RestAdds
  <2>4. tracked' = o
    BY <2>1, <2>2, MovedType, NoneAssumption DEF tracked, Tracked
  <2> QED BY <1>1, <2>3, <2>4
<1>4. CASE PlaceMakerExit
  <2>1. PICK o \in OrderIds : /\ Rest(o, Exit, o)
                              /\ activeOrder' = Track(o, Exit, "exit")
    BY <1>4 DEF PlaceMakerExit
  <2>2. activePosition # None
    BY <1>4 DEF PlaceMakerExit, Control, HoldSteps
  <2>3. Adds(o, Exit, o)
    BY <1>0, <2>1, <2>2, ExitType, RestAdds
  <2>4. tracked' = o
    BY <2>1, <2>2, ExitType, TrackType, NoneAssumption DEF tracked, Tracked
  <2> QED BY <1>1, <2>3, <2>4
<1>5. CASE PlaceMarketExit
  <2> DEFINE exit == [Exit EXCEPT !.done = Exit.size, !.state = "filled"]
  <2>1. PICK o \in Unused :
          /\ orders' = Known([orders EXCEPT ![o] = exit], o)
          /\ activeOrder' = Track(o, Exit, "exit")
    BY <1>5 DEF PlaceMarketExit
  <2>2. activePosition # None /\ o \in OrderIds
    BY <1>5, <2>1 DEF PlaceMarketExit, Control, HoldSteps, Unused
  <2>4. tracked' = o
    BY <2>1, <2>2, ExitType, TrackType, NoneAssumption DEF tracked, Tracked
  <2> HIDE DEF exit
  <2>3. \A p \in OrderIds : p # o => (orders'[p] # None => orders'[p] = orders[p])
    BY <1>0, <2>1 DEF Known, Books
  <2> QED BY <2>3, <2>4 DEF LiveOrders, Live
<1> QED BY <1>2, <1>3, <1>4, <1>5

\* Every step of a running loop that has met no fault keeps every open order
\* managed.
LEMMA NextNoOrderLost ==
  ASSUME IInv, Settled, NoOrderLost, Next
  PROVE  NoOrderLost'
<1> USE DEF IInv
<1> SUFFICES ASSUME pc' # "down", faults' = 0, starts' = 0
             PROVE  LiveOrders' \subseteq {tracked'}
  BY DEF NoOrderLost
<1>1. faults = 0 /\ ~Faulty /\ starts = 0 /\ ~Start
  BY CleanBefore
<1>2. LiveOrders \subseteq {tracked'}
  BY <1>1, NothingOpenDropped, RunningBefore DEF NoOrderLost
<1>3. CASE PlaceEntry \/ Replace \/ PlaceMakerExit \/ PlaceMarketExit
  BY <1>2, <1>3, PlacedIsManaged
<1>4. CASE Passive(tracked')
  BY <1>2, <1>4, LiveShrinks
<1>5. CASE pc \in {"placeEntry", "replace", "placeExit"}
  BY <1>1, <1>3, <1>4, <1>5, PlacingSteps
<1>6. CASE pc \notin {"placeEntry", "replace", "placeExit"}
  <2>1. Effect
    BY NextEffect
  <2> QED BY <1>4, <1>6, <2>1 DEF Effect, LoopEffect, Filled, Placed, Taken
<1> QED BY <1>5, <1>6

\* Stuttering changes nothing.
LEMMA SameOrders ==
  ASSUME Settled, NoOrderLost, UNCHANGED vars
  PROVE  Settled' /\ NoOrderLost'
BY DEF vars, exchangeVars, localVars, boundVars, Settled, NoOrderLost,
       LiveOrders, Live, tracked, Tracked

\* The strengthened invariant holds in every reachable state.
LEMMA OrdersKept == Spec => []OrdersInv
<1>1. Init => OrdersInv
  <2>1. Init => Settled /\ NoOrderLost
    BY DEF Init, Settled, NoOrderLost, LiveOrders, Live
  <2> QED BY <2>1, InitInvariant DEF OrdersInv
<1>2. OrdersInv /\ [Next]_vars => OrdersInv'
  BY NextInvariant, NextSettled, NextNoOrderLost, SameOrders DEF OrdersInv
<1> QED BY <1>1, <1>2, PTL DEF Spec

\* No path of the loop loses an order that is on the book, as long as every
\* request is answered and the loop has not been restarted.
THEOREM OrdersNeverLost == Spec => []NoOrderLost
<1>1. OrdersInv => NoOrderLost
  BY DEF OrdersInv
<1> QED BY <1>1, OrdersKept, PTL

---------------------------------------------------------------------------
(* A drain that completes.                                                 *)

\* A loop is down after a step because its drain has completed, because it was
\* aborted, or because it was down and the exchange moved.
LEMMA DownSteps ==
  ASSUME Next, pc' = "down"
  PROVE  DrainCompleted \/ Abort \/ (Market /\ pc = "down")
<1> USE DEF GiveUp, Goto, EndIteration
<1>1. ~Boot /\ ~Snapshot
  BY DEF Boot, Snapshot, BootSnapshotFails, BootPositions, BootFlat, BootRestore,
       BootWithoutPrice, BootDone, Head, HeadUnhealthy, ReadOpenOrders,
       ReadPositions, ReadFails, CancelListed, Reconcile, Branch
<1>2. ~OrderBranch /\ ~Reprice /\ ~Timeout
  BY DEF OrderBranch, Reprice, Timeout, EntryFilled, ExitFilled, Finalize,
       OrderCanceled, OrderRests, RepriceDue, WaitedTooLong, CancelForReprice,
       Replace, ReplacePriceReject, ReplaceSyncReject,
       CancelForTimeout, Verify, VerifyRetry, AttemptOver, Branch
<1>3. ~HoldOrExit /\ ~PlaceAnswerLost /\ (Flat => DrainCompleted)
  BY DEF Flat, HoldOrExit, PlaceAnswerLost, NoDecision, Decide, PlaceEntry,
       EntryPriceReject, Hold, TriggerExit, PlaceMakerExit, PlaceMarketExit,
       ExitPriceReject, ExitSyncReject, SyncCheck, SyncClose
<1>4. ~Start /\ ~RequestDrain /\ (Market => pc = "down")
  BY DEF Start, RequestDrain, Market, localVars
<1> QED BY <1>1, <1>2, <1>3, <1>4 DEF Next, LoopStep

\* When the drain completes nothing is managed, so nothing is open; afterwards the
\* book can only shrink.
LEMMA NextDrainLeavesNoOrder ==
  ASSUME IInv, NoOrderLost, DrainLeavesNoOrder, Next
  PROVE  DrainLeavesNoOrder'
<1> USE DEF IInv
<1> SUFFICES ASSUME pc' = "down", draining', faults' = 0, starts' = 0
             PROVE  LiveOrders' = {}
  BY DEF DrainLeavesNoOrder
<1>1. faults = 0 /\ starts = 0
  BY CleanBefore
<1>2. CASE DrainCompleted
  <2>1. pc = "flat" /\ UNCHANGED exchangeVars
    BY <1>2 DEF DrainCompleted
  <2>2. LiveOrders \subseteq {None}
    BY <1>1, <2>1 DEF NoOrderLost, Control, tracked, Tracked
  <2>3. LiveOrders = {}
    BY <2>2, NoneAssumption DEF LiveOrders
  <2> QED BY <2>1, <2>3 DEF exchangeVars, LiveOrders, Live
<1>3. CASE Abort
  BY <1>3 DEF Abort
<1>4. CASE Market /\ pc = "down"
  <2>1. LiveOrders = {}
    BY <1>1, <1>4 DEF Market, localVars, DrainLeavesNoOrder
  <2>2. ~\E o \in OrderIds : Live(o)
    BY <2>1 DEF LiveOrders
  <2> QED BY <1>4, <2>2 DEF Market, Fill, CancelUnasked
<1> QED BY <1>2, <1>3, <1>4, DownSteps

\* A drain that has completed leaves no order on the book, as long as every request
\* was answered and the loop had not been restarted.
THEOREM DrainsLeaveNoOrder == Spec => []DrainLeavesNoOrder
<1> DEFINE Inv == OrdersInv /\ DrainLeavesNoOrder
<1>1. Init => DrainLeavesNoOrder
  BY DEF Init, DrainLeavesNoOrder
<1>2. Inv /\ [Next]_vars => DrainLeavesNoOrder'
  <2>1. ASSUME Inv, UNCHANGED vars
        PROVE  DrainLeavesNoOrder'
    BY <2>1 DEF vars, exchangeVars, localVars, boundVars, DrainLeavesNoOrder,
         LiveOrders, Live
  <2> QED BY <2>1, NextDrainLeavesNoOrder DEF OrdersInv
<1>3. Spec => []OrdersInv
  BY OrdersKept
<1> QED BY <1>1, <1>2, <1>3, PTL DEF Spec
=============================================================================
