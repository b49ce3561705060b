------------------------------ MODULE ExecutorLoop ------------------------------
(***************************************************************************)
(* The strategy loop of app/orchestrator.py with the startup and in-loop   *)
(* reconciliation of app/position_reconcile.py, running against            *)
(* OkxExchange.  The loop is one coroutine; every await is a request to the *)
(* exchange, so `pc' names the request the loop is waiting for and the     *)
(* exchange may move between any two steps.  What happens between two      *)
(* awaits is one step.                                                     *)
(*                                                                         *)
(* Time is abstracted to the thresholds the code compares it with, and it  *)
(* passes at the head of the loop, where `now' is read once for the whole  *)
(* iteration.  Prices are abstracted to their verdicts: whether take-profit *)
(* or stop-loss is hit and whether an order is stale are free choices.     *)
(***************************************************************************)
EXTENDS OkxExchange

CONSTANTS
  OrderSize,        \* execution.order_size, in lots
  ExitMaxAttempts,  \* exit_maker_max_attempts
  MarketFallback,   \* exit_market_fallback_enabled
  CooldownSec,      \* cooldown_sec of the strategy
  MaxFaults,        \* bound: requests that fail or answer in an exceptional way
  MaxStarts,        \* bound: starts of the loop after the first
  MaxDecisions      \* bound: entry decisions of the strategy

ASSUME OrderSizeAssumption == OrderSize \in Lots /\ OrderSize <= MaxNet
ASSUME AttemptsAssumption == ExitMaxAttempts \in Nat
ASSUME FallbackAssumption == MarketFallback \in BOOLEAN
\* 20 by default and in strategies.yaml; nothing in the code demands that it is
\* not 0, and with 0 the iteration that closes a position may decide an entry.
ASSUME CooldownAssumption == CooldownSec \in Nat \ {0}
ASSUME BoundsAssumption ==
  MaxFaults \in Nat /\ MaxStarts \in Nat /\ MaxDecisions \in Nat

VARIABLES
  pc,              \* the request the loop is about to make
  iter,            \* what this iteration has read from the exchange
  activeOrder,     \* active_order
  activePosition,  \* active_position
  cooldown,        \* now < cooldown_until of the strategy
  draining,        \* control.allow_new_entries is False
  faults, starts, decisions   \* counters for the bounds

localVars == <<pc, iter, activeOrder, activePosition, cooldown, draining>>
boundVars == <<faults, starts, decisions>>
vars == <<exchangeVars, localVars, boundVars>>

---------------------------------------------------------------------------
(* Local state.                                                            *)

\* How long an order has been waiting: 0 young, 1 the reprice interval has
\* passed, 2 the maximal wait has passed.
Waits == 0..2

\* How long a position has been held: 0 before timeout_at, 1 from timeout_at,
\* 2 from the end of the market grace period.
Ages == 0..2

ActiveOrder == [id: OrderIds, side: Sides, purpose: {"entry", "exit"},
                reduceOnly: BOOLEAN, size: Lots, wait: Waits]

ActivePosition == [side: {"long", "short"}, size: Lots, age: Ages,
                   attempts: 0..ExitMaxAttempts]

\* None differs from everything it stands in for.
ASSUME NoneAssumption ==
  /\ None \notin OrderIds
  /\ None \notin Order
  /\ None \notin ActiveOrder
  /\ None \notin ActivePosition

PositionSide(n) == IF n > 0 THEN "long" ELSE "short"
ExitSide(position) == IF position.side = "long" THEN "sell" ELSE "buy"

\* Slip: the exchange's signed size is taken for the size of the position.
PositionOfSigned(n, age) ==
  [side |-> PositionSide(n), size |-> n, age |-> age, attempts |-> 0]

\* A position of n lots; the attempt counter starts over.
PositionOf(n, age) ==
  [side |-> PositionSide(n), size |-> Abs(n), age |-> age, attempts |-> 0]

\* A restored position carries the exchange's creation time: any age.
FromOkx(n) == {PositionOf(n, age) : age \in Ages}

\* The counter saturates at the only value it is compared with.
AttemptFailed(position) ==
  [position EXCEPT !.attempts = Least(@ + 1, ExitMaxAttempts)]

\* Slip: without the grace deadline the market order may never come.
UseMarketAfterAttempts(position) ==
  MarketFallback /\ position.attempts > ExitMaxAttempts

UseMarket(position) ==
  MarketFallback /\ (position.attempts >= ExitMaxAttempts \/ position.age = 2)

Blank == [hasOrder |-> FALSE, hasPosition |-> FALSE, seen |-> 0,
          toCancel |-> {}, side |-> "buy"]

Tracked(order) == IF order = None THEN None ELSE order.id
tracked == Tracked(activeOrder)

Track(o, order, purpose) ==
  [id |-> o, side |-> order.side, purpose |-> purpose,
   reduceOnly |-> order.reduceOnly, size |-> order.size, wait |-> 0]

\* active_order = None: its order is forgotten unless it is still open.
Forget == orders' = Known(orders, None) /\ net' = net
DropOrder == activeOrder' = None /\ Forget

Goto(l) == pc' = l /\ UNCHANGED iter
EndIteration == pc' = "head" /\ iter' = Blank

Faulty == faults < MaxFaults /\ faults' = faults + 1
Healthy == UNCHANGED faults
SameBounds == UNCHANGED <<starts, decisions>>
KeepLocal == UNCHANGED <<activeOrder, activePosition, cooldown, draining>>

\* The outer `except Exception': the iteration is given up, locals are kept.
GiveUp == EndIteration /\ KeepLocal /\ SameBounds

\* The iteration goes on with the branch for no position or for a position.
Branch(position) == IF position = None THEN "flat" ELSE "exit"

Init ==
  /\ orders = [o \in OrderIds |-> None]
  /\ net = 0
  /\ pc = "bootPositions"
  /\ iter = Blank
  /\ activeOrder = None
  /\ activePosition = None
  /\ cooldown = FALSE
  /\ draining = FALSE
  /\ faults = 0
  /\ starts = 0
  /\ decisions = 0

---------------------------------------------------------------------------
(* Startup: bootstrap_position_on_startup.                                 *)

BootSnapshotFails ==
  /\ pc \in {"bootPositions", "bootOrders"}
  /\ Faulty
  /\ GiveUp
  /\ UNCHANGED exchangeVars

BootPositions ==
  /\ pc = "bootPositions"
  /\ pc' = "bootOrders"
  /\ iter' = [iter EXCEPT !.seen = net]
  /\ KeepLocal /\ SameBounds /\ Healthy
  /\ UNCHANGED exchangeVars

\* Slip: only orders with an executor prefix are cancelled at startup.
BootFlatByPrefix ==
  /\ pc = "bootOrders"
  /\ iter.seen = 0
  /\ pc' = "bootCancel"
  /\ iter' = [iter EXCEPT !.toCancel = {o \in LiveOrders : orders[o].kind # "signal"}]
  /\ KeepLocal /\ SameBounds /\ Healthy
  /\ UNCHANGED exchangeVars

\* The exchange was flat: every open order is cancelled.
BootFlat ==
  /\ pc = "bootOrders"
  /\ iter.seen = 0
  /\ pc' = "bootCancel"
  /\ iter' = [iter EXCEPT !.toCancel = LiveOrders]
  /\ KeepLocal /\ SameBounds /\ Healthy
  /\ UNCHANGED exchangeVars

\* is_probable_exit_order: the open orders on the exit side.
ExitOrders(position) ==
  {o \in LiveOrders : orders[o].side = ExitSide(position)}

\* The first of them is taken as the exit order, whatever it was placed as.
Adopted(position) ==
  IF ExitOrders(position) = {} THEN {None}
  ELSE {[id |-> o, side |-> ExitSide(position), purpose |-> "exit",
         reduceOnly |-> TRUE, size |-> position.size, wait |-> 0] :
          o \in ExitOrders(position)}

\* A position was found: it is restored, one open order on its exit side is
\* adopted as the exit order, and the orders on the other side are cancelled.
BootRestore ==
  /\ pc = "bootOrders"
  /\ iter.seen # 0
  /\ \E position \in FromOkx(iter.seen) :
       /\ activePosition' = position
       /\ activeOrder' \in Adopted(position)
       /\ iter' = [iter EXCEPT !.toCancel = LiveOrders \ ExitOrders(position)]
  /\ pc' = "bootCancel"
  /\ SameBounds /\ Healthy
  /\ UNCHANGED <<exchangeVars, cooldown, draining>>

\* The snapshot has no average price: nothing is restored or cancelled.
BootWithoutPrice ==
  /\ pc = "bootOrders"
  /\ iter.seen # 0
  /\ Faulty
  /\ GiveUp
  /\ UNCHANGED exchangeVars

---------------------------------------------------------------------------
(* Cancel requests.  The answer is "done" (sCode 51400) when the order is  *)
(* no longer open.  A request that fails, or whose cancellation takes      *)
(* effect late, may or may not have reached the order.                     *)

CancelDone(o) ==
  /\ \/ Live(o) /\ MarkCanceled(o, tracked)
     \/ ~Live(o) /\ UNCHANGED exchangeVars
  /\ Healthy

CancelUncertain(o) ==
  /\ Faulty
  /\ \/ Live(o) /\ MarkCanceled(o, tracked)
     \/ UNCHANGED exchangeVars

\* One order of the startup list, of the sweep list: failures are ignored.
CancelListed ==
  /\ pc \in {"bootCancel", "sweep"}
  /\ \E o \in iter.toCancel :
       /\ CancelDone(o) \/ CancelUncertain(o)
       /\ iter' = [iter EXCEPT !.toCancel = @ \ {o}]
  /\ KeepLocal /\ SameBounds
  /\ UNCHANGED pc

BootDone ==
  /\ pc = "bootCancel"
  /\ iter.toCancel = {}
  /\ GiveUp /\ Healthy
  /\ UNCHANGED exchangeVars

---------------------------------------------------------------------------
(* The head of an iteration and its snapshots.                             *)

Older(order) ==
  IF order = None THEN {None}
  ELSE {[order EXCEPT !.wait = w] : w \in {v \in Waits : v >= order.wait}}

Aged(position) ==
  IF position = None THEN {None}
  ELSE {[position EXCEPT !.age = a] : a \in {b \in Ages : b >= position.age}}

\* `now' is read; ticker and account answer.
Head ==
  /\ pc = "head"
  /\ Goto("openOrders")
  /\ activeOrder' \in Older(activeOrder)
  /\ activePosition' \in Aged(activePosition)
  /\ cooldown' \in {cooldown, FALSE}
  /\ SameBounds /\ Healthy
  /\ UNCHANGED <<exchangeVars, draining>>

\* Ticker or account fails: sleep and start over, before any other check.
HeadUnhealthy ==
  /\ pc = "head"
  /\ Faulty
  /\ GiveUp
  /\ UNCHANGED exchangeVars

\* Slip: the prefix "entry" is missing.
SweepableExit(order) == order.kind = "exit"

\* _is_executor_client_id of an order's client id as the exchange stores it,
\* without punctuation: "rb-" is never matched, "entry" and "exit" are.
Sweepable(order) == order.kind # "signal"

\* has_active_order is taken from the open orders, before positions are read.
\* With nothing at hand locally, the executor's own orders will be swept.
ReadOpenOrders ==
  /\ pc = "openOrders"
  /\ pc' = "positions"
  /\ iter' = [iter EXCEPT
       !.hasOrder = LiveOrders # {} \/ activeOrder # None,
       !.toCancel = IF activeOrder = None /\ activePosition = None
                    THEN {o \in LiveOrders : Sweepable(orders[o])}
                    ELSE {}]
  /\ KeepLocal /\ SameBounds /\ Healthy
  /\ UNCHANGED exchangeVars

ReadPositions ==
  /\ pc = "positions"
  /\ pc' = "sweep"
  /\ iter' = [iter EXCEPT !.seen = net,
                          !.hasPosition = net # 0 \/ activePosition # None]
  /\ KeepLocal /\ SameBounds /\ Healthy
  /\ UNCHANGED exchangeVars

ReadFails ==
  /\ pc \in {"openOrders", "positions", "getOrder"}
  /\ Faulty
  /\ GiveUp
  /\ UNCHANGED exchangeVars

\* Slip: no reconciliation inside the loop.
ReconcileNever ==
  /\ pc = "sweep"
  /\ iter.toCancel = {}
  /\ pc' = IF activeOrder # None THEN "getOrder" ELSE Branch(activePosition)
  /\ UNCHANGED iter
  /\ KeepLocal /\ SameBounds /\ Healthy
  /\ UNCHANGED exchangeVars

\* reconcile_exchange_position_if_needed, once the sweep is through.
Reconcile ==
  /\ pc = "sweep"
  /\ iter.toCancel = {}
  /\ IF activePosition = None /\ iter.seen # 0
     THEN \/ Healthy /\ activePosition' \in FromOkx(iter.seen)
          \/ Faulty /\ activePosition' = None      \* no average price
     ELSE Healthy /\ UNCHANGED activePosition
  /\ pc' = IF activeOrder # None THEN "getOrder" ELSE Branch(activePosition')
  /\ iter' = [iter EXCEPT !.hasPosition = @ \/ activePosition' # None]
  /\ SameBounds
  /\ UNCHANGED <<exchangeVars, activeOrder, cooldown, draining>>

---------------------------------------------------------------------------
(* The state of the active order, from get_order.                          *)

current == orders[activeOrder.id]

EntryFilled ==
  /\ pc = "getOrder"
  /\ current.state = "filled"
  /\ activeOrder.purpose = "entry"
  /\ activePosition' = PositionOf(Signed(current.side, current.size), 0)
  /\ iter' = [iter EXCEPT !.hasPosition = TRUE, !.hasOrder = FALSE]
  /\ pc' = "exit"
  /\ DropOrder
  /\ SameBounds /\ Healthy
  /\ UNCHANGED <<cooldown, draining>>

\* The fees are fetched before the close is recorded.
ExitFilled ==
  /\ pc = "getOrder"
  /\ current.state = "filled"
  /\ activeOrder.purpose = "exit"
  /\ Goto("finalize")
  /\ KeepLocal /\ SameBounds /\ Healthy
  /\ UNCHANGED exchangeVars

\* Slip: the closed trade starts no cooldown.
ClosePositionUncooled == activePosition' = None /\ UNCHANGED cooldown

\* on_position_closed: cooldown_until lies cooldown_sec after `now'.
ClosePosition ==
  /\ activePosition' = None
  /\ cooldown' = (cooldown \/ (activePosition # None /\ CooldownSec > 0))

\* finalize_closed_trade, strategy.on_position_closed and the reset of locals.
Finalize ==
  /\ pc = "finalize"
  /\ ClosePosition
  /\ DropOrder
  /\ iter' = [iter EXCEPT !.hasOrder = FALSE,
                !.hasPosition = @ /\ activePosition = None]
  /\ pc' = "flat"
  /\ SameBounds /\ Healthy
  /\ UNCHANGED draining

\* The order ended without the fill.  An exit counts as a failed attempt;
\* has_active_order stays as the snapshot had it.
AttemptOver ==
  /\ activePosition' = IF activeOrder.purpose = "exit" /\ activePosition # None
                       THEN AttemptFailed(activePosition) ELSE activePosition
  /\ activeOrder' = None
  /\ Goto(Branch(activePosition))
  /\ UNCHANGED <<cooldown, draining>>

OrderCanceled ==
  /\ pc = "getOrder"
  /\ current.state = "canceled"
  /\ AttemptOver /\ Forget
  /\ SameBounds /\ Healthy

\* The order rests and neither threshold has passed.
OrderRests ==
  /\ pc = "getOrder"
  /\ current.state = "live"
  /\ activeOrder.wait = 0
  /\ GiveUp /\ Healthy
  /\ UNCHANGED exchangeVars

\* The reprice interval has passed, or (at any earlier time) the price is stale.
RepriceDue ==
  /\ pc = "getOrder"
  /\ current.state = "live"
  /\ activeOrder.wait < 2
  /\ Goto("cancelReprice")
  /\ KeepLocal /\ SameBounds /\ Healthy
  /\ UNCHANGED exchangeVars

WaitedTooLong ==
  /\ pc = "getOrder"
  /\ current.state = "live"
  /\ activeOrder.wait = 2
  /\ Goto("cancelTimeout")
  /\ KeepLocal /\ SameBounds /\ Healthy
  /\ UNCHANGED exchangeVars

---------------------------------------------------------------------------
(* Repricing: cancel, then place the same size again.                      *)

\* Slip: the replacement is placed without a cancel.
CancelForRepriceNot ==
  /\ pc = "cancelReprice"
  /\ Goto("replace")
  /\ KeepLocal /\ SameBounds /\ Healthy
  /\ UNCHANGED exchangeVars

\* A cancel that is answered "already done" goes on to the replacement too.
CancelForReprice ==
  /\ pc = "cancelReprice"
  /\ \/ CancelDone(activeOrder.id) /\ Goto("replace")
     \/ CancelUncertain(activeOrder.id) /\ (Goto("replace") \/ EndIteration)
  /\ KeepLocal /\ SameBounds

\* Slip: the flag is not carried over.
ReplacementOpen == NewOrder(activeOrder.side, activeOrder.purpose,
                            FALSE, activeOrder.size)

Replacement == NewOrder(activeOrder.side, activeOrder.purpose,
                        activeOrder.reduceOnly, activeOrder.size)

Replace ==
  /\ pc = "replace"
  /\ \E o \in OrderIds :
       /\ Rest(o, Replacement, o)
       /\ activeOrder' = [activeOrder EXCEPT !.id = o, !.wait = 0]
  /\ EndIteration
  /\ SameBounds /\ Healthy
  /\ UNCHANGED <<activePosition, cooldown, draining>>

\* sCode 51006: the price left the exchange's band.
ReplacePriceReject ==
  /\ pc = "replace"
  /\ DropOrder
  /\ EndIteration
  /\ SameBounds /\ Healthy
  /\ UNCHANGED <<activePosition, cooldown, draining>>

\* Slip: the rejected order stays the active one.
ReplaceSyncRejectKept ==
  /\ pc = "replace"
  /\ activeOrder.purpose = "exit"
  /\ ~Accepts(Replacement)
  /\ IF activePosition = None THEN EndIteration ELSE Goto("syncCheck")
  /\ KeepLocal /\ SameBounds /\ Healthy
  /\ UNCHANGED exchangeVars

\* sCode 51169, 51170: an exit has nothing to reduce.
ReplaceSyncReject ==
  /\ pc = "replace"
  /\ activeOrder.purpose = "exit"
  /\ ~Accepts(Replacement)
  /\ DropOrder
  /\ IF activePosition = None THEN EndIteration ELSE Goto("syncCheck")
  /\ SameBounds /\ Healthy
  /\ UNCHANGED <<activePosition, cooldown, draining>>

---------------------------------------------------------------------------
(* Timeout: cancel, look again, cancel once more if the order is open.     *)

CancelForTimeout ==
  /\ pc = "cancelTimeout"
  /\ \/ CancelDone(activeOrder.id) /\ Goto("verify")
     \/ CancelUncertain(activeOrder.id) /\ (Goto("verify") \/ EndIteration)
  /\ KeepLocal /\ SameBounds

Verify ==
  /\ pc = "verify"
  /\ \/ current.state = "live" /\ Goto("verifyRetry") /\ KeepLocal
        /\ UNCHANGED exchangeVars /\ Healthy
     \/ current.state # "live" /\ AttemptOver /\ Forget /\ Healthy
     \/ Faulty /\ EndIteration /\ KeepLocal /\ UNCHANGED exchangeVars
  /\ SameBounds

\* The order is given up whatever the second cancel answers.
VerifyRetry ==
  /\ pc = "verifyRetry"
  /\ AttemptOver
  /\ \/ Live(activeOrder.id) /\ MarkCanceled(activeOrder.id, None) /\ Healthy
     \/ ~Live(activeOrder.id) /\ Forget /\ Healthy
     \/ Forget /\ Faulty
  /\ SameBounds

---------------------------------------------------------------------------
(* No position: drain, decide or wait.                                     *)

\* Draining with an order on the book, or the strategy decides nothing.
NoDecision ==
  /\ pc = "flat"
  /\ draining => iter.hasOrder
  /\ GiveUp /\ Healthy
  /\ UNCHANGED exchangeVars

\* Slips: one of the two snapshots is not looked at.
DecideUnheld ==
  /\ pc = "flat"
  /\ ~draining /\ ~iter.hasOrder /\ ~cooldown
  /\ decisions < MaxDecisions
  /\ decisions' = decisions + 1
  /\ \E side \in Sides : iter' = [iter EXCEPT !.side = side]
  /\ pc' = "placeEntry"
  /\ KeepLocal /\ Healthy
  /\ UNCHANGED <<exchangeVars, starts>>

DecideUnordered ==
  /\ pc = "flat"
  /\ ~draining /\ ~iter.hasPosition /\ ~cooldown
  /\ decisions < MaxDecisions
  /\ decisions' = decisions + 1
  /\ \E side \in Sides : iter' = [iter EXCEPT !.side = side]
  /\ pc' = "placeEntry"
  /\ KeepLocal /\ Healthy
  /\ UNCHANGED <<exchangeVars, starts>>

\* strategy.should_decide and make_decision.
Decide ==
  /\ pc = "flat"
  /\ ~draining
  /\ ~iter.hasPosition
  /\ ~iter.hasOrder
  /\ ~cooldown
  /\ decisions < MaxDecisions
  /\ decisions' = decisions + 1
  /\ \E side \in Sides : iter' = [iter EXCEPT !.side = side]
  /\ pc' = "placeEntry"
  /\ KeepLocal /\ Healthy
  /\ UNCHANGED <<exchangeVars, starts>>

Entry == NewOrder(iter.side, "signal", FALSE, OrderSize)

PlaceEntry ==
  /\ pc = "placeEntry"
  /\ \E o \in OrderIds :
       /\ Rest(o, Entry, o)
       /\ activeOrder' = Track(o, Entry, "entry")
  /\ EndIteration
  /\ SameBounds /\ Healthy
  /\ UNCHANGED <<activePosition, cooldown, draining>>

EntryPriceReject ==
  /\ pc = "placeEntry"
  /\ GiveUp /\ Healthy
  /\ UNCHANGED exchangeVars

---------------------------------------------------------------------------
(* A position: hold it, or place its exit.                                 *)

\* Neither the timeout nor a price has been reached.
Hold ==
  /\ pc = "exit"
  /\ activePosition.age = 0
  /\ GiveUp /\ Healthy
  /\ UNCHANGED exchangeVars

\* check_exit_reason gives take-profit, stop-loss or timeout.
TriggerExit ==
  /\ pc = "exit"
  /\ Goto("placeExit")
  /\ KeepLocal /\ SameBounds /\ Healthy
  /\ UNCHANGED exchangeVars

\* Slip: reduceOnly is not set.
ExitOpen == NewOrder(ExitSide(activePosition), "exit", FALSE, activePosition.size)

Exit == NewOrder(ExitSide(activePosition), "exit", TRUE, activePosition.size)

PlaceMakerExit ==
  /\ pc = "placeExit"
  /\ ~UseMarket(activePosition)
  /\ \E o \in OrderIds :
       /\ Rest(o, Exit, o)
       /\ activeOrder' = Track(o, Exit, "exit")
  /\ EndIteration
  /\ SameBounds /\ Healthy
  /\ UNCHANGED <<activePosition, cooldown, draining>>

PlaceMarketExit ==
  /\ pc = "placeExit"
  /\ UseMarket(activePosition)
  /\ TakeMarket(Exit)
  /\ \E o \in Unused :
       /\ orders' = Known([orders EXCEPT ![o] =
                      [Exit EXCEPT !.done = Exit.size, !.state = "filled"]], o)
       /\ activeOrder' = Track(o, Exit, "exit")
  /\ EndIteration
  /\ SameBounds /\ Healthy
  /\ UNCHANGED <<activePosition, cooldown, draining>>

\* A maker exit outside the price band ends the iteration (outer except).
ExitPriceReject ==
  /\ pc = "placeExit"
  /\ ~UseMarket(activePosition)
  /\ GiveUp /\ Healthy
  /\ UNCHANGED exchangeVars

ExitSyncReject ==
  /\ pc = "placeExit"
  /\ ~Accepts(Exit)
  /\ Goto("syncCheck")
  /\ KeepLocal /\ SameBounds /\ Healthy
  /\ UNCHANGED exchangeVars

\* The reduce-only order was rejected: is the exchange flat?
SyncCheck ==
  /\ pc = "syncCheck"
  /\ \/ net = 0 /\ Goto("syncClose") /\ KeepLocal /\ Healthy
     \/ net # 0 /\ EndIteration /\ KeepLocal /\ Healthy
     \/ EndIteration /\ KeepLocal /\ Faulty
  /\ SameBounds
  /\ UNCHANGED exchangeVars

\* finalize_reconciled_close and the reset of locals.
SyncClose ==
  /\ pc = "syncClose"
  /\ ClosePosition
  /\ EndIteration
  /\ SameBounds /\ Healthy
  /\ UNCHANGED <<exchangeVars, activeOrder, draining>>

---------------------------------------------------------------------------
(* Requests whose answer is lost, and the end of the coroutine.            *)

\* The exchange carries out the order request of the current await.
CarriedOut(kept) ==
  \/ pc = "placeEntry" /\ \E o \in OrderIds : Rest(o, Entry, kept)
  \/ pc = "replace" /\ \E o \in OrderIds : Rest(o, Replacement, kept)
  \/ pc = "placeExit" /\ ~UseMarket(activePosition)
       /\ \E o \in OrderIds : Rest(o, Exit, kept)
  \/ pc = "placeExit" /\ UseMarket(activePosition)
       /\ TakeMarket(Exit) /\ orders' = Known(orders, kept)

\* A request that places an order fails: timeout, HTTP or connection error.
\* The order may have been placed all the same.
PlaceAnswerLost ==
  /\ pc \in {"placeEntry", "replace", "placeExit"}
  /\ Faulty
  /\ GiveUp
  /\ CarriedOut(tracked) \/ UNCHANGED exchangeVars

Ended ==
  /\ pc' = "down"
  /\ iter' = Blank
  /\ activeOrder' = None
  /\ activePosition' = None
  /\ cooldown' = FALSE
  /\ SameBounds /\ Healthy

\* drain completed: no new entries are allowed and no order was open.
DrainCompleted ==
  /\ pc = "flat"
  /\ draining
  /\ ~iter.hasOrder
  /\ Ended
  /\ UNCHANGED <<exchangeVars, draining>>

\* Force stop (the task is cancelled at an await), crash of the process, or a
\* run limit: the locals are gone, the exchange keeps what it has, and an
\* order request under way may still be carried out.
Abort ==
  /\ pc # "down"
  /\ Ended
  /\ draining' = FALSE
  /\ Forget \/ CarriedOut(None)

Start ==
  /\ pc = "down"
  /\ starts < MaxStarts
  /\ starts' = starts + 1
  /\ Goto("bootPositions")
  /\ draining' = FALSE
  /\ Healthy
  /\ UNCHANGED <<exchangeVars, activeOrder, activePosition, cooldown, decisions>>

\* request_drain_stop, from the strategy manager.
RequestDrain ==
  /\ pc # "down"
  /\ ~draining
  /\ draining' = TRUE
  /\ UNCHANGED <<exchangeVars, pc, iter, activeOrder, activePosition, cooldown,
                 boundVars>>

---------------------------------------------------------------------------
Market ==
  /\ \E o \in OrderIds :
       \/ \E q \in 1..MaxNet : Fill(o, q, tracked)
       \/ CancelUnasked(o, tracked)
  /\ UNCHANGED <<localVars, boundVars>>

Boot == BootSnapshotFails \/ BootPositions \/ BootFlat \/ BootRestore
          \/ BootWithoutPrice \/ BootDone
Snapshot == Head \/ HeadUnhealthy \/ ReadOpenOrders \/ ReadPositions
              \/ ReadFails \/ CancelListed \/ Reconcile
OrderBranch == EntryFilled \/ ExitFilled \/ Finalize \/ OrderCanceled
                 \/ OrderRests \/ RepriceDue \/ WaitedTooLong
Reprice == CancelForReprice \/ Replace \/ ReplacePriceReject \/ ReplaceSyncReject
Timeout == CancelForTimeout \/ Verify \/ VerifyRetry
Flat == NoDecision \/ Decide \/ PlaceEntry \/ EntryPriceReject \/ DrainCompleted
HoldOrExit == Hold \/ TriggerExit \/ PlaceMakerExit \/ PlaceMarketExit
                \/ ExitPriceReject \/ ExitSyncReject \/ SyncCheck \/ SyncClose

\* A step of the coroutine.
LoopStep == Boot \/ Snapshot \/ OrderBranch \/ Reprice \/ Timeout \/ Flat
              \/ HoldOrExit \/ PlaceAnswerLost

Next == LoopStep \/ Abort \/ Start \/ RequestDrain \/ Market

Spec == Init /\ [][Next]_vars

---------------------------------------------------------------------------
(* Fairness.  The event loop resumes a coroutine whose request is answered, *)
(* and every request has a timeout.  Time passes: iterations go on and each *)
(* threshold is reached at some head.  A stopped process is started again.  *)

Oldest(order) == IF order = None THEN None ELSE [order EXCEPT !.wait = 2]
Eldest(position) == IF position = None THEN None ELSE [position EXCEPT !.age = 2]

TimePasses ==
  /\ Head
  /\ activeOrder' = Oldest(activeOrder)
  /\ activePosition' = Eldest(activePosition)
  /\ cooldown' = FALSE

Fairness == WF_vars(LoopStep) /\ SF_vars(TimePasses) /\ WF_vars(Start)

FairSpec == Spec /\ Fairness

---------------------------------------------------------------------------
(* Type invariant.                                                         *)

Steps == {"down", "bootPositions", "bootOrders", "bootCancel", "head",
          "openOrders", "positions", "sweep", "getOrder", "finalize",
          "cancelReprice", "replace", "cancelTimeout", "verify", "verifyRetry",
          "flat", "placeEntry", "exit", "placeExit", "syncCheck", "syncClose"}

Iteration == [hasOrder: BOOLEAN, hasPosition: BOOLEAN, seen: Int,
              toCancel: SUBSET OrderIds, side: Sides]

TypeOK ==
  /\ orders \in [OrderIds -> Order \cup {None}]
  /\ net \in Int
  /\ pc \in Steps
  /\ iter \in Iteration
  /\ activeOrder \in ActiveOrder \cup {None}
  /\ activePosition \in ActivePosition \cup {None}
  /\ cooldown \in BOOLEAN
  /\ draining \in BOOLEAN
  /\ faults \in Nat /\ starts \in Nat /\ decisions \in Nat

---------------------------------------------------------------------------
(* Safety.                                                                 *)

\* An entry is submitted only when the exchange holds no position and no
\* open order: the snapshots of this iteration, taken some awaits ago
\* (orchestrator.py 194-197), are still true when the order is placed.
EntryOnlyWhenFlat == pc = "placeEntry" => net = 0 /\ LiveOrders = {}

\* Every exit order on the book is reduce-only, however often it was repriced
\* and whether it was placed or adopted, so an exit never opens a position.
ExitIsReduceOnly ==
  \A o \in LiveOrders : orders[o].kind = "exit" => orders[o].reduceOnly

\* The order the loop manages as an exit is reduce-only, belongs to a held
\* position and is on the side that closes it.
ExitMatchesPosition ==
  activeOrder # None /\ activeOrder.purpose = "exit" =>
    /\ activePosition # None
    /\ activeOrder.side = ExitSide(activePosition)
    /\ activeOrder.reduceOnly

\* The direction the loop believes it holds is never the opposite of what
\* the exchange holds.
SidesAgree ==
  activePosition # None /\ net # 0 => activePosition.side = PositionSide(net)

\* Everything that may open or enlarge a position works in the direction of
\* the position there is: a resting entry never turns a position around.
EntriesNeverOppose ==
  \A o \in LiveOrders :
    ~orders[o].reduceOnly => Signed(orders[o].side, net) >= 0

\* As long as no request has failed and the loop was not restarted, a running
\* loop manages every open order: no path loses one that is on the book.
NoOrderLost ==
  pc # "down" /\ faults = 0 /\ starts = 0 => LiveOrders \subseteq {tracked}

\* A drain that has completed leaves no order behind on the exchange, on the same
\* condition: has_active_order, read some awaits ago (orchestrator.py 194) or reset by
\* a fill (305, 366) since, still tells the truth when the loop ends.
DrainLeavesNoOrder ==
  pc = "down" /\ draining /\ faults = 0 /\ starts = 0 => LiveOrders = {}

\* A step never turns a long position into a short one or the other way round.
NoReversal == [][net' = 0 \/ Abs(net + net') = Abs(net) + Abs(net')]_vars

\* The loop implements TradeCycle.
cyclePhase ==
  IF activeOrder # None
  THEN IF activeOrder.purpose = "entry" THEN "entering" ELSE "exiting"
  ELSE IF activePosition # None THEN "holding" ELSE "flat"

Cycle == INSTANCE TradeCycle WITH
  phase <- cyclePhase,
  exposure <- IF net = 0 THEN "none" ELSE PositionSide(net)

ImplementsTradeCycle == Cycle!Spec

---------------------------------------------------------------------------
(* Liveness, under FairSpec.                                               *)

\* A held position is closed in the end, with the market order as the last
\* resort, whatever the market does and however requests fail for a while.
PositionEventuallyClosed ==
  activePosition # None ~> activePosition = None

\* Exposure at the exchange is closed in the end while the loop runs: also
\* when it came from an order the loop lost sight of or from before a restart.
ExposureEventuallyClosed == net # 0 ~> net = 0 \/ pc = "down"

\* A repriced entry whose request got lost does not stay on the book.
StrayRepriceSwept ==
  \A o \in OrderIds :
    Live(o) /\ orders[o].kind = "entry" /\ tracked # o
      ~> ~Live(o) \/ pc = "down"

\* A drained strategy stops, as long as every request is answered: also after
\* a restart in the middle of an order request.
DrainStopsIfAnswered == draining ~> pc = "down" \/ faults > 0

---------------------------------------------------------------------------
(* What the documentation says and the code does not do.                   *)

\* docs/strategies/random_execution_baseline.md: at most one open position
\* of fixed size.
OnePositionOfFixedSize == Abs(net) <= OrderSize

\* README: drain finishes the current cycle correctly.
DrainLeavesFlat == pc = "down" /\ draining => net = 0

\* README: a drained strategy stops.
DrainEventuallyStops == draining ~> pc = "down"
=============================================================================
