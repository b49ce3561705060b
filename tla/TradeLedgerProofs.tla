------------------------- MODULE TradeLedgerProofs -------------------------
(***************************************************************************)
(* Theorems about TradeLedger, for every value of its constants.           *)
(*                                                                         *)
(* Every step of the ledger is a step of the loop, so what holds of the    *)
(* loop holds with its ledger (LedgerRefinesLoop).  The invariant of the   *)
(* ledger relates the rows and the tracker to where the trade is: an entry *)
(* has a tracker, a position that the loop saw filled is bound to it, an   *)
(* exit has been triggered, and before the first entry there is nothing.   *)
(***************************************************************************)
EXTENDS TradeLedger, ExecutorLoopOrderProofs

EntryPending == activeOrder # None /\ activeOrder.purpose = "entry"
Exiting ==
  \/ pc \in {"placeExit", "syncCheck", "syncClose"}
  \/ activeOrder # None /\ activeOrder.purpose = "exit"
Beginning == pc \in {"bootPositions", "bootOrders"}

Bound == lifecycle # None /\ lifecycle.bound # None

\* The loop has an id exactly for the position it holds.
Identified == activePosition = None <=> positionId = None

\* What the tracker of the trade knows at each stage of it.
Stages ==
  /\ EntryPending /\ activePosition # None => positionId = ExchangeId
  /\ EntryPending \/ pc = "placeEntry" => lifecycle # None
  /\ Exiting /\ lifecycle # None => lifecycle.triggered
  /\ Beginning \/ pc = "down" => lifecycle = None

\* Before a restart: nothing is on record at first, and a position with an id of
\* its own is the one whose entry the tracker followed.
FirstRun ==
  starts = 0 =>
    /\ Beginning => \A id \in RowIds : rows[id] = None
    /\ positionId \in EntryRows => Bound

LedgerInv ==
  /\ LedgerTypeOK /\ HeldPositionOnRecord /\ Identified /\ TrackerOfHeldPosition
  /\ Stages /\ FirstRun /\ NoRowForgotten /\ TradesAccounted

---------------------------------------------------------------------------
(* The ledger and the loop.                                                *)

\* Every step of the ledger is a step of the loop, and stutters with it.
LEMMA LedgerSteps ==
  ASSUME [Recorded \/ Unrecorded]_allVars
  PROVE  [Next]_vars
<1>1. CASE Recorded
  BY <1>1 DEF Recorded, LedgerBootRestore, LedgerBootFlat, LedgerReconcile,
       LedgerEntryFilled, LedgerDecide, LedgerOrderCanceled, LedgerTriggerExit,
       LedgerFinalize, LedgerSyncClose, LedgerEnded, LedgerCrashInClose,
       Next, LoopStep, Boot, Snapshot, OrderBranch, Flat, HoldOrExit
<1>2. CASE Unrecorded
  BY <1>2 DEF Unrecorded, Next, LoopStep, Boot, Snapshot, OrderBranch, Flat,
       HoldOrExit
<1>3. CASE UNCHANGED allVars
  BY <1>3 DEF allVars
<1> QED BY <1>1, <1>2, <1>3

\* The loop with its ledger is the loop: its properties hold here too.
THEOREM LedgerRefinesLoop == LedgerSpec => Spec
<1>1. LedgerInit => Init
  BY DEF LedgerInit
<1>2. [Recorded \/ Unrecorded]_allVars => [Next]_vars
  BY LedgerSteps
<1> QED BY <1>1, <1>2, PTL DEF LedgerSpec, Spec

---------------------------------------------------------------------------
(* The steps that leave the ledger alone.                                  *)

\* The position is the one it was, but for its age and its failed attempts.
SamePosition ==
  /\ activePosition' = None <=> activePosition = None
  /\ activePosition # None => /\ activePosition'.side = activePosition.side
                              /\ activePosition'.size = activePosition.size

\* A failed attempt and an order that is given up leave the position.
LEMMA AttemptOverPosition ==
  ASSUME TypeOK, AttemptOver
  PROVE  SamePosition
BY AttemptType DEF AttemptOver, TypeOK, SamePosition

\* A step that is not recorded leaves the position.
LEMMA QuietPosition ==
  ASSUME TypeOK, Unrecorded
  PROVE  SamePosition
<1> USE DEF GiveUp, KeepLocal
<1>0. ASSUME UNCHANGED activePosition PROVE SamePosition
  BY <1>0 DEF SamePosition
<1>1. CASE Head
  <2>1. activePosition' \in Aged(activePosition)
    BY <1>1 DEF Head
  <2> QED BY <2>1, AgedType DEF TypeOK, SamePosition
<1>2. CASE Timeout
  BY <1>0, <1>2, AttemptOverPosition DEF Timeout, CancelForTimeout, Verify, VerifyRetry
<1>3. CASE Reprice
  BY <1>0, <1>3 DEF Reprice, CancelForReprice, Replace, ReplacePriceReject,
       ReplaceSyncReject
<1>4. CASE \/ BootSnapshotFails \/ BootPositions \/ BootWithoutPrice \/ BootDone
           \/ HeadUnhealthy \/ ReadOpenOrders \/ ReadPositions \/ ReadFails
           \/ CancelListed
  BY <1>0, <1>4 DEF BootSnapshotFails, BootPositions, BootWithoutPrice, BootDone,
       HeadUnhealthy, ReadOpenOrders, ReadPositions, ReadFails, CancelListed
<1>5. CASE \/ ExitFilled \/ OrderRests \/ RepriceDue \/ WaitedTooLong
           \/ NoDecision \/ PlaceEntry \/ EntryPriceReject
           \/ Hold \/ PlaceMakerExit \/ PlaceMarketExit \/ ExitPriceReject
           \/ ExitSyncReject \/ SyncCheck \/ PlaceAnswerLost
  BY <1>0, <1>5 DEF ExitFilled, OrderRests, RepriceDue, WaitedTooLong, NoDecision,
       PlaceEntry, EntryPriceReject, Hold, PlaceMakerExit, PlaceMarketExit,
       ExitPriceReject, ExitSyncReject, SyncCheck, PlaceAnswerLost
<1>6. CASE Start \/ RequestDrain \/ Market
  BY <1>0, <1>6 DEF Start, RequestDrain, Market, localVars
<1> QED BY <1>1, <1>2, <1>3, <1>4, <1>5, <1>6 DEF Unrecorded

ExitSteps == {"placeExit", "syncCheck", "syncClose"}

\* An order becomes an entry only where an entry is placed, and no exit begins.
SameStage ==
  /\ EntryPending' => EntryPending \/ (pc = "placeEntry" /\ activePosition = None)
  /\ pc' = "placeEntry" => pc = "placeEntry"
  /\ Exiting' => Exiting

\* The trade goes on as it was when the order does, or is dropped.
LEMMA OrderKept ==
  ASSUME activeOrder' = None \/ activeOrder' = activeOrder,
         pc' = "placeEntry" => pc = "placeEntry",
         pc' \in ExitSteps => Exiting
  PROVE  SameStage
BY DEF SameStage, EntryPending, Exiting, ExitSteps

\* A step that is not recorded leaves the trade at its stage.
LEMMA QuietOrder ==
  ASSUME TypeOK, Control, Unrecorded
  PROVE  SameStage
<1> USE DEF GiveUp, KeepLocal, Goto, EndIteration, ExitSteps
<1>1. CASE Head
  <2>1. activeOrder' \in Older(activeOrder) /\ pc' = "openOrders"
    BY <1>1 DEF Head
  <2>2. /\ activeOrder' = None <=> activeOrder = None
        /\ activeOrder # None => activeOrder'.purpose = activeOrder.purpose
    BY <2>1, OlderType DEF TypeOK
  <2> QED BY <2>1, <2>2 DEF SameStage, EntryPending, Exiting
<1>2. CASE Timeout
  <2>1. pc' \notin {"placeEntry", "placeExit", "syncCheck", "syncClose"}
    BY <1>2 DEF Timeout, CancelForTimeout, Verify, VerifyRetry, AttemptOver, Branch
  <2>2. activeOrder' = None \/ activeOrder' = activeOrder
    BY <1>2 DEF Timeout, CancelForTimeout, Verify, VerifyRetry, AttemptOver
  <2> QED BY <2>1, <2>2, OrderKept
<1>3. CASE CancelForReprice
  BY <1>3, OrderKept DEF CancelForReprice
<1>4. CASE ReplacePriceReject \/ ReplaceSyncReject
  <2>1. activeOrder' = None /\ pc' # "placeEntry"
    BY <1>4 DEF ReplacePriceReject, ReplaceSyncReject, DropOrder
  <2>2. pc' \in ExitSteps => activeOrder # None /\ activeOrder.purpose = "exit"
    BY <1>4 DEF ReplacePriceReject, ReplaceSyncReject, Control, OrderSteps
  <2> QED BY <2>1, <2>2, OrderKept DEF Exiting
<1>5. CASE Replace
  <2>1. activeOrder \in ActiveOrder /\ activeOrder # None
    BY <1>5 DEF Replace, TypeOK, Control, OrderSteps
  <2>2. activeOrder'.purpose = activeOrder.purpose /\ pc' = "head"
    BY <1>5, <2>1, MovedType DEF Replace
  <2> QED BY <2>1, <2>2 DEF SameStage, EntryPending, Exiting
<1>6. CASE PlaceEntry
  <2>1. activeOrder'.purpose = "entry" /\ pc = "placeEntry" /\ pc' = "head"
    BY <1>6, EntryType, TrackType DEF PlaceEntry
  <2> QED BY <2>1 DEF Control, SameStage, EntryPending, Exiting
<1>7. CASE PlaceMakerExit \/ PlaceMarketExit
  <2>1. activePosition # None /\ pc = "placeExit" /\ pc' = "head"
    BY <1>7 DEF PlaceMakerExit, PlaceMarketExit, Control, HoldSteps
  <2>2. PICK o \in OrderIds : activeOrder' = Track(o, Exit, "exit")
    BY <1>7 DEF PlaceMakerExit, PlaceMarketExit, Unused
  <2>3. Exit \in Order
    BY <2>1, ExitType
  <2>4. activeOrder'.purpose = "exit"
    BY <2>2, <2>3, TrackType
  <2> QED BY <2>1, <2>4 DEF SameStage, EntryPending, Exiting
<1>8. CASE \/ BootSnapshotFails \/ BootPositions \/ BootWithoutPrice \/ BootDone
           \/ HeadUnhealthy \/ ReadOpenOrders \/ ReadPositions \/ ReadFails
  BY <1>8, OrderKept DEF BootSnapshotFails, BootPositions, BootWithoutPrice, BootDone,
       HeadUnhealthy, ReadOpenOrders, ReadPositions, ReadFails
<1>9. CASE \/ ExitFilled \/ OrderRests \/ RepriceDue \/ WaitedTooLong
           \/ NoDecision \/ EntryPriceReject \/ Hold \/ ExitPriceReject
           \/ PlaceAnswerLost
  BY <1>9, OrderKept DEF ExitFilled, OrderRests, RepriceDue, WaitedTooLong, NoDecision,
       EntryPriceReject, Hold, ExitPriceReject, PlaceAnswerLost
<1>10. CASE ExitSyncReject \/ SyncCheck
  <2>1. Exiting /\ pc' # "placeEntry" /\ activeOrder' = activeOrder
    BY <1>10 DEF ExitSyncReject, SyncCheck, Exiting
  <2> QED BY <2>1, OrderKept
<1>11. CASE CancelListed \/ Start \/ RequestDrain \/ Market
  <2>1. /\ activeOrder' = activeOrder
        /\ pc' = pc \/ pc' = "bootPositions"
    BY <1>11 DEF CancelListed, Start, RequestDrain, Market, localVars
  <2> QED BY <2>1, OrderKept DEF Exiting
<1> QED BY <1>1, <1>2, <1>3, <1>4, <1>5, <1>6, <1>7, <1>8, <1>9, <1>10, <1>11
       DEF Unrecorded, Reprice

\* Only a start takes the loop from its end to its beginning.
LEMMA QuietControl ==
  ASSUME Unrecorded
  PROVE  /\ Beginning' => Beginning \/ Start
         /\ pc' = "down" => pc = "down"
         /\ Start => pc = "down"
<1> USE DEF GiveUp, Goto, EndIteration, Beginning
<1>1. CASE Head \/ Timeout
  BY <1>1 DEF Head, Timeout, CancelForTimeout, Verify, VerifyRetry, AttemptOver, Branch,
       Start
<1>2. CASE Reprice
  BY <1>2 DEF Reprice, CancelForReprice, Replace, ReplacePriceReject, ReplaceSyncReject,
       Start
<1>3. CASE \/ BootSnapshotFails \/ BootPositions \/ BootWithoutPrice \/ BootDone
           \/ HeadUnhealthy \/ ReadOpenOrders \/ ReadPositions \/ ReadFails
           \/ CancelListed
  BY <1>3 DEF BootSnapshotFails, BootPositions, BootWithoutPrice, BootDone,
       HeadUnhealthy, ReadOpenOrders, ReadPositions, ReadFails, CancelListed, Start
<1>4. CASE \/ ExitFilled \/ OrderRests \/ RepriceDue \/ WaitedTooLong
           \/ NoDecision \/ PlaceEntry \/ EntryPriceReject
           \/ Hold \/ PlaceMakerExit \/ PlaceMarketExit \/ ExitPriceReject
           \/ ExitSyncReject \/ SyncCheck \/ PlaceAnswerLost
  BY <1>4 DEF ExitFilled, OrderRests, RepriceDue, WaitedTooLong, NoDecision,
       PlaceEntry, EntryPriceReject, Hold, PlaceMakerExit, PlaceMarketExit,
       ExitPriceReject, ExitSyncReject, SyncCheck, PlaceAnswerLost, Start
<1>5. CASE Start \/ RequestDrain \/ Market
  BY <1>5 DEF Start, RequestDrain, Market, localVars
<1> QED BY <1>1, <1>2, <1>3, <1>4, <1>5 DEF Unrecorded

\* A step that is not recorded keeps the invariant of the ledger.
LEMMA QuietLedger ==
  ASSUME IInv, LedgerInv, Unrecorded
  PROVE  LedgerInv'
<1> USE DEF IInv, LedgerInv
<1>1. /\ positionId' = positionId /\ rows' = rows
      /\ results' = results /\ lifecycle' = lifecycle
  BY DEF Unrecorded, ledgerVars
<1>2. Next
  BY DEF Unrecorded, Next, LoopStep, Boot, Snapshot, OrderBranch, Flat, HoldOrExit
<1>3. SamePosition
  BY QuietPosition
<1>4. LedgerTypeOK' /\ HeldPositionOnRecord' /\ Identified' /\ TrackerOfHeldPosition'
  BY <1>1, <1>3 DEF LedgerTypeOK, HeldPositionOnRecord, Identified, OpenRows,
       TrackerOfHeldPosition, SamePosition
<1>5. Stages'
  BY <1>1, <1>3, QuietOrder, QuietControl DEF Stages, SamePosition, SameStage,
       Start, Beginning
<1>6. starts' = 0 => starts = 0 /\ ~Start
  BY <1>2, CleanBefore
<1>7. FirstRun'
  BY <1>1, <1>6, QuietControl DEF FirstRun, Bound
<1>8. pc' # "down" /\ starts' = 0 => pc # "down" /\ starts = 0
  BY <1>2, <1>6, RunningBefore
<1>9. NoRowForgotten' /\ TradesAccounted'
  BY <1>1, <1>8 DEF NoRowForgotten, TradesAccounted, OpenRows
<1> QED BY <1>4, <1>5, <1>7, <1>9

---------------------------------------------------------------------------
(* The rows.                                                               *)

\* A row that is opened is the position's, and the only one that changes.
LEMMA OpenedRow ==
  ASSUME LedgerTypeOK, NEW id \in RowIds, NEW position \in ActivePosition,
         rows' = Opened(id, position)
  PROVE  /\ rows' \in [RowIds -> Row \cup {None}]
         /\ rows'[id] # None /\ rows'[id].open
         /\ rows'[id].side = position.side /\ rows'[id].size = position.size
         /\ \A other \in RowIds : other # id => rows'[other] = rows[other]
         /\ OpenRows' = OpenRows \cup {id}
<1> DEFINE row == [open |-> TRUE, side |-> position.side, size |-> position.size]
<1>1. row \in Row
  BY DEF Row, ActivePosition, Lots
<1>2. row # None /\ row.open /\ row.side = position.side /\ row.size = position.size
  BY <1>1, NoRowAssumption
<1>3. rows' = [rows EXCEPT ![id] = row] /\ rows \in [RowIds -> Row \cup {None}]
  BY DEF Opened, LedgerTypeOK
<1> HIDE DEF row
<1>4. /\ rows' \in [RowIds -> Row \cup {None}]
      /\ rows'[id] = row
      /\ \A other \in RowIds : other # id => rows'[other] = rows[other]
  BY <1>1, <1>3
<1>5. OpenRows' = OpenRows \cup {id}
  BY <1>2, <1>4 DEF OpenRows
<1> QED BY <1>2, <1>4, <1>5

\* A row that is closed stays on record, and no other row changes.
LEMMA ClosedRows ==
  ASSUME LedgerTypeOK, NEW ids \in SUBSET RowIds, rows' = Closed(ids)
  PROVE  /\ rows' \in [RowIds -> Row \cup {None}]
         /\ \A id \in RowIds : /\ rows'[id] = None <=> rows[id] = None
                               /\ id \notin ids => rows'[id] = rows[id]
         /\ OpenRows' = OpenRows \ ids
<1>1. \A id \in RowIds :
        rows'[id] = IF id \in ids /\ rows[id] # None
                    THEN [rows[id] EXCEPT !.open = FALSE] ELSE rows[id]
  BY DEF Closed
<1>2. \A id \in RowIds : rows[id] # None =>
        /\ rows[id] \in Row
        /\ [rows[id] EXCEPT !.open = FALSE] \in Row
        /\ [rows[id] EXCEPT !.open = FALSE].open = FALSE
  BY DEF LedgerTypeOK, Row
<1>3. \A id \in RowIds : rows'[id] \in Row \cup {None}
  BY <1>1, <1>2
<1>4. rows' \in [RowIds -> Row \cup {None}]
  BY <1>3 DEF Closed
<1>5. \A id \in RowIds : /\ rows'[id] = None <=> rows[id] = None
                         /\ id \notin ids => rows'[id] = rows[id]
  BY <1>1, <1>2, NoRowAssumption
<1>6. OpenRows' = OpenRows \ ids
  BY <1>1, <1>2, <1>5, NoRowAssumption DEF OpenRows
<1> QED BY <1>4, <1>5, <1>6

\* The result of a trade that was followed from its entry to its exit.
LEMMA OutcomeType ==
  ASSUME LedgerTypeOK, NEW reason \in {"reconcile", "unknown"}
  PROVE  /\ Outcome(reason) \in Result
         /\ Bound /\ lifecycle.triggered =>
              Outcome(reason) = [reason |-> "triggered", fills |-> "own"]
BY DEF LedgerTypeOK, Outcome, Result, Lifecycle, Begun, Bound

---------------------------------------------------------------------------
(* The recorded steps.                                                     *)

\* Positions are restored at a start.
LEMMA BootRestoreLedger ==
  ASSUME IInv, LedgerInv, LedgerBootRestore
  PROVE  LedgerInv'
<1> USE DEF IInv, LedgerInv
<1>1. /\ pc = "bootOrders" /\ pc' = "bootCancel" /\ starts' = starts
      /\ results' = results /\ lifecycle' = lifecycle
      /\ rows' = Opened(positionId', activePosition')
      /\ positionId' \in IF OpenRows = {} THEN {ExchangeId} ELSE OpenRows
  BY DEF LedgerBootRestore, BootRestore, SameBounds
<1>2. PICK position \in FromOkx(iter.seen) :
        activePosition' = position /\ activeOrder' \in Adopted(position)
  BY DEF LedgerBootRestore, BootRestore
<1>3. activePosition' \in ActivePosition /\ activePosition' # None
  BY <1>2, FromOkxType, NoneAssumption DEF LedgerBootRestore, BootRestore
<1>4. activeOrder' = None \/ activeOrder'.purpose = "exit"
  BY <1>2, <1>3, AdoptedType
<1>5. lifecycle = None
  BY <1>1 DEF Stages, Beginning
<1>6. positionId' \in RowIds /\ positionId' # None
  BY <1>1, RowsAssumption DEF OpenRows, RowIds
<1>7. /\ rows' \in [RowIds -> Row \cup {None}]
      /\ rows'[positionId'] # None /\ rows'[positionId'].open
      /\ rows'[positionId'].side = activePosition'.side
      /\ rows'[positionId'].size = activePosition'.size
      /\ \A other \in RowIds : other # positionId' => rows'[other] = rows[other]
      /\ OpenRows' = OpenRows \cup {positionId'}
  BY <1>1, <1>3, <1>6, OpenedRow
<1>8. LedgerTypeOK'
  BY <1>1, <1>6, <1>7 DEF LedgerTypeOK
<1>9. HeldPositionOnRecord' /\ Identified' /\ TrackerOfHeldPosition'
  BY <1>1, <1>3, <1>5, <1>6, <1>7 DEF HeldPositionOnRecord, Identified, TrackerOfHeldPosition
<1>10. Stages'
  BY <1>1, <1>4, <1>5 DEF Stages, EntryPending, Exiting, Beginning
<1>11. starts = 0 => positionId' = ExchangeId /\ OpenRows = {}
  BY <1>1 DEF FirstRun, Beginning, OpenRows
<1>12. FirstRun' /\ NoRowForgotten'
  BY <1>1, <1>7, <1>11, RowsAssumption DEF FirstRun, Beginning, NoRowForgotten
<1>13. TradesAccounted'
  BY <1>1, <1>7 DEF TradesAccounted
<1> QED BY <1>8, <1>9, <1>10, <1>12, <1>13

\* The open rows of a flat exchange are closed at a start.
LEMMA BootFlatLedger ==
  ASSUME IInv, LedgerInv, LedgerBootFlat
  PROVE  LedgerInv'
<1> USE DEF IInv, LedgerInv
<1>1. /\ pc = "bootOrders" /\ pc' = "bootCancel" /\ starts' = starts
      /\ positionId' = positionId /\ results' = results /\ lifecycle' = lifecycle
      /\ rows' = Closed(OpenRows)
      /\ activePosition' = activePosition /\ activeOrder' = activeOrder
  BY DEF LedgerBootFlat, BootFlat, SameBounds, KeepLocal
<1>2. activePosition = None /\ activeOrder = None /\ lifecycle = None
  BY <1>1 DEF Control, Stages, Beginning
<1>3. OpenRows \in SUBSET RowIds
  BY DEF OpenRows
<1>4. /\ rows' \in [RowIds -> Row \cup {None}]
      /\ \A id \in RowIds : rows'[id] = None <=> rows[id] = None
      /\ OpenRows' = {}
  BY <1>1, <1>3, ClosedRows
<1>5. LedgerTypeOK' /\ HeldPositionOnRecord' /\ Identified' /\ TrackerOfHeldPosition'
  BY <1>1, <1>2, <1>4 DEF LedgerTypeOK, HeldPositionOnRecord, Identified,
       TrackerOfHeldPosition
<1>6. Stages'
  BY <1>1, <1>2 DEF Stages, EntryPending, Exiting, Beginning
<1>7. starts = 0 => \A id \in RowIds : rows[id] = None
  BY <1>1 DEF FirstRun, Beginning
<1>8. FirstRun' /\ NoRowForgotten' /\ TradesAccounted'
  BY <1>1, <1>4, <1>7 DEF FirstRun, Beginning, Bound, NoRowForgotten, TradesAccounted
<1> QED BY <1>5, <1>6, <1>8

\* A position that is found between two snapshots is on record.
LEMMA ReconcileLedger ==
  ASSUME IInv, LedgerInv, LedgerReconcile
  PROVE  LedgerInv'
<1> USE DEF IInv, LedgerInv
<1>1. /\ pc = "sweep" /\ pc' \in {"getOrder", "flat", "exit"}
      /\ starts' = starts /\ activeOrder' = activeOrder
      /\ results' = results /\ lifecycle' = lifecycle
  BY DEF LedgerReconcile, Reconcile, SameBounds, Branch
<1>3. CASE activePosition' = activePosition
  <2>1. positionId' = positionId /\ rows' = rows
    BY <1>3 DEF LedgerReconcile
  <2>3. Stages' /\ FirstRun' /\ NoRowForgotten' /\ TradesAccounted'
    BY <1>1, <1>3, <2>1 DEF Stages, EntryPending, Exiting, Beginning, FirstRun, Bound,
         NoRowForgotten, TradesAccounted, OpenRows
  <2>2. LedgerTypeOK' /\ HeldPositionOnRecord' /\ Identified' /\ TrackerOfHeldPosition'
    BY <1>1, <1>3, <2>1 DEF LedgerTypeOK, HeldPositionOnRecord, Identified,
         TrackerOfHeldPosition, OpenRows
  <2> QED BY <2>2, <2>3
<1>4. CASE activePosition' # activePosition
  <2>1. /\ activePosition = None /\ activePosition' \in FromOkx(iter.seen)
        /\ iter.seen # 0
    BY <1>4 DEF LedgerReconcile, Reconcile
  <2>2. activePosition' \in ActivePosition /\ activePosition' # None
    BY <2>1, FromOkxType, NoneAssumption
  <2>3. positionId' = ExchangeId /\ rows' = Opened(ExchangeId, activePosition')
    BY <1>4 DEF LedgerReconcile
  <2>4. ExchangeId \in RowIds /\ ExchangeId # None /\ ExchangeId \notin EntryRows
    BY RowsAssumption DEF RowIds
  <2>5. /\ rows' \in [RowIds -> Row \cup {None}]
        /\ rows'[ExchangeId] # None /\ rows'[ExchangeId].open
        /\ rows'[ExchangeId].side = activePosition'.side
        /\ rows'[ExchangeId].size = activePosition'.size
        /\ \A other \in RowIds : other # ExchangeId => rows'[other] = rows[other]
        /\ OpenRows' = OpenRows \cup {ExchangeId}
    BY <2>2, <2>3, <2>4, OpenedRow
  <2>6. positionId = None /\ ~Bound
    BY <2>1 DEF Identified, TrackerOfHeldPosition, Bound
  <2>7. LedgerTypeOK' /\ HeldPositionOnRecord' /\ Identified' /\ TrackerOfHeldPosition'
    BY <1>1, <2>2, <2>3, <2>4, <2>5, <2>6 DEF LedgerTypeOK, HeldPositionOnRecord,
         Identified, TrackerOfHeldPosition, Bound
  <2>8. Stages' /\ FirstRun'
    BY <1>1, <2>3, <2>4 DEF Stages, EntryPending, Exiting, Beginning, FirstRun
  <2>9. NoRowForgotten' /\ TradesAccounted'
    BY <1>1, <2>3, <2>5, <2>6, RowsAssumption DEF NoRowForgotten, TradesAccounted,
         OpenRows, RowIds
  <2> QED BY <2>7, <2>8, <2>9
<1> QED BY <1>3, <1>4

\* A filled entry is on record under an id of its own, which the tracker knows.
LEMMA EntryFilledLedger ==
  ASSUME IInv, LedgerInv, LedgerEntryFilled
  PROVE  LedgerInv'
<1> USE DEF IInv, LedgerInv
<1>1. /\ pc = "getOrder" /\ pc' = "exit" /\ starts' = starts
      /\ activeOrder # None /\ EntryPending /\ activeOrder' = None
      /\ results' = results
  BY DEF LedgerEntryFilled, EntryFilled, SameBounds, DropOrder, EntryPending, Control,
     OrderSteps
<1>2. lifecycle # None /\ lifecycle \in Lifecycle
  BY <1>1 DEF Stages, LedgerTypeOK
<1>3. PICK id \in EntryRows :
        /\ positionId' = id /\ rows' = Opened(id, activePosition')
        /\ lifecycle' = [lifecycle EXCEPT !.bound = id]
  BY <1>2 DEF LedgerEntryFilled
<1>4. activePosition' \in ActivePosition /\ activePosition' # None
  BY EntryFilledType, NoneAssumption DEF LedgerEntryFilled
<1>5. id \in RowIds /\ id # None
  BY RowsAssumption DEF RowIds
<1>6. /\ rows' \in [RowIds -> Row \cup {None}]
      /\ rows'[id] # None /\ rows'[id].open
      /\ rows'[id].side = activePosition'.side
      /\ rows'[id].size = activePosition'.size
      /\ \A other \in RowIds : other # id => rows'[other] = rows[other]
      /\ OpenRows' = OpenRows \cup {id}
  BY <1>3, <1>4, <1>5, OpenedRow
<1>7. lifecycle' \in Lifecycle /\ lifecycle' # None /\ lifecycle'.bound = id
  BY <1>2, <1>3, <1>5, NoRowAssumption DEF Lifecycle
<1>8. LedgerTypeOK' /\ HeldPositionOnRecord' /\ Identified' /\ TrackerOfHeldPosition'
  BY <1>1, <1>3, <1>4, <1>5, <1>6, <1>7 DEF LedgerTypeOK, HeldPositionOnRecord,
       Identified, TrackerOfHeldPosition
<1>9. Stages' /\ FirstRun'
  BY <1>1, <1>5, <1>7 DEF Stages, EntryPending, Exiting, Beginning, FirstRun, Bound
<1>10. positionId \in {None, ExchangeId}
  BY <1>1 DEF Stages, Identified
<1>11. NoRowForgotten' /\ TradesAccounted'
  BY <1>1, <1>3, <1>5, <1>6, <1>10, RowsAssumption
     DEF NoRowForgotten, TradesAccounted, OpenRows, RowIds
<1> QED BY <1>8, <1>9, <1>11

\* A decision begins a trade; a canceled entry ends it; an exit is triggered.
LEMMA TrackerLedger ==
  ASSUME IInv, LedgerInv, LedgerDecide \/ LedgerOrderCanceled \/ LedgerTriggerExit
  PROVE  LedgerInv'
<1> USE DEF IInv, LedgerInv
<1>1. positionId' = positionId /\ rows' = rows /\ results' = results /\ starts' = starts
  BY DEF LedgerDecide, Decide, LedgerOrderCanceled, OrderCanceled, LedgerTriggerExit,
     TriggerExit, SameBounds
<1>2. SamePosition
  <2>1. CASE LedgerOrderCanceled
    BY <2>1, AttemptOverPosition DEF LedgerOrderCanceled, OrderCanceled
  <2>2. CASE LedgerDecide \/ LedgerTriggerExit
    BY <2>2 DEF LedgerDecide, Decide, LedgerTriggerExit, TriggerExit, KeepLocal,
         SamePosition
  <2> QED BY <2>1, <2>2
<1>3. pc # "down" /\ ~Beginning'
  BY DEF LedgerDecide, Decide, LedgerOrderCanceled, OrderCanceled, AttemptOver, Goto,
     Branch, LedgerTriggerExit, TriggerExit, Beginning
<1>4. HeldPositionOnRecord' /\ Identified' /\ NoRowForgotten' /\ TradesAccounted'
  BY <1>1, <1>2, <1>3 DEF HeldPositionOnRecord, Identified, NoRowForgotten, TradesAccounted,
       OpenRows, SamePosition
<1>5. ASSUME lifecycle' \in Lifecycle \cup {None},
             Bound' => Bound /\ lifecycle'.bound = lifecycle.bound
      PROVE  LedgerTypeOK' /\ TrackerOfHeldPosition'
  BY <1>1, <1>5 DEF LedgerTypeOK, TrackerOfHeldPosition, Bound
<1>6. CASE LedgerDecide
  <2>1. /\ pc = "flat" /\ pc' = "placeEntry" /\ activeOrder' = activeOrder
        /\ lifecycle' = Begun
    BY <1>6 DEF LedgerDecide, Decide, KeepLocal
  <2>2. activeOrder = None /\ activePosition = None /\ positionId = None
    BY <2>1 DEF Control, Identified
  <2>3. Begun # None /\ Begun \in Lifecycle /\ Begun.bound = None
    <3>1. Begun \in Lifecycle /\ Begun.bound = None
      BY DEF Begun, Lifecycle
    <3> QED BY <3>1, NoRowAssumption
  <2>4. LedgerTypeOK' /\ TrackerOfHeldPosition'
    BY <1>5, <2>1, <2>3 DEF Bound
  <2>5. Stages' /\ FirstRun'
    BY <1>1, <1>3, <2>1, <2>2, <2>3, RowsAssumption
       DEF Stages, EntryPending, Exiting, Beginning, FirstRun
  <2> QED BY <1>4, <2>4, <2>5
<1>7. CASE LedgerOrderCanceled
  <2>1. /\ activeOrder # None /\ activeOrder' = None /\ pc' \in {"flat", "exit"}
        /\ lifecycle' = IF activeOrder.purpose = "exit" /\ activePosition # None
                        THEN lifecycle ELSE None
    BY <1>7 DEF LedgerOrderCanceled, OrderCanceled, AttemptOver, Goto, Branch, Control,
         OrderSteps
  <2>2. lifecycle' = lifecycle \/ (EntryPending /\ lifecycle' = None)
    <3>1. activeOrder.purpose \in {"entry", "exit"}
      BY <2>1 DEF TypeOK, ActiveOrder
    <3> QED BY <2>1, <3>1 DEF Control, EntryPending
  <2>3. LedgerTypeOK' /\ TrackerOfHeldPosition'
    BY <1>5, <2>2 DEF Bound, LedgerTypeOK
  <2>4. Stages'
    BY <2>1 DEF Stages, EntryPending, Exiting, Beginning
  <2>5. FirstRun'
    BY <1>1, <1>3, <2>2, RowsAssumption DEF FirstRun, Bound, Stages, Identified
  <2> QED BY <1>4, <2>3, <2>4, <2>5
<1>8. CASE LedgerTriggerExit
  <2>1. /\ pc = "exit" /\ pc' = "placeExit" /\ activeOrder' = activeOrder
        /\ lifecycle' = IF lifecycle = None THEN None
                        ELSE [lifecycle EXCEPT !.triggered = TRUE]
    BY <1>8 DEF LedgerTriggerExit, TriggerExit, Goto, KeepLocal
  <2>2. activeOrder = None
    BY <2>1 DEF Control, HoldSteps
  <2>3. lifecycle # None =>
          /\ lifecycle' \in Lifecycle /\ lifecycle' # None
          /\ lifecycle'.bound = lifecycle.bound /\ lifecycle'.triggered
    BY <2>1, NoRowAssumption DEF LedgerTypeOK, Lifecycle
  <2>4. LedgerTypeOK' /\ TrackerOfHeldPosition'
    BY <1>5, <2>1, <2>3 DEF Bound
  <2>5. Stages'
    BY <2>1, <2>2, <2>3 DEF Stages, EntryPending, Exiting, Beginning
  <2>6. FirstRun'
    BY <1>1, <1>3, <2>3 DEF FirstRun, Bound
  <2> QED BY <1>4, <2>4, <2>5, <2>6
<1> QED BY <1>6, <1>7, <1>8

\* A close puts the row and the result of the held position on record.
LEMMA RecordCloseLedger ==
  ASSUME IInv, LedgerInv, NEW reason \in {"reconcile", "unknown"}, RecordClose(reason),
         Exiting, activePosition # None, starts' = starts, pc # "down",
         activePosition' = None, activeOrder' = None, pc' \in {"flat", "head"}
  PROVE  LedgerInv'
<1> USE DEF IInv, LedgerInv
<1>1. /\ rows' = Closed({positionId}) /\ positionId' = None /\ lifecycle' = None
      /\ results' = [results EXCEPT ![positionId] = Outcome(reason)]
  BY DEF RecordClose
<1>2. positionId \in RowIds /\ positionId # None
  BY DEF LedgerTypeOK, Identified
<1>3. /\ rows' \in [RowIds -> Row \cup {None}]
      /\ \A id \in RowIds : /\ rows'[id] = None <=> rows[id] = None
                            /\ id # positionId => rows'[id] = rows[id]
      /\ OpenRows' = OpenRows \ {positionId}
  <2>1. {positionId} \in SUBSET RowIds
    BY <1>2
  <2> QED BY <1>1, <2>1, ClosedRows
<1>4. Outcome(reason) \in Result /\ Outcome(reason) # None
  BY OutcomeType, NoRowAssumption
<1>5. /\ results' \in [RowIds -> Result \cup {None}]
      /\ results'[positionId] = Outcome(reason)
      /\ \A id \in RowIds : id # positionId => results'[id] = results[id]
  BY <1>1, <1>2, <1>4 DEF LedgerTypeOK
<1>6. LedgerTypeOK' /\ HeldPositionOnRecord' /\ Identified' /\ TrackerOfHeldPosition'
  BY <1>1, <1>3, <1>5 DEF LedgerTypeOK, HeldPositionOnRecord, Identified,
       TrackerOfHeldPosition
<1>7. Stages' /\ FirstRun'
  BY <1>1, RowsAssumption DEF Stages, EntryPending, Exiting, Beginning, FirstRun
<1>8. NoRowForgotten'
  BY <1>1, <1>3 DEF NoRowForgotten
<1>9. starts = 0 /\ positionId \in EntryRows =>
        Outcome(reason) = [reason |-> "triggered", fills |-> "own"]
  BY OutcomeType DEF FirstRun, Stages, Bound
<1>10. TradesAccounted'
  BY <1>2, <1>3, <1>4, <1>5, <1>9 DEF TradesAccounted
<1> QED BY <1>6, <1>7, <1>8, <1>10

\* A trade is closed by its exit, or because the exchange is flat.
LEMMA CloseLedger ==
  ASSUME IInv, LedgerInv, LedgerFinalize \/ LedgerSyncClose
  PROVE  LedgerInv'
<1>1. CASE LedgerFinalize
  <2>1. /\ pc = "finalize" /\ pc' = "flat" /\ starts' = starts
        /\ activePosition' = None /\ activeOrder' = None
    BY <1>1 DEF LedgerFinalize, Finalize, ClosePosition, DropOrder, SameBounds
  <2>2. Exiting /\ activePosition # None
    BY <2>1 DEF IInv, Control, OrderSteps, Exiting
  <2>3. RecordClose("unknown")
    BY <1>1, <2>2 DEF LedgerFinalize
  <2> QED BY <2>1, <2>2, <2>3, RecordCloseLedger
<1>2. CASE LedgerSyncClose
  <2>1. /\ pc = "syncClose" /\ pc' = "head" /\ starts' = starts
        /\ activePosition' = None /\ activeOrder' = activeOrder
    BY <1>2 DEF LedgerSyncClose, SyncClose, ClosePosition, SameBounds, EndIteration
  <2>2. Exiting /\ activePosition # None /\ activeOrder = None
    BY <2>1 DEF IInv, Control, HoldSteps, Exiting
  <2> QED BY <1>2, <2>1, <2>2, RecordCloseLedger DEF LedgerSyncClose
<1> QED BY <1>1, <1>2

\* A stop leaves the tables, a crash in the middle of a close the closed row.
LEMMA EndLedger ==
  ASSUME IInv, LedgerInv, LedgerEnded \/ LedgerCrashInClose
  PROVE  LedgerInv'
<1> USE DEF IInv, LedgerInv
<1>1. /\ pc' = "down" /\ activeOrder' = None /\ activePosition' = None
      /\ positionId' = None /\ lifecycle' = None /\ results' = results
  BY DEF LedgerEnded, LedgerCrashInClose, DrainCompleted, Abort, Ended
<1>2. rows' \in [RowIds -> Row \cup {None}]
  <2>1. CASE LedgerEnded
    BY <2>1 DEF LedgerEnded, LedgerTypeOK
  <2>2. CASE LedgerCrashInClose
    <3>1. {positionId} \in SUBSET RowIds
      BY <2>2 DEF LedgerCrashInClose, LedgerTypeOK, Identified
    <3> QED BY <2>2, <3>1, ClosedRows DEF LedgerCrashInClose
  <2> QED BY <2>1, <2>2
<1>3. LedgerTypeOK' /\ HeldPositionOnRecord' /\ Identified' /\ TrackerOfHeldPosition'
  BY <1>1, <1>2 DEF LedgerTypeOK, HeldPositionOnRecord, Identified, TrackerOfHeldPosition
<1>4. Stages' /\ FirstRun' /\ NoRowForgotten' /\ TradesAccounted'
  BY <1>1, RowsAssumption DEF Stages, EntryPending, Exiting, Beginning, FirstRun,
       NoRowForgotten, TradesAccounted
<1> QED BY <1>3, <1>4

---------------------------------------------------------------------------
(* The invariant and its consequences.                                     *)

\* There is nothing on record in the beginning.
LEMMA LedgerInitInvariant == LedgerInit => LedgerInv
<1> SUFFICES ASSUME LedgerInit PROVE LedgerInv
  OBVIOUS
<1>1. /\ rows = [id \in RowIds |-> None] /\ results = [id \in RowIds |-> None]
      /\ positionId = None /\ lifecycle = None /\ activeOrder = None
      /\ activePosition = None /\ pc = "bootPositions"
  BY DEF LedgerInit, Init
<1>2. LedgerTypeOK /\ HeldPositionOnRecord /\ Identified /\ TrackerOfHeldPosition
  BY <1>1 DEF LedgerTypeOK, HeldPositionOnRecord, Identified, TrackerOfHeldPosition
<1>3. Stages /\ FirstRun /\ NoRowForgotten /\ TradesAccounted
  BY <1>1, RowsAssumption DEF Stages, EntryPending, Exiting, Beginning, FirstRun,
       NoRowForgotten, OpenRows, TradesAccounted
<1> QED BY <1>2, <1>3 DEF LedgerInv

\* Every step of the ledger keeps its invariant, given the invariant of the loop.
LEMMA LedgerNextInvariant ==
  IInv /\ LedgerInv /\ [Recorded \/ Unrecorded]_allVars => LedgerInv'
<1> SUFFICES ASSUME IInv, LedgerInv, [Recorded \/ Unrecorded]_allVars PROVE LedgerInv'
  OBVIOUS
<1>1. CASE Recorded
  BY <1>1, BootRestoreLedger, BootFlatLedger, ReconcileLedger, EntryFilledLedger,
     TrackerLedger, CloseLedger, EndLedger DEF Recorded
<1>2. CASE Unrecorded
  BY <1>2, QuietLedger
<1>3. CASE UNCHANGED allVars
  BY <1>3 DEF allVars, ledgerVars, vars, exchangeVars, localVars, boundVars,
       LedgerInv, LedgerTypeOK, HeldPositionOnRecord, Identified, TrackerOfHeldPosition,
       Stages, EntryPending, Exiting, Beginning, Bound, FirstRun, NoRowForgotten,
       OpenRows, TradesAccounted
<1> QED BY <1>1, <1>2, <1>3

\* The invariant of the ledger holds in every behaviour.
THEOREM LedgerInvariance == LedgerSpec => []LedgerInv
<1>1. LedgerSpec => []IInv
  BY LedgerRefinesLoop, Invariance, PTL
<1> QED BY <1>1, LedgerInitInvariant, LedgerNextInvariant, PTL DEF LedgerSpec

\* The tables and the tracker keep their types.
THEOREM LedgerTypeCorrect == LedgerSpec => []LedgerTypeOK
<1>1. LedgerInv => LedgerTypeOK
  BY DEF LedgerInv
<1> QED BY <1>1, LedgerInvariance, PTL

\* A position the loop holds is on record as open and as what it is, at every
\* await, so that a restart can continue its row (persistence/executor_store.py).
THEOREM HeldPositionsOnRecord == LedgerSpec => []HeldPositionOnRecord
<1>1. LedgerInv => HeldPositionOnRecord
  BY DEF LedgerInv
<1> QED BY <1>1, LedgerInvariance, PTL

\* The loop leaves no row open behind it until it is restarted.
THEOREM RowsNeverForgotten == LedgerSpec => []NoRowForgotten
<1>1. LedgerInv => NoRowForgotten
  BY DEF LedgerInv
<1> QED BY <1>1, LedgerInvariance, PTL

\* The tracker of a trade is never used for another one's position
\* (execution/trade_lifecycle.py).
THEOREM TrackersOfHeldPositions == LedgerSpec => []TrackerOfHeldPosition
<1>1. LedgerInv => TrackerOfHeldPosition
  BY DEF LedgerInv
<1> QED BY <1>1, LedgerInvariance, PTL

\* Until a restart every closed position has its result, and one whose entry the
\* loop saw filled a known reason and its own fills (execution/trade_finalize.py).
THEOREM TradesAlwaysAccounted == LedgerSpec => []TradesAccounted
<1>1. LedgerInv => TradesAccounted
  BY DEF LedgerInv
<1> QED BY <1>1, LedgerInvariance, PTL

\* The properties of the loop hold with the ledger too: no entry is placed on a
\* position, no open order is lost, and the trade cycle is kept.
THEOREM LoopWithLedger ==
  LedgerSpec => []EntryOnlyWhenFlat /\ []NoOrderLost /\ ImplementsTradeCycle
BY LedgerRefinesLoop, EntrySafety, OrdersNeverLost, Refinement, PTL

---------------------------------------------------------------------------
(* A trade is recorded once.                                               *)

\* A trade with a result has its row closed: so what is still open has none.
ResultsOfClosed == \A id \in EntryRows : results[id] # None => ClosedRow(id)

EntryStep(id) ==
  /\ ClosedRow(id) => rows'[id] = rows[id] /\ results'[id] = results[id]
  /\ results'[id] # results[id] =>
       results[id] = None /\ id \in OpenRows /\ ClosedRow(id)'

\* A close ends the rows it names and leaves those that have ended as they are.
LEMMA ClosedOnce ==
  ASSUME LedgerTypeOK, NEW ids \in SUBSET RowIds, rows' = Closed(ids), NEW id \in RowIds
  PROVE  /\ ClosedRow(id) => rows'[id] = rows[id]
         /\ rows[id] # None /\ id \in ids => ClosedRow(id)'
<1>1. rows[id] # None => rows[id] \in Row
  BY DEF LedgerTypeOK
<1>2. rows'[id] = IF id \in ids /\ rows[id] # None
                  THEN [rows[id] EXCEPT !.open = FALSE] ELSE rows[id]
  BY DEF Closed
<1>3. ASSUME rows[id] # None
      PROVE  /\ [rows[id] EXCEPT !.open = FALSE] \in Row
             /\ ~[rows[id] EXCEPT !.open = FALSE].open
             /\ ~rows[id].open => [rows[id] EXCEPT !.open = FALSE] = rows[id]
  BY <1>1, <1>3 DEF Row
<1> QED BY <1>1, <1>2, <1>3, NoRowAssumption DEF ClosedRow

\* No position is given the closed row of a trade with an id of its own.
LEMMA OpenedOnce ==
  ASSUME LedgerTypeOK, NEW id \in EntryRows,
         LedgerBootRestore \/ LedgerReconcile \/ LedgerEntryFilled
  PROVE  EntryStep(id)
<1> id \in RowIds /\ id # ExchangeId
  BY RowsAssumption DEF RowIds
<1>1. results' = results
  BY DEF LedgerBootRestore, LedgerReconcile, LedgerEntryFilled
<1>2. \/ rows' = rows
      \/ \E other : rows' = Opened(other, activePosition') /\ ~(other = id /\ ClosedRow(id))
  <2>1. CASE LedgerBootRestore
    BY <2>1 DEF LedgerBootRestore, OpenRows, ClosedRow
  <2>2. CASE LedgerReconcile
    BY <2>2 DEF LedgerReconcile
  <2>3. CASE LedgerEntryFilled
    BY <2>3 DEF LedgerEntryFilled, ClosedRow
  <2> QED BY <2>1, <2>2, <2>3
<1>3. ClosedRow(id) => rows'[id] = rows[id]
  BY <1>2 DEF Opened, LedgerTypeOK
<1> QED BY <1>1, <1>3 DEF EntryStep

\* The result is written for the row that the held position has, with its close.
LEMMA RecordedOnce ==
  ASSUME LedgerTypeOK, HeldPositionOnRecord, ResultsOfClosed, NEW id \in EntryRows,
         activePosition # None, NEW untriggered, RecordClose(untriggered)
  PROVE  EntryStep(id)
<1>1. positionId \in OpenRows /\ positionId \in RowIds /\ id \in RowIds
  BY DEF HeldPositionOnRecord, OpenRows, RowIds
<1>2. rows[positionId] # None /\ rows[positionId].open
  BY <1>1 DEF OpenRows
<1>3. /\ rows' = Closed({positionId})
      /\ id # positionId => results'[id] = results[id]
  BY DEF RecordClose, LedgerTypeOK
<1>4. ClosedRow(id) => id # positionId /\ rows'[id] = rows[id]
  BY <1>1, <1>2, <1>3, ClosedOnce DEF ClosedRow
<1>5. id = positionId => results[id] = None /\ ClosedRow(id)'
  BY <1>1, <1>2, <1>3, ClosedOnce DEF ResultsOfClosed, ClosedRow
<1> QED BY <1>1, <1>3, <1>4, <1>5 DEF EntryStep

LEMMA EntryTradeStep ==
  ASSUME IInv, LedgerInv, ResultsOfClosed, [Recorded \/ Unrecorded]_allVars,
         NEW id \in EntryRows
  PROVE  EntryStep(id)
<1> USE DEF LedgerInv
<1> id \in RowIds
  BY DEF RowIds
<1>1. ASSUME UNCHANGED <<rows, results>> PROVE EntryStep(id)
  BY <1>1 DEF EntryStep
<1>2. CASE Unrecorded \/ UNCHANGED allVars
  BY <1>1, <1>2 DEF Unrecorded, allVars, ledgerVars
<1>3. CASE LedgerDecide \/ LedgerOrderCanceled \/ LedgerTriggerExit \/ LedgerEnded
  BY <1>1, <1>3 DEF LedgerDecide, LedgerOrderCanceled, LedgerTriggerExit, LedgerEnded
<1>4. CASE LedgerBootRestore \/ LedgerReconcile \/ LedgerEntryFilled
  BY <1>4, OpenedOnce
<1>5. CASE LedgerBootFlat
  <2>1. rows' = Closed(OpenRows) /\ results' = results /\ OpenRows \in SUBSET RowIds
    BY <1>5 DEF LedgerBootFlat, OpenRows
  <2> QED BY <2>1, ClosedOnce DEF EntryStep
<1>6. CASE LedgerFinalize
  BY <1>1, <1>6, RecordedOnce DEF LedgerFinalize, ledgerVars
<1>7. CASE LedgerSyncClose
  <2>1. activePosition # None
    BY <1>7 DEF LedgerSyncClose, SyncClose, IInv, Control, HoldSteps
  <2> QED BY <1>7, <2>1, RecordedOnce DEF LedgerSyncClose
<1>8. CASE LedgerCrashInClose
  <2>1. /\ rows' = Closed({positionId}) /\ results' = results
        /\ {positionId} \in SUBSET RowIds
    BY <1>8 DEF LedgerCrashInClose, HeldPositionOnRecord, OpenRows
  <2> QED BY <2>1, ClosedOnce DEF EntryStep
<1> QED BY <1>2, <1>3, <1>4, <1>5, <1>6, <1>7, <1>8 DEF Recorded

\* Whatever is stopped, crashes or is restarted, the row of a trade whose entry the loop
\* saw filled is never used again after it was closed, and its result is written once,
\* with the close (execution/trade_finalize.py, app/position_reconcile.py).
THEOREM EntryTradesRecordedOnce == LedgerSpec => EntryTradesFinal
<1>1. LedgerInit => ResultsOfClosed
  BY DEF LedgerInit, ResultsOfClosed, RowIds
<1>2. IInv /\ LedgerInv /\ ResultsOfClosed /\ [Recorded \/ Unrecorded]_allVars =>
        \A id \in EntryRows : EntryStep(id)
  BY EntryTradeStep
<1>3. ResultsOfClosed /\ (\A id \in EntryRows : EntryStep(id)) => ResultsOfClosed'
  BY DEF ResultsOfClosed, EntryStep, ClosedRow
<1>4. (\A id \in EntryRows : EntryStep(id)) =>
        [ \A id \in EntryRows :
            /\ ClosedRow(id) => rows'[id] = rows[id] /\ results'[id] = results[id]
            /\ results'[id] # results[id] =>
                 results[id] = None /\ id \in OpenRows /\ ClosedRow(id)' ]_allVars
  BY DEF EntryStep
<1>5. LedgerSpec => []IInv
  BY LedgerRefinesLoop, Invariance, PTL
<1> QED BY <1>1, <1>2, <1>3, <1>4, <1>5, LedgerInvariance, PTL
       DEF LedgerSpec, EntryTradesFinal
=============================================================================
