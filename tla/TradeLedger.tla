------------------------------ MODULE TradeLedger ------------------------------
(***************************************************************************)
(* What the loop records of its trades: the tables positions and           *)
(* trade_results of persistence/sqlite_store.py, written through           *)
(* persistence/executor_store.py, the tracker of the current trade         *)
(* (execution/trade_lifecycle.py) and the close of a trade                 *)
(* (execution/trade_finalize.py).  Every action is an action of            *)
(* ExecutorLoop together with its calls of the store.  The tables survive  *)
(* a stop of the loop, the rest does not.                                  *)
(*                                                                         *)
(* A table commit is part of the step that makes it, since no await lies   *)
(* between; only a crash can separate the commits of one step.             *)
(***************************************************************************)
EXTENDS ExecutorLoop

CONSTANTS
  EntryRows,  \* bound: position ids made for filled entries
  ExchangeId  \* the position id derived from the exchange's position

ASSUME RowsAssumption == ExchangeId \notin EntryRows /\ None \notin EntryRows \cup {ExchangeId}

VARIABLES
  positionId,  \* active_position.position_id
  rows,        \* positions: a row for each position id or None
  results,     \* trade_results: a row for each position id or None
  lifecycle    \* _trade_lifecycle

ledgerVars == <<positionId, rows, results, lifecycle>>
allVars == <<vars, ledgerVars>>

RowIds == EntryRows \cup {ExchangeId}

Row == [open: BOOLEAN, side: {"long", "short"}, size: Nat]

\* The exit reason is the one that triggered the exit, or that the exchange was
\* found flat, or unknown.  The entry's fees come from the fills of its own
\* order, or, without that order's identifiers, from all of the instrument.
Result == [reason: {"triggered", "reconcile", "unknown"}, fills: {"own", "all"}]

\* bound: the position whose entry order the tracker knows; triggered: it has
\* an exit reason.
Lifecycle == [bound: RowIds \cup {None}, triggered: BOOLEAN]

\* None differs from everything it stands in for.
ASSUME NoRowAssumption == None \notin Row /\ None \notin Result /\ None \notin Lifecycle

Begun == [bound |-> None, triggered |-> FALSE]

\* Slip: the exchange's signed size is saved.
OpenedSigned(id, position) ==
  [rows EXCEPT ![id] = [open |-> TRUE, side |-> position.side,
     size |-> IF position.side = "short" THEN -position.size ELSE position.size]]

Opened(id, position) ==
  [rows EXCEPT ![id] = [open |-> TRUE, side |-> position.side, size |-> position.size]]
Closed(ids) ==
  [id \in RowIds |-> IF id \in ids /\ rows[id] # None
                     THEN [rows[id] EXCEPT !.open = FALSE] ELSE rows[id]]
OpenRows == {id \in RowIds : rows[id] # None /\ rows[id].open}

LedgerInit ==
  /\ Init
  /\ positionId = None
  /\ rows = [id \in RowIds |-> None]
  /\ results = [id \in RowIds |-> None]
  /\ lifecycle = None

---------------------------------------------------------------------------
(* Positions are opened.                                                   *)

\* After a restart the position of the exchange continues an open row.
LedgerBootRestore ==
  /\ BootRestore
  /\ positionId' \in IF OpenRows = {} THEN {ExchangeId} ELSE OpenRows
  /\ rows' = Opened(positionId', activePosition')
  /\ UNCHANGED <<results, lifecycle>>

\* The exchange is flat: open rows are closed, without a trade result.
LedgerBootFlat ==
  /\ BootFlat
  /\ rows' = Closed(OpenRows)
  /\ UNCHANGED <<positionId, results, lifecycle>>

\* Slip: the restored position is not saved.
LedgerReconcileUnsaved ==
  /\ Reconcile
  /\ positionId' = IF activePosition' # activePosition THEN ExchangeId ELSE positionId
  /\ UNCHANGED <<rows, results, lifecycle>>

\* A position restored inside the loop has the exchange's id.
LedgerReconcile ==
  /\ Reconcile
  /\ IF activePosition' # activePosition
     THEN /\ positionId' = ExchangeId
          /\ rows' = Opened(ExchangeId, activePosition')
     ELSE UNCHANGED <<positionId, rows>>
  /\ UNCHANGED <<results, lifecycle>>

\* A filled entry gets an id of its own, also when its first fills had been
\* restored as a position before.
LedgerEntryFilled ==
  /\ EntryFilled
  /\ \E id \in EntryRows :
       /\ rows[id] = None
       /\ positionId' = id
       /\ rows' = Opened(id, activePosition')
       /\ lifecycle' = IF lifecycle = None THEN None ELSE [lifecycle EXCEPT !.bound = id]
  /\ UNCHANGED results

---------------------------------------------------------------------------
(* The tracker of the trade.                                               *)

LedgerDecide ==
  /\ Decide
  /\ lifecycle' = Begun
  /\ UNCHANGED <<positionId, rows, results>>

\* Slip: the tracker is cleared whatever order was canceled.
LedgerOrderCanceledAny ==
  /\ OrderCanceled
  /\ lifecycle' = None
  /\ UNCHANGED <<positionId, rows, results>>

\* A canceled entry ends its trade, also when a part of it was filled.
LedgerOrderCanceled ==
  /\ OrderCanceled
  /\ lifecycle' = IF activeOrder.purpose = "exit" /\ activePosition # None
                  THEN lifecycle ELSE None
  /\ UNCHANGED <<positionId, rows, results>>

LedgerTriggerExit ==
  /\ TriggerExit
  /\ lifecycle' = IF lifecycle = None THEN None ELSE [lifecycle EXCEPT !.triggered = TRUE]
  /\ UNCHANGED <<positionId, rows, results>>

---------------------------------------------------------------------------
(* Positions are closed.                                                   *)

\* The result of the held position; without a tracker a new one is used.
Outcome(untriggered) ==
  LET tracker == IF lifecycle = None THEN Begun ELSE lifecycle
  IN [reason |-> IF tracker.triggered THEN "triggered" ELSE untriggered,
      fills |-> IF tracker.bound # None THEN "own" ELSE "all"]

\* Slip: the tracker is kept.
RecordCloseKept(untriggered) ==
  /\ rows' = Closed({positionId})
  /\ results' = [results EXCEPT ![positionId] = Outcome(untriggered)]
  /\ positionId' = None
  /\ UNCHANGED lifecycle

\* finalize_closed_trade.
RecordClose(untriggered) ==
  /\ rows' = Closed({positionId})
  /\ results' = [results EXCEPT ![positionId] = Outcome(untriggered)]
  /\ positionId' = None
  /\ lifecycle' = None

LedgerFinalize ==
  /\ Finalize
  /\ IF activePosition = None THEN UNCHANGED ledgerVars ELSE RecordClose("unknown")

\* Slip: only the result is written.
LedgerSyncCloseOpen ==
  /\ SyncClose
  /\ results' = [results EXCEPT ![positionId] = Outcome("reconcile")]
  /\ positionId' = None
  /\ lifecycle' = None
  /\ UNCHANGED rows

\* finalize_reconciled_close.
LedgerSyncClose ==
  /\ SyncClose
  /\ RecordClose("reconcile")

\* A stop, at an await or between two steps.
LedgerEnded ==
  /\ DrainCompleted \/ Abort
  /\ positionId' = None
  /\ lifecycle' = None
  /\ UNCHANGED <<rows, results>>

\* Slip: the result is committed first.
LedgerCrashInCloseSwapped ==
  /\ pc \in {"finalize", "syncClose"}
  /\ activePosition # None
  /\ Abort
  /\ results' = [results EXCEPT ![positionId] = Outcome("unknown")]
  /\ positionId' = None
  /\ lifecycle' = None
  /\ UNCHANGED rows

\* A crash after the row of the position is committed and before its result is.
LedgerCrashInClose ==
  /\ pc \in {"finalize", "syncClose"}
  /\ activePosition # None
  /\ Abort
  /\ rows' = Closed({positionId})
  /\ positionId' = None
  /\ lifecycle' = None
  /\ UNCHANGED results

---------------------------------------------------------------------------
Recorded == LedgerBootRestore \/ LedgerBootFlat \/ LedgerReconcile
              \/ LedgerEntryFilled \/ LedgerDecide \/ LedgerOrderCanceled
              \/ LedgerTriggerExit \/ LedgerFinalize \/ LedgerSyncClose
              \/ LedgerEnded \/ LedgerCrashInClose

\* The steps of the loop that leave the ledger alone.
Unrecorded ==
  /\ \/ BootSnapshotFails \/ BootPositions \/ BootWithoutPrice \/ BootDone
     \/ Head \/ HeadUnhealthy \/ ReadOpenOrders \/ ReadPositions \/ ReadFails
     \/ CancelListed
     \/ ExitFilled \/ OrderRests \/ RepriceDue \/ WaitedTooLong
     \/ Reprice \/ Timeout
     \/ NoDecision \/ PlaceEntry \/ EntryPriceReject
     \/ Hold \/ PlaceMakerExit \/ PlaceMarketExit \/ ExitPriceReject
     \/ ExitSyncReject \/ SyncCheck \/ PlaceAnswerLost
     \/ Start \/ RequestDrain \/ Market
  /\ UNCHANGED ledgerVars

LedgerSpec == LedgerInit /\ [][Recorded \/ Unrecorded]_allVars

---------------------------------------------------------------------------
(* Properties.                                                             *)

LedgerTypeOK ==
  /\ positionId \in RowIds \cup {None}
  /\ rows \in [RowIds -> Row \cup {None}]
  /\ results \in [RowIds -> Result \cup {None}]
  /\ lifecycle \in Lifecycle \cup {None}

\* The position the loop holds is on record as open, as what it is, so that a
\* restart at any moment can continue its row.
HeldPositionOnRecord ==
  activePosition # None =>
    /\ positionId \in OpenRows
    /\ rows[positionId].side = activePosition.side
    /\ rows[positionId].size = activePosition.size

\* While the loop has not been restarted, an open row belongs to the position
\* it holds, or is the row of a partly filled entry that was restored first.
NoRowForgotten ==
  pc # "down" /\ starts = 0 => OpenRows \subseteq {positionId, ExchangeId}

\* The tracker is never used for another position than the one whose entry it
\* followed.
TrackerOfHeldPosition ==
  lifecycle # None /\ lifecycle.bound # None => lifecycle.bound = positionId

\* While the loop has not been restarted, a position that is closed on record
\* has its trade result, and a trade whose entry the loop saw filled has a known
\* reason and the fees of its own fills, however often its orders were repriced,
\* canceled or rejected.
TradesAccounted ==
  pc # "down" /\ starts = 0 =>
    \A id \in RowIds :
      /\ rows[id] # None /\ ~rows[id].open => results[id] # None
      /\ id \in EntryRows /\ results[id] # None =>
           results[id] = [reason |-> "triggered", fills |-> "own"]

ClosedRow(id) == rows[id] # None /\ ~rows[id].open

\* A trade whose entry the loop saw filled is recorded once, whatever is stopped,
\* crashes or is restarted: its result comes only with the close of its row, and once
\* closed neither is written again, as a position found later is not taken for it.
\* (docs/database/okx_exec_schema.md: one finished trade is one row, which positions
\* found at the exchange do not keep to, see OneRowPerTrade.)
EntryTradesFinal ==
  [][ \A id \in EntryRows :
        /\ ClosedRow(id) => rows'[id] = rows[id] /\ results'[id] = results[id]
        /\ results'[id] # results[id] =>
             results[id] = None /\ id \in OpenRows /\ ClosedRow(id)' ]_allVars

---------------------------------------------------------------------------
(* What the documentation says and the code does not do.                   *)

\* docs/database/okx_exec_schema.md: one finished trade is one row.  The row of
\* a position with a trade result is not used for another trade.
OneRowPerTrade == [][\A id \in RowIds : results[id] # None => id \notin OpenRows']_allVars
=============================================================================
