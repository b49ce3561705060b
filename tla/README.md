# A TLA+ model of the executor

The executor trades one instrument per strategy on OKX: a coroutine polls the
exchange over REST, enters with a post-only order, restores and reconciles what
it finds, and exits with reduce-only orders. A manager starts and stops the
strategies, a control API and a command line feed it commands through SQLite,
and every run is journalled to SQLite and, when configured, to PostgreSQL.

This directory models those parts, model-checks them on small instances, and
proves the safety of all of them for every value of their constants. Paths
below are relative to the repository.

## 1. Inventory

| component | state | operations | hard behaviour | what makes it correct |
|---|---|---|---|---|
| strategy loop, `app/orchestrator.py`, `app/position_state.py` | `active_order`, `active_position`, cooldown, drain flag, flags of the iteration | one iteration: snapshots, reconcile, manage the order, reprice, time out, decide, enter, exit, drain | every await lets the exchange move; requests fail or lose their answer; cancel races with fill | never enters with exposure, exits only reduce, belief and exchange never opposite, positions get closed, a drain ends |
| reconciliation, `app/position_reconcile.py` | none of its own | at the start: close stale rows, restore a position, adopt or cancel orders; in the loop: restore | crash between any two requests, partial fills | an adopted order is the exit of the restored position |
| exchange client, `exchange/okx/rest_client.py` | none | place, cancel, query, fills | timeouts after acceptance, refusals 51169, 51170, 51400, price limits | errors reach the branch meant for them |
| trade records, `persistence/sqlite_store.py`, `execution/trade_finalize.py`, `execution/trade_lifecycle.py` | `positions`, `trade_results`, the tracker of the current trade | open, close, finalize, reconcile | crash between two commits, ids that come back | a held position is on record, a closed one has its result |
| strategy manager, `app/strategy_manager.py` | `_runtimes`, the tasks, the stop event | start, drain, cancel, restart, collect finished tasks, shutdown | tasks end by themselves at any moment; a drain is awaited inside the command loop | one reachable loop for a strategy, commands in order, a registry that tells the truth |
| registry and commands, `persistence/sqlite_store.py` | `strategies_registry`, `strategy_commands` | upsert, set state, enqueue, claim, finish | three writers in several processes, restarts | as above |
| control API, command line, `control/app.py`, `app/main.py` | none | enable, disable, restart, list | requests at any moment | as above |
| PostgreSQL journal, `persistence/postgres_journal.py` behind `persistence/executor_store.py` | queue, dropped count, run id, open transaction, worker thread | start the run, save, finish, stop; write, commit, roll back | two threads, a bounded queue, lost connections, timeouts on both ends | order of saving, no gap without a reason, stop flushes, events do not linger |
| strategies, `strategy/` | last decision, cooldown | decide, position closed | random side | decides only when flat and healthy |
| price rules, PnL, fees, `app/position_state.py`, `accounting/` | none | price an order, find it stale, target and stop, result and fees of a trade | rounding, signs of the two sides, a book that moves between the reads | never priced through the touch, an order left behind is moved, a result that is what the fills brought |
| settings and bootstrap, `config/`, `app/bootstrap.py` | none | parse, validate | none | not modelled |
| engine skeleton, risk guards, websockets, stub exchange | none in the running program | none called | none | not modelled |

Interaction: the manager owns one asyncio task for each strategy and talks to it
by a drain flag or by cancelling it. The loop calls the exchange (awaits) and the
store (synchronous SQLite commits, then an event for the journal's queue). The
journal's worker is a thread of its own. API and command line only write
SQLite rows, which the manager polls.

`PROJECT.json` lists the hazards at their lines, with the properties that watch
them, or the reason why none does yet.

## 2. Modules

| module | models | extends |
|---|---|---|
| `OkxExchange` | the exchange: orders of one instrument, signed net position; fills, cancels | |
| `ExecutorLoop` | the loop and both reconciliations against `OkxExchange` | `OkxExchange` |
| `TradeCycle` | what the loop promises about its trades, abstractly; `ExecutorLoop`, `TradeLedger` and `TradePrices` implement it | |
| `MCExecutorLoop` | symmetry for the instances | `ExecutorLoop` |
| `ExecutorLoopProofs`, `ExecutorLoopOrderProofs` | theorems about `ExecutorLoop` | `ExecutorLoop` |
| `TradeLedger` | the records of trades: every action is an action of the loop with its store calls | `ExecutorLoop` |
| `MCTradeLedger` | symmetry for the instances | `TradeLedger` |
| `TradeLedgerProofs` | theorems about `TradeLedger` | `TradeLedger`, `ExecutorLoopOrderProofs` |
| `TradePrices` | one trade in prices: price and exit rules, PnL, fees | |
| `TradePricesProofs`, `TradePricesAccountProofs`, `TradePricesCycleProofs` | theorems about `TradePrices` | `TradePrices` |
| `StrategyManager`, `StrategyManagerProofs` | manager, tasks, registry, command queue, API, command line, restarts | |
| `Supervision` | what the manager promises, abstractly: who runs, and what became of each command | |
| `PgJournal`, `PgJournalProofs` | the journal: executor side, queue, worker, PostgreSQL | |
| `EventLog` | what the journal promises, abstractly: one log that only loses what is not durable | |

### ExecutorLoop

`pc` names the request the coroutine is waiting for; what happens between two
awaits is one step, which is how asyncio runs it. Between any two steps the
exchange may fill an order in part or in full, or take it off the book
(`Market`). `iter` holds what this iteration has read: whether there was an order,
a position, its signed size, the orders to sweep. Repeated sub-requests that change
nothing (bid and ask, price limits, fees) are part of the step they precede; when
they fail the iteration is given up, which is a disjunct of its own.

Each action names its part of the loop: `Boot*` the start, `Head` .. `Reconcile`
the snapshots, `EntryFilled` .. `WaitedTooLong` the verdict on the managed order,
`CancelForReprice`/`Replace*` and `CancelForTimeout`/`Verify*` the two ways to
replace or give up an order, `Decide`/`PlaceEntry*` the entry, `TriggerExit` ..
`SyncClose` the exit, `DrainCompleted` the end of a drain. `PlaceAnswerLost` is
the request that timed out after it was, or was not, carried out. `Abort` is a
force stop, a crash or a run limit; a request under way may still be carried out.

Abstractions. *Prices*: whether a level is hit and whether an order is stale
are free choices, so every price path is covered. *Time*: the thresholds the code
compares with (reprice interval, maximal wait, timeout, grace, cooldown) may pass at
each head of the loop. *Orders*: one that is terminal and not managed is forgotten
(`Known`) and its identifier used again, since no request can name it any more.
*Attempts* saturate at the value they are compared with. Market orders are
executed at once. The instrument is traded by this loop alone; an operator or the
exchange may cancel its orders but places none. An average price that is missing counts as a failed read. An
order that arrives at the exchange only after the restart is not modelled. Errors
of SQLite inside the loop are not modelled.

### TradeLedger

`Recorded` pairs each action of the loop that writes with its writes to
`positions` and `trade_results` and to the tracker; `Unrecorded` is the rest.
A commit is part of the step that makes it because no await lies between; the one
place where two commits of a step can be separated is a crash while a position is
closed (`LedgerCrashInClose`). An id is a fresh member of `EntryRows` for a filled
entry and `ExchangeId` for a restored position without a row, since the code
derives it from the exchange's position or the instrument. Signals, orders, service
events, PnL and execution metrics are left out.

### TradePrices

The loop again, reduced to the steps between which prices can move: the ticker at
the head of an iteration, the book and the limits read for a new order, the
placing, fills. Requests do not fail here; what failures do is `ExecutorLoop`'s
subject. A price is an integer in units finer than the tick, and an entry price is
kept as the cost of the whole position, so that an average needs no fractions.
`ragged` remembers that an order was filled in part, or without the loop noticing;
the accounting promises nothing then. Fills may be listed late, so that the fees of
either order may be missing (`Record`). `Move` keeps a resting order part of the book
until it is filled; a stale order is therefore behind the touch.

### StrategyManager

`mpc` is where the manager coroutine is suspended. Tasks move only while it is
suspended (one event loop); other processes write to SQLite at any moment, each
commit of theirs a step: an enabling API request writes the row and then the command,
a command line reads the registry and, when it is empty, writes the rows of the
file one by one (`CommandLine*`). `foreign` remembers whose row another process
wrote last, which is the only way in which a running strategy may be reported as
stopped. `batch` is the set of claimed commands, taken from the lowest id on. A task
goes from scheduled to running to done; it may drain, fail, or be cancelled, also
before its first step. The manager's own writes to the database between two awaits
are one step. `Crash` drops everything but the database.

### PgJournal

Events are numbers in the order of saving. The executor may save at any moment,
the worker takes one step for each database call. PostgreSQL is external: it
refuses a row whose run or position it does not have, may refuse anything else at
the cost of a fault, may lose the connection at any moment and may carry out a
commit whose answer is lost. `pending` is not reset by a rollback, as in the code. All
events of one run; positions of one instrument share an id.

## 3. Runs

Passing runs, each exhaustive:

| run | module | bounds | shows |
|---|---|---|---|
| `loop_safety` | `MCExecutorLoop` | 3 orders, size 2 of at most 3 lots, 1 fault, 1 restart, 2 decisions | the safety invariants, what a completed drain leaves, `NoReversal`, the refinement of `TradeCycle` |
| `loop_liveness` | `MCExecutorLoop` | 3 orders, size 1, 1 fault, 1 restart, 1 decision | positions and exposure are closed, stray entries swept, a drain ends when requests are answered |
| `ledger` | `MCTradeLedger` | as above, size 2, one entry row | records and results match the positions; a trade is recorded once |
| `prices` | `TradePrices` | 4 levels, 2 limits off the grid, 2 moves of the book, 3 orders of 2 lots | pricing, moving of entries, verdicts, accounting, the refinement of `TradeCycle` |
| `manager` | `StrategyManager` | 3 names, 2 configured, 2 commands, 2 events among an API or command line write, a stop, a crash and a failing task | one loop per strategy, order of commands, the registry, disable, progress, the refinement of `Supervision` |
| `journal` | `PgJournal` | queue of 2, batches of 2, 5 events, 2 faults | order, prefix, flush at stop, no lingering, the refinement of `EventLog` |

Why the bounds suffice: three orders are the managed one, its replacement and a
stray one, which is all the loop can produce before a sweep; size 2 makes partial
fills, and the third lot the double fill of the reprice race; two decisions
make one trade follow another; one fault reaches each error branch and one restart
each recovery branch. Two commands are the least that can overtake one another;
two tasks the least that could run for one strategy. A trade in prices needs a move
of the book before its entry and one before its exit, a target and a stop one tick
away among four levels, and an entry, its exit and one replacement. In the journal a queue of two
overflows, a batch of two is committed by its limit, when idle and at the end, and a
position and its result can fall into different batches. Every constant and bound
is named in its module; counters (`faults`, `starts`, `decisions`, `crashes`, ...)
exist only for the bounds.

Deadlock checking is off throughout: the loop ends after a drain, the manager after
a stop, the journal with its run, the trade with its result, and the bounds stop the
rest.

Runs that find what a document or comment says violated by what the code does:

| run | property | behaviour |
|---|---|---|
| `reprice_race` | `OnePositionOfFixedSize` | an entry filled while it is repriced is placed, and filled, a second time |
| `drain_exposure` | `DrainLeavesFlat` | a drained loop stops on its own belief and leaves a position it does not know of |
| `drain_stuck` | `DrainEventuallyStops` | an entry whose acknowledgement was lost is never recognised nor canceled, and keeps the drain waiting |
| `force_waits` | `ForceStops` | a force command waits behind a drain |
| `trade_overwritten` | `OneRowPerTrade` | the row of a finished trade is used by another |
| `exit_never_stale` | `StaleExitMoves` | an exit the market has left behind is measured with the wrong sign and stays |

The quoted sentences are in `PROJECT.json` under `findings`.

## 4. Fairness

`ExecutorLoop`: weak fairness of `LoopStep`, since the event loop resumes a
coroutine whose request is answered and every HTTP request has a timeout; strong
fairness of `TimePasses`, since every head reads a clock that goes on and so each
threshold is reached at some head; weak fairness of `Start`, for the supervisor that
restarts the process. Nothing is assumed of the market: orders may rest unfilled for
ever. Faults are finite.

`StrategyManager`: weak fairness of the manager, of each task's next step and of the
start of the process. `DrainingSpec`, used by the passing run, adds that the drain of
a disable completes: the code awaits it without a timeout, `drain_stuck` shows that
it can fail to, and `force_waits` shows the consequence without that assumption.

`PgJournal`: weak fairness of the worker, which never waits longer than 0.1 s for the
queue and whose driver answers or raises.

## 5. Proofs

Every safety invariant, action property and refinement of the passing runs is a theorem. In nearly
every case the property is not inductive and follows from a stronger invariant, which TLC checked before it was proved.

**The loop** (`ExecutorLoopProofs`, `ExecutorLoopOrderProofs`), for all orders, sizes,
attempts and bounds:

| theorem | states |
|---|---|
| `TypeCorrect` | `Spec => []TypeOK` |
| `EntrySafety` | `Spec => []EntryOnlyWhenFlat` |
| `ExitsReduceOnly` | `Spec => []ExitIsReduceOnly` |
| `ExitsMatch` | `Spec => []ExitMatchesPosition` |
| `SidesNeverDisagree` | `Spec => []SidesAgree` |
| `EntriesNeverOpposed` | `Spec => []EntriesNeverOppose` |
| `NeverReversed` | `Spec => NoReversal` |
| `Refinement` | `Spec => ImplementsTradeCycle` |
| `OrdersNeverLost` | `Spec => []NoOrderLost` |
| `DrainsLeaveNoOrder` | `Spec => []DrainLeavesNoOrder` |

The first eight rest on `Invariance == Spec => []IInv`, with

    IInv == TypeOK /\ Control /\ Tracking /\ Snapshots /\ Direction

`Control` says what the place in the loop implies about the locals. `Tracking` ties
the managed order to the exchange's (same side, reduce-only exactly for exits).
`Snapshots` is the argument that stale reads do no harm: as long as the iteration's
flags say "no order", the book is empty and only the loop itself can change that, so
the position read afterwards stays true until the entry is placed. `Direction` says
there is one side `s` that all exposure, all entries and the loop's belief share and
that all exits oppose; it may change only when there is nothing at all. `SidesAgree`,
`EntriesNeverOppose` and the action property `NoReversal` follow from it. This also
covers the double fill of the reprice race: it enlarges a position, it never
turns one.

The proof first classifies what a step does to the exchange (`Effect`: it adds one
order, fills one, only shrinks the book, or executes a market exit) and then treats
each part of the invariant, with one case for each action. The refinement maps the
loop's beliefs to `phase` and the sign of the net position to `exposure`.
`NoOrderLost` needs one part more, `Settled`: where the loop is about to drop or
replace its order, the exchange has closed it. `DrainLeavesNoOrder` follows from it at
the one step that ends a drain: `NoOrderLost` says that an order left at the exchange
would be the managed one, and the drain does not end while the loop manages one. The
condition that no request failed is not for the proof's sake: after an entry whose
answer was lost, the fill of the order that is managed resets `has_active_order`
(`orchestrator.py:366`), and the drain ends in that iteration with the other entry on
the book.

`EntrySafety` assumes `CooldownSec > 0` (`CooldownAssumption`). The value is configured
and never validated (`strategy/random_baseline/config.py:12`, default 20). It is needed:
with 0 the iteration that closes a trade may decide upon the next entry on the flags it
has just reset, and TLC shows `EntryOnlyWhenFlat` violated.

**The records** (`TradeLedgerProofs`). Every step of the ledger is a step of the loop
(`LedgerRefinesLoop`), so the theorems above hold of the loop with its records
(`LoopWithLedger` states one of them). `LedgerInv` adds to the four properties
(`HeldPositionOnRecord`, `NoRowForgotten`, `TrackerOfHeldPosition`,
`TradesAccounted`) that the loop has an id exactly for the position it holds
(`Identified`), what the tracker knows at each stage of a trade (`Stages`: an entry has
one, an exit has been triggered), and what only a first run can rely on (`FirstRun`).
`EntryTradesRecordedOnce` (`EntryTradesFinal`) holds across every stop, crash and restart:
the row of a trade whose entry the loop saw filled is never used again once closed, and
its result is written once, with the close. It is what remains of `OneRowPerTrade`, which
positions found at the exchange break; besides `LedgerInv` it needs only that a result
belongs to a closed row (`ResultsOfClosed`).

**The manager** (`StrategyManagerProofs`), for any set of strategies and any number of
commands and events: `OneReachableLoop`, `CommandsTakenInOrder`,
`RegistryAlwaysTruthful` and the action property `DisableAlwaysStops`.

    ManagerInv == TypeOK /\ Linked(runtimes, tasks) /\ Phases /\ Claimed /\ Truth

`Linked` says that tasks and `_runtimes` name each other, which is why a strategy has
at most one task. `Claimed` orders the queue: claimed commands are younger than all
finished ones and older than all pending ones. `Truth` extends `RegistryTruthful` over
the passes: while a strategy is being stopped, its row alone may be behind.

`ManagerImplementsSupervision`: the manager, its tasks, the batch it has claimed and two
tables implement `Supervision`, which has only who runs (`Ran`, from the tasks), the
commands asked for (`Asked`, from the queue) and how they were settled (`Settled`). There
a loop begins with the manager or by a command for its strategy, and a command is settled
once, after all that were settled before it, and as done only with the effect it asked
for; one that a crash caught is never settled. The proof has one lemma for each group of
actions; `Linked` gives the effect of a command on `Ran`, `Claimed` that the command in
hand is younger than all that were settled.

**The journal** (`PgJournalProofs`), for any sizes of queue and batch:
`RowsCommittedInOrder`, `DurableRowsArePrefix`, `StopFlushesJournal`.

    JournalInv == JournalTypeOK /\ Ordered /\ Course /\ Contiguous

An event travels from the queue to the worker's hands, the open transaction and the
database. `Ordered`: along this way events are in the order of saving, and the count
of pending writes, which a rollback does not reset, is behind them. `Course`: the
sentinel is last. `Contiguous`: without a fault or a drop the places of this way,
one after the other, hold 1, 2, 3, ... up to what was saved.

`JournalImplementsLog`: queue, hands, open transaction and database together implement
`EventLog`: a log of durable events that only grows at its end, in the order of saving;
it has no gap as long as nothing was lost, and is complete and final once a stop was in
time. What the steps of the worker do not show is that nothing more is committed when it
has gone; `Shut` says why: its connection is closed.

**Prices** (`TradePricesProofs`), for any tick, book, limits and thresholds:
`MakerPricesWithinBand`, `VerdictsPay`, `StaleEntriesMove`.

    PricesInv == PricesTypeOK /\ Shape /\ Band /\ Verdict

The arithmetic is in lemmas: rounding to the last digit of the tick stays within half
a unit and never passes a multiple of it (`QuantizeRounds`), and every price of the
book is such a multiple (`LevelOnGrid`). `Verdict` keeps what an exit reason said of
the position at the price that gave it, as long as the position is held; an exit at
a price no worse then gains no less.

`CleanTradesAccounted` (`TradePricesAccountProofs`) needs more than its property, which
speaks of the end of a trade only. `Accounted` follows the account there through four
stages: nothing traded, an entry resting or filled, a position held, an exit resting or
filled. In each of them the exchange's position, the balance and the fees are what the
order, the position and the tracker of the loop say. A trade that was filled in part
or behind the loop's back (`ragged`) has left the stages, and nothing is promised of it.

`PricesImplementTradeCycle` (`TradePricesCycleProofs`) does cover those trades: whatever is
filled in part, given up and replaced, a trade in prices is one of `TradeCycle`, as the
loop's is. `EntryAhead` is what it takes: while an entry is in hand, at the exchange or
about to be replaced, nothing is held against its side, so that its fills only add; an
exit is cut to what is held. No step of the trade uses the freedom `TradeCycle` gives to
a loop that stops.

The types are theorems too: `TypeCorrect`, `LedgerTypeCorrect`,
`ManagerTypeCorrect`, `JournalTypeCorrect`, `PricesTypeCorrect`.

Assumptions: the named `ASSUME`s of each module (sets and bounds are natural numbers,
`None` is none of the values, there is a cooldown, prices of the book are multiples of the tick and the tick
one of its last digit), which the runs evaluate. `OrderIds` is any set, finite or not.

Only model-checked: all liveness (`PositionEventuallyClosed`,
`ExposureEventuallyClosed`, `StrayRepriceSwept`, `DrainStopsIfAnswered`,
`CommandsFinish`, `StopEnds`, `EventsSettle`), which is out of the prover's reach.

## 6. Not modelled

Settings; HTTP, signing and parsing; the PostgreSQL and SQLite schemas beyond the rows
named above, in particular the tables of signals, orders and execution attempts and the
metrics of a trade; SQLite lock errors; the skeleton engine, risk guards, websocket and
stub classes, which the running program does not call; scripts and migrations.
`PROJECT.json` has the reason for each component.

## 7. Plan

Done, in this order: exchange and loop, abstract cycle, proofs about the loop,
manager, ledger, journal, prices, proofs about each of them; abstract specifications of
manager and journal, and the proofs that these, and the trade in prices, implement theirs.

Next, by importance:

1. Two loops on one `OkxExchange`, since the configuration allows two strategies on one
   instrument; an order request that reaches the exchange after a restart; store errors
   inside an iteration.
2. Ledger: the tables of orders and signals, close source of an exit; the agreement of
   SQLite and PostgreSQL on a reused position id.
