----------------------------- MODULE PgJournal -----------------------------
(***************************************************************************)
(* The PostgreSQL journal of one executor run: the event-loop thread that  *)
(* saves events, the bounded queue, and the worker thread that writes them *)
(* in batches (src/persistence/postgres_journal.py), driven as             *)
(* src/persistence/executor_store.py drives it.                            *)
(*                                                                         *)
(* An event is its number in the order of saving; "saved" gives its kind.  *)
(* The worker takes one step per database call.  What PostgreSQL does with *)
(* a statement or a commit is external: it may refuse it, or the           *)
(* connection may be lost at any moment, also while a commit is under way. *)
(***************************************************************************)
EXTENDS Naturals, Sequences, FiniteSets

CONSTANTS QueueSize,    \* queue_size: events the queue holds
          BatchLimit,   \* writes after which the worker commits (25)
          MaxSaves,     \* bound: events of a run, the run's own two included
          MaxFaults     \* bound: refusals and lost connections

ASSUME JournalBounds ==
  /\ QueueSize \in Nat \ {0} /\ BatchLimit \in Nat \ {0}
  /\ MaxSaves \in Nat /\ MaxFaults \in Nat

VARIABLES
  saved,      \* kinds of the events saved so far, in that order
  queue,      \* _queue: event numbers, and the sentinel
  dropped,    \* _dropped: items refused because the queue was full
  caller,     \* where the executor is in start_run .. stop
  timedOut,   \* join(timeout=15.0) returned with the worker still alive
  runKnown,   \* _run_id_ready: the executor has its run_id
  wpc,        \* the next database call or queue access of the worker
  item,       \* the event in the worker's hands, or None
  batch,      \* writes of the open transaction
  pending,    \* pending_commits
  conn,       \* the worker's connection
  committed,  \* events whose writes PostgreSQL has made durable, in order
  faults      \* refusals and lost connections so far

callerVars == <<saved, dropped, caller, timedOut>>
workerVars == <<runKnown, wpc, item, batch, pending, conn, committed>>
vars == <<saved, queue, dropped, caller, timedOut, runKnown, wpc, item, batch,
          pending, conn, committed, faults>>

Sentinel == 0
None == MaxSaves + 1
Kinds == {"start", "row", "open", "update", "result"}
Elements(s) == {s[i] : i \in DOMAIN s}

JournalTypeOK ==
  /\ saved \in Seq(Kinds) /\ Len(saved) <= MaxSaves
  /\ queue \in Seq(0..MaxSaves) /\ Len(queue) <= QueueSize
  /\ dropped \in 0..(MaxSaves + 1) /\ faults \in 0..MaxFaults
  /\ caller \in {"new", "opening", "open", "finished", "joining", "stopped",
                 "failed"}
  /\ timedOut \in BOOLEAN /\ runKnown \in BOOLEAN
  /\ wpc \in {"none", "connect", "get", "write", "commit", "final", "closed"}
  /\ item \in 1..None /\ (wpc = "write") = (item # None)
  /\ batch \in Seq(1..MaxSaves) /\ committed \in Seq(1..MaxSaves)
  /\ pending \in 0..MaxSaves
  /\ Len(batch) <= pending
  /\ conn \in {"none", "ok", "broken"}

Init ==
  /\ saved = <<>> /\ queue = <<>> /\ dropped = 0
  /\ caller = "new" /\ timedOut = FALSE /\ runKnown = FALSE
  /\ wpc = "none" /\ item = None /\ batch = <<>> /\ pending = 0
  /\ conn = "none" /\ committed = <<>> /\ faults = 0

-----------------------------------------------------------------------------
(* The executor's side.                                                    *)

\* Mutants: a queue without a bound; a drop nobody counts.
EnqueueUnbounded(i) == queue' = Append(queue, i) /\ UNCHANGED dropped
EnqueueUncounted(i) ==
  /\ queue' = IF Len(queue) < QueueSize THEN Append(queue, i) ELSE queue
  /\ UNCHANGED dropped

\* put_nowait: an item that finds the queue full is dropped and counted.
Enqueue(i) ==
  IF Len(queue) < QueueSize
    THEN queue' = Append(queue, i) /\ UNCHANGED dropped
    ELSE dropped' = dropped + 1 /\ UNCHANGED queue

Saves(kind) ==
  /\ Len(saved) < MaxSaves
  /\ saved' = Append(saved, kind)
  /\ Enqueue(Len(saved) + 1)

\* open: the worker thread is started and asked for the run's row.
StartRun ==
  /\ caller = "new"
  /\ caller' = "opening"
  /\ wpc' = "connect"
  /\ Saves("start")
  /\ UNCHANGED <<timedOut, runKnown, item, batch, pending, conn, committed,
                 faults>>

RunStarted ==
  /\ caller = "opening" /\ runKnown
  /\ caller' = "open"
  /\ UNCHANGED <<saved, queue, dropped, timedOut, workerVars, faults>>

\* 30 seconds without a run_id: open raises, and nobody stops the worker.
StartTimesOut ==
  /\ caller = "opening" /\ ~runKnown
  /\ caller' = "failed"
  /\ UNCHANGED <<saved, queue, dropped, timedOut, workerVars, faults>>

\* One call of the store: a row of the run, a position, a change of an order
\* or a position, or the result of a trade.  A result is saved only for a
\* position this store has opened.
Save(kind) ==
  /\ caller = "open" /\ Len(saved) + 1 < MaxSaves
  /\ kind = "result" => "open" \in Elements(saved)
  /\ Saves(kind)
  /\ UNCHANGED <<caller, timedOut, workerVars, faults>>

\* aclose: the end of the run is saved, then the worker is told to stop.
FinishRun ==
  /\ caller = "open"
  /\ caller' = "finished"
  /\ Saves("update")
  /\ UNCHANGED <<timedOut, workerVars, faults>>

Stop ==
  /\ caller = "finished"
  /\ caller' = "joining"
  /\ Enqueue(Sentinel)
  /\ UNCHANGED <<saved, timedOut, workerVars, faults>>

\* join returns when the thread has ended, or after 15 seconds.
StopReturns ==
  /\ caller = "joining"
  /\ caller' = "stopped"
  /\ timedOut' = (wpc # "closed")
  /\ UNCHANGED <<saved, queue, dropped, workerVars, faults>>

\* The process ends, by itself or not: the daemon thread is killed where it
\* is, and PostgreSQL rolls its open transaction back.
ProcessEnds ==
  /\ wpc \notin {"none", "closed"}
  /\ caller \in {"stopped", "failed"} \/ faults < MaxFaults
  /\ faults' = IF caller \in {"stopped", "failed"} THEN faults ELSE faults + 1
  /\ caller' = IF caller \in {"stopped", "failed"} THEN caller ELSE "failed"
  /\ wpc' = "closed" /\ conn' = "none" /\ item' = None /\ batch' = <<>>
  /\ UNCHANGED <<saved, queue, dropped, timedOut, runKnown, pending, committed>>

-----------------------------------------------------------------------------
(* The worker thread.                                                      *)

Fault == faults < MaxFaults /\ faults' = faults + 1

\* The finally clause: whatever is not committed is rolled back.
Close ==
  /\ wpc' = "closed" /\ conn' = "none" /\ item' = None /\ batch' = <<>>
  /\ UNCHANGED <<runKnown, pending>>

\* The except clause around one write: roll the whole transaction back, the
\* counter of pending writes as it was; on a lost connection the rollback
\* raises too and the worker ends.
Rollback ==
  IF conn = "broken"
    THEN Close
    ELSE /\ wpc' = "get" /\ item' = None /\ batch' = <<>>
         /\ UNCHANGED <<runKnown, pending, conn>>

Connect ==
  /\ wpc = "connect"
  /\ \/ /\ wpc' = "get" /\ conn' = "ok"
        /\ UNCHANGED <<runKnown, item, batch, pending, faults>>
     \/ Fault /\ Close
  /\ UNCHANGED <<callerVars, queue, committed>>

Get ==
  /\ wpc = "get" /\ queue # <<>>
  /\ queue' = Tail(queue)
  /\ IF Head(queue) = Sentinel
       THEN wpc' = "final" /\ UNCHANGED item
       ELSE wpc' = "write" /\ item' = Head(queue)
  /\ UNCHANGED <<callerVars, runKnown, batch, pending, conn, committed, faults>>

\* The rows the transaction sees: its own and the committed ones.
Visible(kind) ==
  \E n \in Elements(batch) \cup Elements(committed) : saved[n] = kind

\* The inserts that name their run, and those that also name a position.
\* An update names nothing: it matches no row when the row is missing.
RowsOfRun == {"row", "open", "result"}
RowsOfPosition == {"result"}

\* The server takes a row only with what its foreign keys name.
Accepted(n) ==
  /\ conn = "ok"
  /\ saved[n] \in RowsOfRun => Visible("start")
  /\ saved[n] \in RowsOfPosition => Visible("open")

\* The insert of the run hands its run_id out before anything is committed.
Write ==
  /\ wpc = "write" /\ Accepted(item)
  /\ batch' = Append(batch, item)
  /\ pending' = pending + 1
  /\ item' = None
  /\ wpc' = IF pending + 1 >= BatchLimit THEN "commit" ELSE "get"
  /\ runKnown' = (runKnown \/ saved[item] = "start")
  /\ UNCHANGED <<callerVars, queue, conn, committed, faults>>

\* Mutant: the event of a failed write is queued again.
WriteFailsRetried ==
  /\ wpc = "write"
  /\ \/ ~Accepted(item) /\ UNCHANGED faults
     \/ Accepted(item) /\ Fault
  /\ Rollback
  /\ queue' = IF Len(queue) < QueueSize THEN Append(queue, item) ELSE queue
  /\ UNCHANGED <<callerVars, committed>>

\* A write that raises: a missing reference, a lost connection, or a
\* statement the server refuses for a reason of its own.
WriteFails ==
  /\ wpc = "write"
  /\ \/ ~Accepted(item) /\ UNCHANGED faults
     \/ Accepted(item) /\ Fault
  /\ Rollback
  /\ UNCHANGED <<callerVars, queue, committed>>

\* Mutant: the batch stays, and the next commit inserts it again.
CommittedAgain ==
  committed' = committed \o batch /\ UNCHANGED batch /\ pending' = 0

Committed == committed' = committed \o batch /\ batch' = <<>> /\ pending' = 0

\* commit() of an empty transaction sends nothing and cannot fail.
CanCommit == conn = "ok" \/ batch = <<>>

CommitBatch ==
  /\ wpc = "commit" /\ CanCommit
  /\ Committed
  /\ wpc' = "get"
  /\ UNCHANGED <<callerVars, queue, runKnown, item, conn, faults>>

\* Mutant: an idle worker commits full batches only.
CommitIdleFull ==
  /\ wpc = "get" /\ queue = <<>> /\ pending >= BatchLimit /\ CanCommit
  /\ Committed
  /\ UNCHANGED <<callerVars, queue, runKnown, wpc, item, conn, faults>>

\* get(timeout=0.1) raised Empty: whatever is pending is committed.
CommitIdle ==
  /\ wpc = "get" /\ queue = <<>> /\ pending > 0 /\ CanCommit
  /\ Committed
  /\ UNCHANGED <<callerVars, queue, runKnown, wpc, item, conn, faults>>

\* Mutant: the worker ends without its last commit.
CloseUncommitted ==
  /\ wpc = "final"
  /\ Close
  /\ UNCHANGED <<callerVars, queue, committed, faults>>

\* The sentinel ended the loop: the rest is committed, the worker ends.
CommitFinal ==
  /\ wpc = "final" /\ CanCommit
  /\ committed' = committed \o batch
  /\ Close
  /\ UNCHANGED <<callerVars, queue, faults>>

\* A commit that raises.  Inside the write's try it only rolls back; at an
\* idle moment or at the end it ends the worker.  When the connection is lost
\* during the commit, the server may have carried it out.
CommitFails ==
  /\ batch # <<>>
  /\ \/ wpc = "commit" /\ Rollback
     \/ wpc = "get" /\ queue = <<>> /\ Close
     \/ wpc = "final" /\ Close
  /\ \/ conn = "broken" /\ UNCHANGED <<committed, faults>>
     \/ conn = "ok" /\ Fault /\ UNCHANGED committed
  /\ UNCHANGED <<callerVars, queue>>

CommitUnanswered ==
  /\ batch # <<>> /\ conn = "ok" /\ Fault
  /\ wpc \in {"commit", "final"} \/ (wpc = "get" /\ queue = <<>>)
  /\ committed' = committed \o batch
  /\ Close
  /\ UNCHANGED <<callerVars, queue>>

\* The connection is lost; the worker notices at its next database call.
Disconnect ==
  /\ conn = "ok" /\ Fault
  /\ conn' = "broken"
  /\ UNCHANGED <<callerVars, queue, runKnown, wpc, item, batch, pending,
                 committed>>

-----------------------------------------------------------------------------
Executor ==
  \/ StartRun \/ RunStarted \/ StartTimesOut
  \/ \E kind \in Kinds \ {"start"} : Save(kind)
  \/ FinishRun \/ Stop \/ StopReturns

Worker ==
  \/ Connect \/ Get \/ Write \/ WriteFails
  \/ CommitBatch \/ CommitIdle \/ CommitFinal \/ CommitFails \/ CommitUnanswered

Next == Executor \/ Worker \/ Disconnect \/ ProcessEnds

Spec == Init /\ [][Next]_vars

\* The worker is a thread of its own that never waits longer than 0.1 s, and
\* the driver answers or raises; the executor is free to save or not.
FairSpec == Spec /\ WF_vars(Worker)

-----------------------------------------------------------------------------
(* What the journal promises.                                              *)

\* An event that is on its way: not refused, not lost, not yet durable.
OnItsWay(n) == n \in Elements(queue) \cup Elements(batch) \cup {item}

\* Rows become durable in the order in which they were saved, each at most
\* once: a rolled-back write is not tried again behind a later one (one
\* queue, one worker, _worker).
CommittedInOrder ==
  \A i, j \in DOMAIN committed : i < j => committed[i] < committed[j]

\* As long as nothing was refused, nothing was dropped and no connection was
\* lost, the database holds an initial part of what was saved: no missing
\* reference ever rolls a batch back by itself, whatever the run saves.
JournalIsPrefix ==
  faults = 0 /\ dropped = 0 =>
    \A i \in DOMAIN committed : committed[i] = i

\* stop: "stops the worker after the queue is flushed".  When it returned in
\* time without a fault or a drop, every event of the run is durable.
StopFlushes ==
  caller = "stopped" /\ ~timedOut /\ faults = 0 /\ dropped = 0 =>
    Len(committed) = Len(saved)

\* No event stays in the queue or in an open transaction for ever while the
\* worker lives: the batch limit, the idle commit or the end settles it.
EventsSettle ==
  \A n \in 1..MaxSaves : OnItsWay(n) ~> (~OnItsWay(n) \/ wpc = "closed")

\* For its caller the journal is a log of events: what has become durable stays so,
\* comes in the order of saving and without repetition, has no gap as long as nothing
\* was refused or lost, and is complete and final once stop has returned in time
\* (postgres_journal.py, executor_store.py).
journalPhase ==
  IF caller = "stopped" /\ ~timedOut THEN "flushed"
  ELSE IF caller \in {"stopped", "failed"} THEN "abandoned" ELSE "open"

Log == INSTANCE EventLog WITH
  saved <- Len(saved),
  log <- committed,
  intact <- faults = 0 /\ dropped = 0,
  phase <- journalPhase

ImplementsEventLog == Log!Spec
=============================================================================
