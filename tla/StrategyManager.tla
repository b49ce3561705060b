---------------------------- MODULE StrategyManager ----------------------------
(***************************************************************************)
(* The strategy manager of app/strategy_manager.py: one asyncio task per   *)
(* strategy, a registry of strategies and a queue of commands in SQLite.   *)
(* The control API (control/app.py) and the command line (app/main.py) are *)
(* other processes that write to the same database at any time, in commits *)
(* of their own.                                                           *)
(*                                                                         *)
(* The strategy loop itself is ExecutorLoop; here a task only runs, is     *)
(* asked to drain or is cancelled, and ends.  The tasks and the manager    *)
(* share one thread: a task moves only while the manager is suspended.     *)
(***************************************************************************)
EXTENDS Integers, Sequences, FiniteSets

CONSTANTS
  Names,        \* names that commands may carry
  Configured,   \* the strategies of the YAML file
  Enabled,      \* those that the file enables
  TaskIds,      \* identities for tasks
  None,
  MaxCommands,  \* bound: commands ever queued
  MaxUpserts,   \* bound: requests of other processes that write to the registry
  MaxStops,     \* bound: stop signals
  MaxCrashes,   \* bound: crashes of the manager's process
  MaxFailures,  \* bound: strategy tasks that end with an exception
  MaxEvents     \* bound: all of these together

ASSUME NamesAssumption ==
  Enabled \subseteq Configured /\ Configured \subseteq Names /\ None \notin Names
ASSUME TasksAssumption ==
  /\ None \notin TaskIds
  /\ \E f \in [Enabled -> TaskIds] : \A m, n \in Enabled : f[m] = f[n] => m = n
ASSUME ManagerBounds ==
  {MaxCommands, MaxUpserts, MaxStops, MaxCrashes, MaxFailures, MaxEvents} \subseteq Nat

VARIABLES
  registry,   \* strategies_registry: a row or None for each name
  foreign,    \* history: names whose row another process wrote last
  queue,      \* strategy_commands, in the order of their ids
  writer,     \* the rows a command line has still to write, or None
  mpc,        \* where the manager is
  batch,      \* ids claimed in this pass and not yet finished
  runtimes,   \* self._runtimes: the task of each name
  tasks,      \* the asyncio tasks
  stop,       \* self._stop_event
  upserts, stops, crashes, failures   \* counters for the bounds

database == <<registry, foreign, queue, writer>>
rows == <<registry, foreign>>
process == <<mpc, batch, runtimes, tasks, stop>>
bounds == <<upserts, stops, crashes, failures>>
vars == <<database, process, bounds>>

Row == [desired: {"enabled", "disabled"}, runtime: {"stopped", "running", "error"}]
Types == {"enable", "drain", "force", "restart"}
Command == [name: Names, type: Types,
            status: {"pending", "processing", "done", "failed"}]

\* A task is created fresh and starts to run when the manager next suspends.
\* `stop' is the strongest request it was given.
Task == [name: Names, state: {"fresh", "running", "done"},
         stop: {"none", "drain", "cancel"}]

ASSUME NoneAssumption == None \notin Row \cup Task

NewTask(name) == [name |-> name, state |-> "fresh", stop |-> "none"]

\* Identities have no meaning: each name gets one that is free.
Slots == {slot \in [Enabled -> TaskIds] : \A m, n \in Enabled : slot[m] = slot[n] => m = n}
slot == CHOOSE f \in Slots : TRUE
Free(known) == {t \in TaskIds : known[t] = None}
Fresh(known) == CHOOSE t \in Free(known) : TRUE

Alive(t) == tasks[t] # None /\ tasks[t].state # "done"
Running(name) == \E t \in TaskIds : Alive(t) /\ tasks[t].name = name
Ids == 1..Len(queue)

\* One more event of a kind.
Within(count, bound) ==
  count < bound /\ upserts + stops + crashes + failures < MaxEvents

\* UPDATE of a row that may not exist.
SetRuntime(reg, name, value) ==
  IF reg[name] = None THEN reg ELSE [reg EXCEPT ![name].runtime = value]
SetDesired(reg, name, value) ==
  IF reg[name] = None THEN reg ELSE [reg EXCEPT ![name].desired = value]

\* One row for each name in the domain of desired.
Upsert(reg, desired) ==
  [n \in Names |-> IF n \in DOMAIN desired
                   THEN [desired |-> desired[n], runtime |-> "stopped"] ELSE reg[n]]

FromFile == [n \in Configured |-> IF n \in Enabled THEN "enabled" ELSE "disabled"]

Started(reg, name) ==
  SetRuntime(SetDesired(reg, name, "enabled"), name, "running")

Init ==
  /\ registry = [n \in Names |-> None]
  /\ foreign = {}
  /\ queue = <<>>
  /\ writer = None
  /\ mpc = "off"
  /\ batch = {}
  /\ runtimes = [n \in Names |-> None]
  /\ tasks = [t \in TaskIds |-> None]
  /\ stop = FALSE
  /\ upserts = 0 /\ stops = 0 /\ crashes = 0 /\ failures = 0

---------------------------------------------------------------------------
(* Other processes.                                                        *)

Submit(name, type) ==
  /\ Len(queue) < MaxCommands
  /\ queue' = Append(queue, [name |-> name, type |-> type, status |-> "pending"])

\* The endpoints disable and restart, enable without an inst_id, and the
\* command line when the registry has rows.
ApiRequest ==
  /\ \E name \in Names, type \in Types : Submit(name, type)
  /\ UNCHANGED <<rows, writer, process, bounds>>

\* A row is committed, whatever it says.
WriteRow(name, desired) ==
  /\ registry' = Upsert(registry, [n \in {name} |-> desired])
  /\ foreign' = foreign \cup {name}

RequestRows == Within(upserts, MaxUpserts) /\ upserts' = upserts + 1

\* enable with an inst_id first writes the row; the request may fail before its
\* second commit, which is one step with the first here.
ApiEnable ==
  /\ RequestRows
  /\ \E name \in Names :
       /\ WriteRow(name, "enabled")
       /\ Submit(name, "enable") \/ UNCHANGED queue
  /\ UNCHANGED <<writer, process, stops, crashes, failures>>

\* The command line reads an empty registry, and fills it row by row.
CommandLine ==
  /\ writer = None
  /\ registry = [n \in Names |-> None]
  /\ RequestRows
  /\ writer' = Configured
  /\ UNCHANGED <<rows, queue, process, stops, crashes, failures>>

CommandLineRow ==
  /\ writer # None
  /\ \E n \in writer :
       /\ WriteRow(n, FromFile[n])
       /\ writer' = writer \ {n}
  /\ UNCHANGED <<queue, process, bounds>>

\* Then the command is queued, unless the process ended before.
CommandLineDone ==
  /\ writer # None
  /\ \/ writer = {} /\ \E name \in Names, type \in Types : Submit(name, type)
     \/ UNCHANGED queue
  /\ writer' = None
  /\ UNCHANGED <<rows, process, bounds>>

---------------------------------------------------------------------------
(* The manager.                                                            *)

\* _bootstrap_registry and _start_enabled_strategies, without suspension.
Boot ==
  /\ mpc = "off"
  /\ mpc' = "head"
  /\ runtimes' = [n \in Names |-> IF n \in Enabled THEN slot[n] ELSE None]
  /\ tasks' = [t \in TaskIds |->
                 IF \E n \in Enabled : slot[n] = t
                 THEN NewTask(CHOOSE n \in Enabled : slot[n] = t) ELSE None]
  /\ registry' = [n \in Names |->
                    IF n \in Enabled THEN [desired |-> "enabled", runtime |-> "running"]
                    ELSE Upsert(registry, FromFile)[n]]
  /\ foreign' = foreign \ Configured
  /\ stop' = FALSE
  /\ UNCHANGED <<queue, writer, batch, bounds>>

Finished == {n \in Names : runtimes[n] # None /\ ~Alive(runtimes[n])}

\* Taking a runtime out of the dictionary; a task that is done is forgotten.
Popped(names) == [n \in Names |-> IF n \in names THEN None ELSE runtimes[n]]
Collected(names) ==
  [t \in TaskIds |-> IF ~Alive(t) /\ \E n \in names : runtimes[n] = t
                     THEN None ELSE tasks[t]]

\* _sync_finished_tasks, when there are any.
Sync ==
  /\ mpc = "head"
  /\ ~stop
  /\ Finished # {}
  /\ runtimes' = Popped(Finished)
  /\ tasks' = Collected(Finished)
  /\ mpc' = "claim"
  /\ UNCHANGED <<database, batch, stop, bounds>>

\* claim_pending_strategy_commands.
Claim ==
  /\ \/ mpc = "claim"
     \/ mpc = "head" /\ ~stop /\ Finished = {}
  /\ batch' = {i \in Ids : queue[i].status = "pending"}
  /\ queue' = [i \in Ids |-> IF i \in batch'
                             THEN [queue[i] EXCEPT !.status = "processing"] ELSE queue[i]]
  /\ mpc' = "process"
  /\ UNCHANGED <<rows, writer, runtimes, tasks, stop, bounds>>

\* Slip: the newest row comes first.
Newest == CHOOSE i \in batch : \A j \in batch : i >= j

\* The claimed rows come in the order of their ids.
current == CHOOSE i \in batch : \A j \in batch : i <= j
command == queue[current]
target == command.name

\* Slip: the first failure ends the pass.
FinishOrGiveUp(status) ==
  /\ queue' = [queue EXCEPT ![current].status = status]
  /\ batch' = IF status = "failed" THEN {} ELSE batch \ {current}
  /\ mpc' = "process"

Finish(status) ==
  /\ queue' = [queue EXCEPT ![current].status = status]
  /\ batch' = batch \ {current}
  /\ mpc' = "process"

\* Slip: a strategy is started whether it has a task or not.
StartAnyway(reg, theirs, held, known) ==
  /\ Free(known) # {}
  /\ runtimes' = [held EXCEPT ![target] = Fresh(known)]
  /\ tasks' = [known EXCEPT ![Fresh(known)] = NewTask(target)]
  /\ registry' = Started(reg, target)
  /\ foreign' = theirs \ {target}
  /\ Finish("done")

\* _start_strategy: nothing happens to a strategy that has a task.
StartStrategy(reg, theirs, held, known) ==
  \/ /\ held[target] # None
     /\ registry' = reg /\ foreign' = theirs /\ runtimes' = held /\ tasks' = known
     /\ Finish("done")
  \/ /\ held[target] = None /\ target \in Configured
     /\ Free(known) # {}
     /\ runtimes' = [held EXCEPT ![target] = Fresh(known)]
     /\ tasks' = [known EXCEPT ![Fresh(known)] = NewTask(target)]
     /\ registry' = Started(reg, target)
     /\ foreign' = theirs \ {target}
     /\ Finish("done")
  \/ /\ held[target] = None /\ target \notin Configured
     /\ registry' = reg /\ foreign' = theirs /\ runtimes' = held /\ tasks' = known
     /\ Finish("failed")

\* The end of a command: restart goes on to start the strategy.
Conclude(reg, theirs, held, known) ==
  IF command.type = "restart" THEN StartStrategy(reg, theirs, held, known)
  ELSE /\ registry' = reg /\ foreign' = theirs /\ runtimes' = held /\ tasks' = known
       /\ Finish("done")

Processing == mpc = "process" /\ batch # {}

Enable ==
  /\ Processing
  /\ command.type = "enable"
  /\ StartStrategy(registry, foreign, runtimes, tasks)
  /\ UNCHANGED <<writer, stop, bounds>>

\* _disable_strategy of a strategy without a task.
DisableIdle ==
  /\ Processing
  /\ command.type # "enable"
  /\ runtimes[target] = None
  /\ Conclude(SetRuntime(SetDesired(registry, target, "disabled"), target, "stopped"),
              foreign \ {target}, runtimes, tasks)
  /\ UNCHANGED <<writer, stop, bounds>>

\* Slip: the task is not waited for.
DisableAtOnce ==
  /\ Processing
  /\ command.type # "enable"
  /\ runtimes[target] # None
  /\ Conclude(SetRuntime(SetDesired(registry, target, "disabled"), target, "stopped"),
              foreign \ {target}, Popped({target}),
              [tasks EXCEPT ![runtimes[target]].stop = "cancel"])
  /\ UNCHANGED <<writer, stop, bounds>>

\* The task is told to drain, or cancelled, and waited for.
Disable ==
  /\ Processing
  /\ command.type # "enable"
  /\ runtimes[target] # None
  /\ registry' = SetDesired(registry, target, "disabled")
  /\ tasks' = [tasks EXCEPT ![runtimes[target]].stop =
                 IF command.type = "drain" THEN "drain" ELSE "cancel"]
  /\ mpc' = "await"
  /\ UNCHANGED <<foreign, queue, writer, batch, runtimes, stop, bounds>>

\* Slip: the registry keeps what the task wrote when it ended.
DisableAwaitedOnly ==
  /\ mpc = "await"
  /\ ~Alive(runtimes[target])
  /\ Conclude(registry, foreign, Popped({target}), Collected({target}))
  /\ UNCHANGED <<writer, stop, bounds>>

Disabled ==
  /\ mpc = "await"
  /\ ~Alive(runtimes[target])
  /\ Conclude(SetRuntime(registry, target, "stopped"),
              foreign \ {target}, Popped({target}), Collected({target}))
  /\ UNCHANGED <<writer, stop, bounds>>

\* The batch is through: sleep.
PassOver ==
  /\ mpc = "process"
  /\ batch = {}
  /\ mpc' = "head"
  /\ UNCHANGED <<database, batch, runtimes, tasks, stop, bounds>>

\* _shutdown_all: every strategy is asked to drain.
Shutdown ==
  /\ mpc = "head"
  /\ stop
  /\ tasks' = [t \in TaskIds |->
                 IF \E n \in Names : runtimes[n] = t
                 THEN [tasks[t] EXCEPT !.stop = "drain"] ELSE tasks[t]]
  /\ mpc' = "shutdown"
  /\ UNCHANGED <<database, batch, runtimes, stop, bounds>>

AllDone == \A n \in Names : runtimes[n] # None => ~Alive(runtimes[n])

Off ==
  /\ mpc' = "off"
  /\ runtimes' = [n \in Names |-> None]
  /\ tasks' = [t \in TaskIds |-> None]
  /\ batch' = {}

ShutdownDone ==
  /\ mpc = "shutdown"
  /\ AllDone
  /\ Off
  /\ UNCHANGED <<database, stop, bounds>>

\* Slip: the timeout forces nothing.
ShutdownTimeoutIdle ==
  /\ mpc = "shutdown"
  /\ ~AllDone
  /\ mpc' = "forcing"
  /\ UNCHANGED <<database, batch, runtimes, tasks, stop, bounds>>

\* After shutdown_drain_sec wait_for cancels the tasks and waits for them.
ShutdownTimeout ==
  /\ mpc = "shutdown"
  /\ ~AllDone
  /\ tasks' = [t \in TaskIds |-> IF Alive(t) THEN [tasks[t] EXCEPT !.stop = "cancel"]
                                 ELSE tasks[t]]
  /\ mpc' = "forcing"
  /\ UNCHANGED <<database, batch, runtimes, stop, bounds>>

\* Then each is disabled by force, which finds its task done.
Forced ==
  /\ mpc = "forcing"
  /\ AllDone
  /\ registry' = [n \in Names |->
       IF runtimes[n] = None THEN registry[n]
       ELSE SetRuntime(SetDesired(registry, n, "disabled"), n, "stopped")[n]]
  /\ foreign' = {n \in foreign : runtimes[n] = None}
  /\ Off
  /\ UNCHANGED <<queue, writer, stop, bounds>>

---------------------------------------------------------------------------
(* The tasks: _run_strategy_task.                                          *)

Suspended == mpc \notin {"off", "process"}

TaskBegins(t) ==
  /\ Suspended /\ tasks[t] # None
  /\ tasks[t].state = "fresh" /\ tasks[t].stop # "cancel"
  /\ tasks' = [tasks EXCEPT ![t].state = "running"]
  /\ UNCHANGED <<database, mpc, batch, runtimes, stop, bounds>>

TaskEnds(t, result) ==
  /\ Suspended /\ tasks[t] # None
  /\ tasks[t].state = "running"
  /\ tasks' = [tasks EXCEPT ![t].state = "done"]
  /\ registry' = SetRuntime(registry, tasks[t].name, result)
  /\ foreign' = foreign \ {tasks[t].name}
  /\ UNCHANGED <<queue, writer, mpc, batch, runtimes, stop, upserts, stops, crashes>>

\* The loop returns: its drain is complete (DrainCompleted of ExecutorLoop).
TaskDrained(t) ==
  /\ TaskEnds(t, "stopped")
  /\ tasks[t].stop = "drain"
  /\ UNCHANGED failures

\* Slip: a state that the registry does not have.
TaskFailsCrashed(t) ==
  /\ Within(failures, MaxFailures)
  /\ TaskEnds(t, "crashed")
  /\ failures' = failures + 1

\* An exception leaves the loop.
TaskFails(t) ==
  /\ Within(failures, MaxFailures)
  /\ TaskEnds(t, "error")
  /\ failures' = failures + 1

\* CancelledError is raised at the await the task is at.
TaskCancelled(t) ==
  /\ TaskEnds(t, "stopped")
  /\ tasks[t].stop = "cancel"
  /\ UNCHANGED failures

\* A task that is cancelled before it ever ran writes nothing.
TaskNeverRan(t) ==
  /\ Suspended /\ tasks[t] # None
  /\ tasks[t].state = "fresh" /\ tasks[t].stop = "cancel"
  /\ tasks' = [tasks EXCEPT ![t].state = "done"]
  /\ UNCHANGED <<database, mpc, batch, runtimes, stop, bounds>>

---------------------------------------------------------------------------
\* SIGTERM or SIGINT.
StopSignal ==
  /\ mpc # "off"
  /\ ~stop
  /\ Within(stops, MaxStops)
  /\ stops' = stops + 1
  /\ stop' = TRUE
  /\ UNCHANGED <<database, mpc, batch, runtimes, tasks, upserts, crashes, failures>>

\* The process is gone; the database keeps what was committed.
Crash ==
  /\ mpc # "off"
  /\ Within(crashes, MaxCrashes)
  /\ crashes' = crashes + 1
  /\ Off
  /\ stop' = FALSE
  /\ UNCHANGED <<database, upserts, stops, failures>>

Clients == ApiRequest \/ ApiEnable \/ CommandLine \/ CommandLineRow
             \/ CommandLineDone
ManagerStep == Sync \/ Claim \/ Enable \/ DisableIdle \/ Disable \/ Disabled
                 \/ PassOver \/ Shutdown \/ ShutdownDone \/ ShutdownTimeout \/ Forced
TaskStep(t) == TaskBegins(t) \/ TaskCancelled(t) \/ TaskNeverRan(t)

Next == Clients \/ Boot \/ ManagerStep \/ StopSignal \/ Crash
          \/ \E t \in TaskIds : TaskStep(t) \/ TaskDrained(t) \/ TaskFails(t)

Spec == Init /\ [][Next]_vars

\* The manager and the tasks go on, and a process that is down is started.
\* That a drain completes is not assumed.
Fairness ==
  /\ WF_vars(Boot) /\ WF_vars(ManagerStep)
  /\ \A t \in TaskIds : WF_vars(TaskStep(t))

FairSpec == Spec /\ Fairness

\* The same when the drain of a disable, which has no timeout, completes.
DrainingSpec ==
  FairSpec /\ \A t \in TaskIds : WF_vars(mpc = "await" /\ TaskDrained(t))

---------------------------------------------------------------------------
(* Properties.                                                             *)

TypeOK ==
  /\ registry \in [Names -> Row \cup {None}]
  /\ foreign \in SUBSET Names
  /\ queue \in Seq(Command)
  /\ writer \in (SUBSET Configured) \cup {None}
  /\ mpc \in {"off", "head", "claim", "process", "await", "shutdown", "forcing"}
  /\ batch \in SUBSET Ids
  /\ runtimes \in [Names -> TaskIds \cup {None}]
  /\ tasks \in [TaskIds -> Task \cup {None}]
  /\ stop \in BOOLEAN
  /\ upserts \in Nat /\ stops \in Nat /\ crashes \in Nat /\ failures \in Nat

\* A strategy never has two live loops, which would trade one position twice,
\* and every live loop can be reached to stop it (_runtimes).
SingleReachableLoop ==
  \A t \in TaskIds : Alive(t) => runtimes[tasks[t].name] = t

\* When a disable is reported done its strategy has no live loop, whatever
\* ended the loop meanwhile.
DisableMeansStopped ==
  [][\A i \in Ids :
       queue[i].type \in {"drain", "force"} /\ queue[i].status = "processing"
         /\ queue'[i].status = "done" => ~Running(queue[i].name)']_vars

\* Commands take effect in the order they were queued: none is finished while
\* an older one is still to come, across passes, waits and restarts.
CommandsInOrder ==
  \A i, j \in Ids :
    i < j /\ queue[j].status \in {"done", "failed"} =>
      /\ queue[i].status # "pending"
      /\ i \notin batch

\* Unless the manager is in the middle of stopping something, a strategy that
\* GET /strategies reports as running has a live loop; and one that has a live
\* loop is reported, unless a request of another process (an enable, or a command
\* line that read the registry while it was empty) has written its row since:
\* the next start, stop or end of the loop repairs such a row.
RegistryTruthful ==
  mpc \in {"head", "claim"} =>
    \A n \in Configured :
      /\ registry[n].runtime = "running" => Running(n)
      /\ Running(n) /\ n \notin foreign => registry[n].runtime = "running"

\* For whoever queues commands the manager is Supervision: a loop begins only when the
\* manager comes up or as a command for its strategy is carried out, each command has
\* its effect once and after those before it, and a restart is never reported for a
\* loop that had not ended (strategy_manager.py, sqlite_store.py).
Ran == {n \in Names : Running(n)}
Asked == [i \in Ids |-> [name |-> queue[i].name, type |-> queue[i].type]]
Settled(status) == {i \in Ids : queue[i].status = status}

Supervised == INSTANCE Supervision WITH
  up <- mpc # "off",
  running <- Ran,
  commands <- Asked,
  done <- Settled("done"),
  failed <- Settled("failed")

ImplementsSupervision == Supervised!Spec

Is(i, status) == i \in Ids /\ queue[i].status = status

\* No queued command waits for ever: again and again all are carried out or refused,
\* unless the manager crashes (requests are finite here).
CommandsFinish ==
  []<>(crashes > 0 \/ \A i \in Ids : queue[i].status \in {"done", "failed"})

\* No stop signal is pending for ever: it ends the process, also while strategies fail.
StopEnds == []<>(stop => mpc = "off")

\* README: force stops the strategy at once.
ForceStops ==
  \A i \in 1..MaxCommands :
    \A n \in Names :
      Is(i, "pending") /\ queue[i].type = "force" /\ queue[i].name = n ~> ~Running(n)
=============================================================================
