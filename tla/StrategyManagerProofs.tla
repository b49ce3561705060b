----------------------- MODULE StrategyManagerProofs -----------------------
(***************************************************************************)
(* Theorems about StrategyManager, for any set of strategies and names and *)
(* any number of commands, requests, stop signals, crashes and failures.   *)
(*                                                                         *)
(* The invariant has four parts besides the types:                         *)
(*  - Linked: tasks and runtimes name each other, so that a strategy has   *)
(*    at most one task and every task can be reached;                      *)
(*  - Phases: what a claimed command and its target are in each phase;     *)
(*  - Claimed: claimed commands are older than all that are pending and    *)
(*    younger than all that are finished;                                  *)
(*  - Truth: the registry rows say what the tasks do, except for the row   *)
(*    of the strategy that is being stopped.                               *)
(***************************************************************************)
EXTENDS StrategyManager, SequenceTheorems, WellFoundedInduction, TLAPS

Linked(held, known) ==
  /\ \A t \in TaskIds : known[t] # None => held[known[t].name] = t
  /\ \A n \in Names : held[n] # None =>
       known[held[n]] # None /\ known[held[n]].name = n

Phases ==
  /\ mpc = "off" => \A n \in Names : runtimes[n] = None
  /\ mpc \notin {"process", "await"} => batch = {}
  /\ mpc = "await" => batch # {} /\ runtimes[target] # None /\ command.type # "enable"
  /\ \A t \in TaskIds : tasks[t] # None /\ tasks[t].stop = "cancel" =>
       mpc = "forcing" \/ (mpc = "await" /\ runtimes[target] = t)

Over(i) == queue[i].status \in {"done", "failed"}

Claimed ==
  /\ \A i \in batch : queue[i].status = "processing"
  /\ \A i, j \in Ids : i < j /\ (j \in batch \/ Over(j)) => queue[i].status # "pending"
  /\ \A i \in batch, j \in Ids : Over(j) => j < i

Runs(known, n) ==
  \E t \in TaskIds : known[t] # None /\ known[t].state # "done" /\ known[t].name = n

\* A row says at most what is so, and all that is so unless another process wrote it.
RowHolds(n, reg, theirs, known) ==
  /\ reg[n] # None
  /\ reg[n].runtime = "running" => Runs(known, n)
  /\ Runs(known, n) /\ n \notin theirs => reg[n].runtime = "running"

Truth ==
  mpc \in {"head", "claim", "process", "await"} =>
    \A n \in Configured :
      \/ RowHolds(n, registry, foreign, tasks)
      \/ /\ mpc = "await" /\ n = target /\ registry[n] # None
         /\ Runs(tasks, n) /\ n \notin foreign => registry[n].runtime = "running"

ManagerInv == TypeOK /\ Linked(runtimes, tasks) /\ Phases /\ Claimed /\ Truth

\* What holds of the registry and the tasks between the steps of a pass.
Sound(reg, theirs, held, known) ==
  /\ reg \in [Names -> Row \cup {None}] /\ theirs \in SUBSET Names
  /\ held \in [Names -> TaskIds \cup {None}]
  /\ known \in [TaskIds -> Task \cup {None}]
  /\ Linked(held, known)
  /\ \A t \in TaskIds : known[t] # None => known[t].stop # "cancel"
  /\ \A n \in Configured : RowHolds(n, reg, theirs, known)

---------------------------------------------------------------------------
(* The queue of commands.                                                  *)

LEMMA LeastElement ==
  ASSUME NEW S \in SUBSET Nat, S # {}
  PROVE  \E i \in S : \A j \in S : i <= j
<1>1. IsWellFoundedOn(OpToRel(<, Nat), Nat)
  BY NatLessThanWellFounded, Zenon
<1>2. PICK i \in S : \A j \in S : <<j, i>> \notin OpToRel(<, Nat)
  BY <1>1, WFMin, Zenon
<1>3. \A j \in S : ~(j < i)
  BY <1>2, Zenon DEF OpToRel
<1> QED BY <1>3

\* The command in work is the oldest one that was claimed.
LEMMA CurrentFirst ==
  ASSUME TypeOK, batch # {}
  PROVE  /\ current \in batch /\ current \in Ids
         /\ \A j \in batch : current <= j
<1>1. queue \in Seq(Command) /\ batch \in SUBSET Ids
  BY DEF TypeOK
<1>2. Len(queue) \in Nat
  BY <1>1
<1>3. batch \in SUBSET Nat
  BY <1>1, <1>2 DEF Ids
<1>4. \E i \in batch : \A j \in batch : i <= j
  BY <1>3, LeastElement
<1>5. current \in batch /\ \A j \in batch : current <= j
  BY <1>4 DEF current
<1> QED BY <1>1, <1>5

LEMMA CommandType ==
  ASSUME TypeOK
  PROVE  /\ Len(queue) \in Nat
         /\ \A i \in Ids : queue[i] \in Command
         /\ batch # {} => command \in Command /\ target \in Names
<1>1. queue \in Seq(Command)
  BY DEF TypeOK
<1>2. \A i \in Ids : queue[i] \in Command
  BY <1>1, ElementOfSeq DEF Ids
<1>3. batch # {} => command \in Command
  BY <1>2, CurrentFirst DEF command
<1> QED BY <1>1, <1>2, <1>3 DEF target, Command

\* A command is done, or has failed.
LEMMA FinishKeeps ==
  ASSUME TypeOK, Claimed, batch # {}, NEW status \in {"done", "failed"}, Finish(status)
  PROVE  /\ queue' \in Seq(Command) /\ batch' \in SUBSET Ids' /\ mpc' = "process"
         /\ Claimed'
         /\ \A i \in Ids : i # current => queue'[i] = queue[i]
<1>1. /\ queue' = [queue EXCEPT ![current].status = status]
      /\ batch' = batch \ {current} /\ mpc' = "process"
  BY DEF Finish
<1>2. queue \in Seq(Command) /\ batch \in SUBSET Ids /\ current \in Ids
  BY CurrentFirst DEF TypeOK
<1>3. /\ Len(queue) \in Nat
      /\ \A i \in Ids : queue[i] \in Command
  BY CommandType
<1>4. [queue[current] EXCEPT !.status = status] \in Command
  BY <1>2, <1>3 DEF Command
<1>5. queue' = [queue EXCEPT ![current] = [queue[current] EXCEPT !.status = status]]
  BY <1>1
<1>6. queue' \in Seq(Command) /\ Len(queue') = Len(queue)
  BY <1>2, <1>4, <1>5, ExceptSeq DEF Ids
<1>7. Ids' = Ids
  BY <1>6 DEF Ids
<1>8. /\ \A i \in Ids : i # current => queue'[i] = queue[i]
      /\ queue'[current].status = status
  BY <1>1, <1>2, <1>3 DEF Ids, Command
<1>9. /\ current \in batch /\ \A j \in batch : current <= j
      /\ \A i \in Ids : i \in Nat
  BY <1>3, CurrentFirst DEF Ids
<1>10. Claimed'
  <2>1. \A i \in batch' : queue'[i].status = "processing"
    BY <1>1, <1>2, <1>8 DEF Claimed
  <2>2. \A j \in Ids : Over(j)' => j = current \/ Over(j)
    BY <1>8 DEF Over
  <2>3. ASSUME NEW i \in Ids, NEW j \in Ids, i < j, j \in batch' \/ Over(j)'
        PROVE  queue'[i].status # "pending"
    <3>1. j \in batch \/ Over(j)
      BY <1>1, <1>9, <2>2, <2>3
    <3>2. queue[i].status # "pending"
      BY <2>3, <3>1 DEF Claimed
    <3> QED BY <1>8, <3>2
  <2>4. ASSUME NEW i \in batch', NEW j \in Ids, Over(j)'
        PROVE  j < i
    <3>1. i \in batch /\ i # current /\ i \in Nat
      BY <1>1, <1>2, <1>9
    <3>2. CASE j = current
      <4>1. current <= i /\ current \in Nat
        BY <1>2, <1>9, <3>1
      <4> QED BY <3>1, <3>2, <4>1
    <3>3. CASE Over(j)
      BY <3>1, <3>3 DEF Claimed
    <3> QED BY <2>2, <2>4, <3>2, <3>3
  <2> QED BY <1>7, <2>1, <2>3, <2>4 DEF Claimed
<1> QED BY <1>1, <1>2, <1>6, <1>7, <1>8, <1>10

\* A command is queued, or none is.
LEMMA QueueGrows ==
  ASSUME ManagerInv, queue' = queue \/ \E name \in Names, type \in Types : Submit(name, type),
         UNCHANGED <<mpc, batch, runtimes>>, tasks' = tasks
  PROVE  /\ queue' \in Seq(Command) /\ batch' \in SUBSET Ids'
         /\ Claimed' /\ Phases'
         /\ batch # {} => target' = target
<1>1. queue \in Seq(Command) /\ batch \in SUBSET Ids /\ Len(queue) \in Nat
  BY CommandType DEF ManagerInv, TypeOK
<1>2. /\ queue' \in Seq(Command) /\ Len(queue') \in Nat /\ Len(queue) <= Len(queue')
      /\ \A i \in Ids : queue'[i] = queue[i]
      /\ \A i \in Ids' : i \in Ids \/ (queue'[i].status = "pending" /\ \A j \in Ids : j < i)
  <2>1. CASE queue' = queue
    BY <1>1, <2>1 DEF Ids
  <2>2. ASSUME NEW name \in Names, NEW type \in Types, Submit(name, type)
        PROVE  /\ queue' \in Seq(Command) /\ Len(queue') = Len(queue) + 1
               /\ \A i \in Ids : queue'[i] = queue[i]
               /\ queue'[Len(queue) + 1].status = "pending"
    <3>1. [name |-> name, type |-> type, status |-> "pending"] \in Command
      BY DEF Command
    <3> QED BY <1>1, <2>2, <3>1, AppendProperties DEF Submit, Ids
  <2> QED BY <1>1, <2>1, <2>2 DEF Ids
<1>3. Ids \subseteq Ids'
  BY <1>1, <1>2 DEF Ids
<1>4. Claimed'
  <2>1. \A i \in batch' : queue'[i].status = "processing"
    BY <1>1, <1>2 DEF ManagerInv, Claimed
  <2>2. \A j \in Ids' : Over(j)' => j \in Ids /\ Over(j)
    BY <1>2 DEF Over
  <2>3. ASSUME NEW i \in Ids', NEW j \in Ids', i < j, j \in batch' \/ Over(j)'
        PROVE  queue'[i].status # "pending"
    <3>1. j \in Ids /\ (j \in batch \/ Over(j)) /\ j \in Nat
      BY <1>1, <2>2, <2>3 DEF Ids
    <3>2. i \in Ids
      BY <1>1, <2>3, <3>1 DEF Ids
    <3>3. queue[i].status # "pending"
      BY <2>3, <3>1, <3>2 DEF ManagerInv, Claimed
    <3> QED BY <1>2, <3>2, <3>3
  <2>4. ASSUME NEW i \in batch', NEW j \in Ids', Over(j)'
        PROVE  j < i
    BY <2>2, <2>4 DEF ManagerInv, Claimed
  <2> QED BY <2>1, <2>3, <2>4 DEF Claimed
<1>5. batch # {} => current' = current /\ command' = command /\ target' = target
  <2> SUFFICES ASSUME batch # {}
               PROVE  current' = current /\ command' = command /\ target' = target
    OBVIOUS
  <2>1. current' = current
    BY DEF current
  <2>2. current \in Ids
    BY CurrentFirst DEF ManagerInv
  <2> QED BY <1>2, <2>1, <2>2 DEF command, target
<1>6. Phases'
  BY <1>5 DEF ManagerInv, Phases
<1> QED BY <1>1, <1>2, <1>3, <1>4, <1>5, <1>6

---------------------------------------------------------------------------
(* Other processes.                                                        *)

\* A row that another process writes claims nothing: it reads "stopped".
LEMMA RowWritten ==
  ASSUME ManagerInv, UNCHANGED <<mpc, batch, tasks, runtimes>>,
         batch # {} => target' = target,
         \/ UNCHANGED <<registry, foreign>>
         \/ \E name \in Names, desired \in {"enabled", "disabled"} : WriteRow(name, desired)
  PROVE  /\ registry' \in [Names -> Row \cup {None}] /\ foreign' \in SUBSET Names
         /\ Truth'
<1> USE DEF ManagerInv
<1>1. registry \in [Names -> Row \cup {None}] /\ foreign \in SUBSET Names
  BY DEF TypeOK
<1>2. mpc = "await" => target' = target
  BY DEF Phases
<1>3. CASE UNCHANGED <<registry, foreign>>
  <2>1. \A n \in Names : RowHolds(n, registry, foreign, tasks)'
                         = RowHolds(n, registry, foreign, tasks)
    BY <1>3
  <2> QED BY <1>1, <1>2, <1>3, <2>1, NamesAssumption DEF Truth
<1>4. ASSUME NEW name \in Names, NEW desired \in {"enabled", "disabled"},
             WriteRow(name, desired)
      PROVE  /\ registry' \in [Names -> Row \cup {None}] /\ foreign' \in SUBSET Names
             /\ Truth'
  <2> DEFINE row == [desired |-> desired, runtime |-> "stopped"]
  <2>1. row \in Row /\ row # None /\ row.runtime = "stopped"
    BY NoneAssumption DEF Row
  <2>2. /\ registry' = [n \in Names |-> IF n = name THEN row ELSE registry[n]]
        /\ foreign' = foreign \cup {name}
    BY <1>4 DEF WriteRow, Upsert
  <2> HIDE DEF row
  <2>3. registry' \in [Names -> Row \cup {None}] /\ foreign' \in SUBSET Names
    BY <1>1, <2>1, <2>2
  <2>4. Truth'
    <3> SUFFICES ASSUME mpc \in {"head", "claim", "process", "await"}, NEW n \in Configured
                 PROVE  \/ RowHolds(n, registry', foreign', tasks)
                        \/ /\ mpc = "await" /\ n = target /\ registry'[n] # None
                           /\ Runs(tasks, n) /\ n \notin foreign' =>
                                registry'[n].runtime = "running"
      BY <1>2 DEF Truth
    <3>1. n \in Names
      BY NamesAssumption
    <3>2. CASE n = name
      BY <2>1, <2>2, <3>1, <3>2 DEF RowHolds
    <3>3. CASE n # name
      <4>1. registry'[n] = registry[n] /\ (n \in foreign' <=> n \in foreign)
        BY <2>2, <3>1, <3>3
      <4> QED BY <4>1 DEF Truth, RowHolds
    <3> QED BY <3>2, <3>3
  <2> QED BY <2>3, <2>4
<1> QED BY <1>3, <1>4

LEMMA ClientsInv ==
  ASSUME ManagerInv, Clients
  PROVE  ManagerInv'
<1>1. /\ UNCHANGED <<mpc, batch, runtimes, tasks, stop, stops, crashes, failures>>
      /\ queue' = queue \/ \E name \in Names, type \in Types : Submit(name, type)
  <2>1. CASE ApiRequest
    BY <2>1 DEF ApiRequest, process, bounds
  <2>2. CASE ApiEnable
    BY <2>2 DEF ApiEnable, RequestRows, process, Types
  <2>3. CASE CommandLine
    BY <2>3 DEF CommandLine, RequestRows, process
  <2>4. CASE CommandLineRow
    BY <2>4 DEF CommandLineRow, process, bounds
  <2>5. CASE CommandLineDone
    BY <2>5 DEF CommandLineDone, process, bounds
  <2> QED BY <2>1, <2>2, <2>3, <2>4, <2>5 DEF Clients
<1>2. /\ queue' \in Seq(Command) /\ batch' \in SUBSET Ids' /\ Claimed' /\ Phases'
      /\ batch # {} => target' = target
  BY <1>1, QueueGrows
<1>3. \/ UNCHANGED <<registry, foreign>>
      \/ \E name \in Names, desired \in {"enabled", "disabled"} : WriteRow(name, desired)
  <2>1. CASE ApiRequest \/ CommandLine \/ CommandLineDone
    BY <2>1 DEF ApiRequest, CommandLine, CommandLineDone, rows
  <2>2. CASE ApiEnable
    BY <2>2 DEF ApiEnable
  <2>3. CASE CommandLineRow
    <3>1. PICK n \in writer : WriteRow(n, FromFile[n])
      BY <2>3 DEF CommandLineRow
    <3>2. n \in Configured /\ n \in Names
      <4>1. writer \in SUBSET Configured
        BY <2>3 DEF ManagerInv, TypeOK, CommandLineRow
      <4> QED BY <4>1, NamesAssumption
    <3>3. FromFile[n] \in {"enabled", "disabled"}
      BY <3>2 DEF FromFile
    <3> QED BY <3>1, <3>2, <3>3
  <2> QED BY <2>1, <2>2, <2>3 DEF Clients
<1>4. /\ registry' \in [Names -> Row \cup {None}] /\ foreign' \in SUBSET Names
      /\ Truth'
  BY <1>1, <1>2, <1>3, RowWritten
<1>5. writer' \in (SUBSET Configured) \cup {None} /\ upserts' \in Nat
  BY DEF ManagerInv, TypeOK, Clients, ApiRequest, ApiEnable, CommandLine, CommandLineRow,
         CommandLineDone, RequestRows, bounds
<1>6. TypeOK'
  BY <1>1, <1>2, <1>4, <1>5 DEF ManagerInv, TypeOK
<1>7. Linked(runtimes, tasks)'
  BY <1>1 DEF ManagerInv
<1> QED BY <1>2, <1>4, <1>6, <1>7 DEF ManagerInv

---------------------------------------------------------------------------
(* The tasks.                                                              *)

\* A task moves on; the row of its strategy is written when it ends.
LEMMA TaskMoves ==
  ASSUME ManagerInv, NEW t \in TaskIds, tasks[t] # None,
         NEW state \in {"running", "done"}, tasks' = [tasks EXCEPT ![t].state = state],
         mpc \notin {"off", "process"},
         UNCHANGED <<queue, writer, mpc, batch, runtimes, stop, upserts, stops, crashes>>,
         failures' \in Nat,
         \/ UNCHANGED <<registry, foreign>> /\ state = "running" /\ tasks[t].state # "done"
         \/ UNCHANGED <<registry, foreign>> /\ state = "done" /\ tasks[t].stop = "cancel"
         \/ /\ state = "done" /\ foreign' = foreign \ {tasks[t].name}
            /\ \E result \in {"stopped", "error"} :
                 registry' = SetRuntime(registry, tasks[t].name, result)
  PROVE  ManagerInv'
<1> USE DEF ManagerInv
<1>1. tasks \in [TaskIds -> Task \cup {None}] /\ tasks[t] \in Task
  BY DEF TypeOK
<1>2. /\ tasks' \in [TaskIds -> Task \cup {None}] /\ tasks'[t] \in Task /\ tasks'[t] # None
      /\ tasks'[t].name = tasks[t].name /\ tasks'[t].stop = tasks[t].stop
      /\ tasks'[t].state = state
      /\ \A u \in TaskIds : u # t => tasks'[u] = tasks[u]
  <2>1. [tasks[t] EXCEPT !.state = state] \in Task
    BY <1>1 DEF Task
  <2>2. tasks' = [tasks EXCEPT ![t] = [tasks[t] EXCEPT !.state = state]]
    BY <1>1
  <2>3. [tasks[t] EXCEPT !.state = state].name = tasks[t].name
        /\ [tasks[t] EXCEPT !.state = state].stop = tasks[t].stop
        /\ [tasks[t] EXCEPT !.state = state].state = state
    BY <1>1 DEF Task
  <2> QED BY <1>1, <2>1, <2>2, <2>3, NoneAssumption
<1> DEFINE name == tasks[t].name
<1>3. name \in Names /\ runtimes[name] = t
  BY <1>1 DEF Task, Linked
<1>4. \A u \in TaskIds : tasks[u] # None /\ tasks[u].name = name => u = t
  BY <1>3 DEF Linked
<1>5. registry \in [Names -> Row \cup {None}] /\ foreign \in SUBSET Names
  BY DEF TypeOK
<1>6. /\ registry' \in [Names -> Row \cup {None}] /\ foreign' \in SUBSET Names
      /\ \A n \in Names : registry[n] # None => registry'[n] # None
      /\ \A n \in Names \ {name} : registry'[n] = registry[n] /\ (n \in foreign' <=> n \in foreign)
      /\ state = "done" /\ tasks[t].stop # "cancel" /\ registry[name] # None =>
           registry'[name].runtime # "running"
  <2>1. CASE UNCHANGED <<registry, foreign>> /\ (state = "running" \/ tasks[t].stop = "cancel")
    BY <1>5, <2>1
  <2>2. CASE /\ foreign' = foreign \ {name}
             /\ \E result \in {"stopped", "error"} :
                  registry' = SetRuntime(registry, name, result)
    <3>1. PICK result \in {"stopped", "error"} :
            registry' = SetRuntime(registry, name, result)
      BY <2>2
    <3>2. CASE registry[name] = None
      BY <1>5, <2>2, <3>1, <3>2 DEF SetRuntime
    <3>3. CASE registry[name] # None
      <4> DEFINE row == [registry[name] EXCEPT !.runtime = result]
      <4>1. row \in Row /\ row # None /\ row.runtime = result
        BY <1>3, <1>5, <3>3, NoneAssumption DEF Row
      <4>2. registry' = [registry EXCEPT ![name] = row]
        BY <2>2, <3>1, <3>3 DEF SetRuntime
      <4> HIDE DEF row
      <4>3. /\ registry' \in [Names -> Row \cup {None}] /\ registry'[name] = row
            /\ \A n \in Names \ {name} : registry'[n] = registry[n]
        BY <1>3, <1>5, <4>1, <4>2
      <4>4. /\ foreign' \in SUBSET Names
            /\ \A n \in Names \ {name} : n \in foreign' <=> n \in foreign
        BY <1>5, <2>2, <3>1
      <4>5. \A n \in Names : registry[n] # None => registry'[n] # None
        BY <4>1, <4>3
      <4>6. registry'[name].runtime # "running"
        BY <2>2, <3>1, <4>1, <4>3
      <4> QED BY <4>3, <4>4, <4>5, <4>6
    <3> QED BY <3>2, <3>3
  <2>3. \/ UNCHANGED <<registry, foreign>> /\ (state = "running" \/ tasks[t].stop = "cancel")
        \/ /\ foreign' = foreign \ {name}
           /\ \E result \in {"stopped", "error"} :
                registry' = SetRuntime(registry, name, result)
    OBVIOUS
  <2> QED BY <2>1, <2>2, <2>3
<1>7. TypeOK'
  BY <1>2, <1>6 DEF TypeOK, Ids
<1>8. Linked(runtimes, tasks)'
  BY <1>2, <1>3 DEF Linked
<1>9. target' = target /\ command' = command
  BY DEF target, command, current
<1>10. Phases'
  BY <1>2, <1>9 DEF Phases
<1>11. Claimed'
  BY DEF Claimed, Over, Ids
<1>12. Truth'
  <2> SUFFICES ASSUME mpc \in {"head", "claim", "process", "await"}, NEW n \in Configured
               PROVE  \/ RowHolds(n, registry', foreign', tasks')
                      \/ /\ mpc = "await" /\ n = target /\ registry'[n] # None
                         /\ Runs(tasks', n) /\ n \notin foreign' =>
                              registry'[n].runtime = "running"
    BY <1>9 DEF Truth
  <2>1. n \in Names
    BY NamesAssumption
  <2>2. CASE n # name
    <3>1. Runs(tasks', n) <=> Runs(tasks, n)
      BY <1>2, <2>2 DEF Runs
    <3>2. registry'[n] = registry[n] /\ (n \in foreign' <=> n \in foreign)
      BY <1>6, <2>1, <2>2
    <3> QED BY <3>1, <3>2 DEF Truth, RowHolds
  <2>3. CASE n = name /\ state = "running"
    <3>1. UNCHANGED <<registry, foreign>> /\ tasks[t].state # "done"
      BY <2>3
    <3>2. Runs(tasks, n) /\ Runs(tasks', n)
      BY <1>2, <2>3, <3>1 DEF Runs
    <3> QED BY <3>1, <3>2 DEF Truth, RowHolds
  <2>4. CASE n = name /\ state = "done"
    <3>1. ~Runs(tasks', n)
      BY <1>2, <1>4, <2>4 DEF Runs
    <3>2. registry[n] # None
      BY DEF Truth, RowHolds
    <3>3. CASE tasks[t].stop = "cancel"
      <4>1. mpc = "await" /\ runtimes[target] = t /\ runtimes[target] # None
        BY <3>3 DEF Phases
      <4>2. target \in Names
        BY <4>1, CommandType DEF Phases
      <4>3. target = name
        BY <4>1, <4>2 DEF Linked
      <4> QED BY <1>6, <2>1, <2>4, <3>1, <3>2, <4>1, <4>3
    <3>4. CASE tasks[t].stop # "cancel"
      BY <1>6, <2>1, <2>4, <3>1, <3>2, <3>4 DEF RowHolds
    <3> QED BY <3>3, <3>4
  <2> QED BY <2>2, <2>3, <2>4
<1> QED BY <1>7, <1>8, <1>10, <1>11, <1>12

LEMMA TaskInv ==
  ASSUME ManagerInv, NEW t \in TaskIds, TaskStep(t) \/ TaskDrained(t) \/ TaskFails(t)
  PROVE  ManagerInv'
<1>1. failures \in Nat
  BY DEF ManagerInv, TypeOK
<1>2. CASE TaskBegins(t)
  BY <1>1, <1>2, TaskMoves DEF TaskBegins, Suspended, database, rows, bounds
<1>3. CASE TaskNeverRan(t)
  BY <1>1, <1>3, TaskMoves DEF TaskNeverRan, Suspended, database, rows, bounds
<1>4. CASE \E result \in {"stopped", "error"} : TaskEnds(t, result) /\ failures' \in Nat
  <2>1. PICK result \in {"stopped", "error"} : TaskEnds(t, result) /\ failures' \in Nat
    BY <1>4
  <2>2. /\ mpc \notin {"off", "process"} /\ tasks[t] # None
        /\ tasks' = [tasks EXCEPT ![t].state = "done"]
        /\ registry' = SetRuntime(registry, tasks[t].name, result)
        /\ foreign' = foreign \ {tasks[t].name}
        /\ UNCHANGED <<queue, writer, mpc, batch, runtimes, stop, upserts, stops, crashes>>
        /\ failures' \in Nat
    BY <2>1 DEF TaskEnds, Suspended
  <2> QED BY <2>2, TaskMoves
<1>5. CASE TaskDrained(t) \/ TaskFails(t) \/ TaskCancelled(t)
  BY <1>1, <1>4, <1>5 DEF TaskDrained, TaskFails, TaskCancelled
<1> QED BY <1>2, <1>3, <1>5 DEF TaskStep

---------------------------------------------------------------------------
(* Starting and stopping a strategy.                                       *)

\* Between the steps of a pass all is sound; a step that leaves it so, keeps
\* the invariant.
LEMMA SoundInv ==
  ASSUME TypeOK, Linked(runtimes, tasks), Phases, Truth, mpc \in {"head", "claim", "process"}
  PROVE  Sound(registry, foreign, runtimes, tasks)
<1>1. \A t \in TaskIds : tasks[t] # None => tasks[t].stop # "cancel"
  BY DEF Phases
<1>2. \A n \in Configured : RowHolds(n, registry, foreign, tasks)
  BY DEF Truth
<1> QED BY <1>1, <1>2 DEF Sound, TypeOK

LEMMA InvOfSound ==
  ASSUME Sound(registry', foreign', runtimes', tasks'),
         queue' \in Seq(Command), batch' \in SUBSET Ids', Claimed',
         mpc' \in {"head", "claim", "process"}, mpc' # "process" => batch' = {},
         writer' \in (SUBSET Configured) \cup {None}, stop' \in BOOLEAN,
         upserts' \in Nat, stops' \in Nat, crashes' \in Nat, failures' \in Nat
  PROVE  ManagerInv'
<1>1. TypeOK'
  BY DEF Sound, TypeOK
<1>2. Linked(runtimes', tasks') /\ Phases' /\ Truth'
  BY DEF Sound, Phases, Truth
<1> QED BY <1>1, <1>2 DEF ManagerInv

\* _start_strategy leaves all sound.
LEMMA StartStrategySound ==
  ASSUME TypeOK, Claimed, batch # {},
         NEW reg, NEW theirs, NEW held, NEW known, Sound(reg, theirs, held, known),
         StartStrategy(reg, theirs, held, known)
  PROVE  /\ Sound(registry', foreign', runtimes', tasks')
         /\ queue' \in Seq(Command) /\ batch' \in SUBSET Ids' /\ mpc' = "process" /\ Claimed'
<1>1. CASE /\ registry' = reg /\ foreign' = theirs /\ runtimes' = held /\ tasks' = known
           /\ Finish("done") \/ Finish("failed")
  BY <1>1, FinishKeeps
<1>2. CASE /\ held[target] = None /\ target \in Configured
           /\ Free(known) # {}
           /\ runtimes' = [held EXCEPT ![target] = Fresh(known)]
           /\ tasks' = [known EXCEPT ![Fresh(known)] = NewTask(target)]
           /\ registry' = Started(reg, target)
           /\ foreign' = theirs \ {target}
           /\ Finish("done")
  <2>1. PICK name \in Names : name = target
    BY CommandType
  <2>2. PICK u \in TaskIds : u = Fresh(known) /\ known[u] = None
    BY <1>2 DEF Fresh, Free
  <2>3. NewTask(name) \in Task /\ NewTask(name) # None
    BY NoneAssumption DEF NewTask, Task
  <2>4. /\ reg \in [Names -> Row \cup {None}] /\ theirs \in SUBSET Names
        /\ held \in [Names -> TaskIds \cup {None}]
        /\ known \in [TaskIds -> Task \cup {None}]
    BY DEF Sound
  <2>5. /\ runtimes' = [held EXCEPT ![name] = u] /\ held[name] = None /\ name \in Configured
        /\ tasks' = [known EXCEPT ![u] = NewTask(name)]
    BY <1>2, <2>1, <2>2
  <2>6. /\ runtimes' \in [Names -> TaskIds \cup {None}]
        /\ tasks' \in [TaskIds -> Task \cup {None}]
        /\ runtimes'[name] = u /\ tasks'[u] = NewTask(name)
        /\ \A n \in Names : n # name => runtimes'[n] = held[n]
        /\ \A t \in TaskIds : t # u => tasks'[t] = known[t]
    BY <2>3, <2>4, <2>5
  <2>7. u # None
    BY TasksAssumption
  <2>8. \A t \in TaskIds : known[t] # None => known[t].name # name /\ known[t].name \in Names
    <3> SUFFICES ASSUME NEW t \in TaskIds, known[t] # None
                 PROVE  known[t].name # name /\ known[t].name \in Names
      OBVIOUS
    <3>1. known[t] \in Task /\ held[known[t].name] = t /\ t # None
      BY <2>4, TasksAssumption DEF Sound, Linked
    <3> QED BY <2>5, <3>1 DEF Task
  <2>9. Linked(runtimes', tasks')
    <3>1. ASSUME NEW t \in TaskIds, tasks'[t] # None
          PROVE  runtimes'[tasks'[t].name] = t
      <4>1. CASE t = u
        BY <2>6, <4>1 DEF NewTask
      <4>2. CASE t # u
        <5>1. known[t] # None /\ tasks'[t] = known[t]
          BY <2>6, <3>1, <4>2
        <5>2. held[known[t].name] = t
          BY <5>1 DEF Sound, Linked
        <5> QED BY <2>6, <2>8, <5>1, <5>2
      <4> QED BY <4>1, <4>2
    <3>2. ASSUME NEW n \in Names, runtimes'[n] # None
          PROVE  tasks'[runtimes'[n]] # None /\ tasks'[runtimes'[n]].name = n
      <4>1. CASE n = name
        BY <2>3, <2>6, <4>1 DEF NewTask
      <4>2. CASE n # name
        <5>1. held[n] \in TaskIds /\ runtimes'[n] = held[n]
          BY <2>4, <2>6, <3>2, <4>2
        <5>2. known[held[n]] # None /\ known[held[n]].name = n
          BY <3>2, <5>1 DEF Sound, Linked
        <5> QED BY <2>2, <2>6, <5>1, <5>2
      <4> QED BY <4>1, <4>2
    <3> QED BY <3>1, <3>2 DEF Linked
  <2>10. \A t \in TaskIds : tasks'[t] # None => tasks'[t].stop # "cancel"
    BY <2>6 DEF Sound, NewTask
  <2>11. \A n \in Names : Runs(tasks', n) <=> n = name \/ Runs(known, n)
    <3>1. Runs(tasks', name)
      BY <2>3, <2>6 DEF Runs, NewTask
    <3>2. \A n \in Names : Runs(known, n) => Runs(tasks', n)
      BY <2>2, <2>6 DEF Runs
    <3>3. ASSUME NEW n \in Names, Runs(tasks', n), n # name
          PROVE  Runs(known, n)
      BY <2>6, <3>3 DEF Runs, NewTask
    <3> QED BY <3>1, <3>2, <3>3
  <2>12. reg[name] \in Row /\ reg[name] # None
    BY <2>4, <2>5 DEF Sound, RowHolds
  <2> DEFINE row == [[reg[name] EXCEPT !.desired = "enabled"] EXCEPT !.runtime = "running"]
  <2>13. row \in Row /\ row # None /\ row.runtime = "running"
    BY <2>12, NoneAssumption DEF Row
  <2>14. registry' = [reg EXCEPT ![name] = row]
    <3>1. SetDesired(reg, name, "enabled")
            = [reg EXCEPT ![name] = [reg[name] EXCEPT !.desired = "enabled"]]
      BY <2>12 DEF SetDesired
    <3>2. [reg[name] EXCEPT !.desired = "enabled"] # None
      BY <2>12, NoneAssumption DEF Row
    <3> QED BY <1>2, <2>1, <2>4, <3>1, <3>2 DEF Started, SetRuntime
  <2> HIDE DEF row
  <2>15. /\ registry' \in [Names -> Row \cup {None}] /\ registry'[name] = row
         /\ \A n \in Names : n # name => registry'[n] = reg[n]
    BY <2>4, <2>13, <2>14
  <2>16. /\ foreign' \in SUBSET Names
         /\ \A n \in Names : n # name => (n \in foreign' <=> n \in theirs)
    BY <1>2, <2>1, <2>4
  <2>17. ASSUME NEW n \in Configured PROVE RowHolds(n, registry', foreign', tasks')
    <3>1. n \in Names
      BY NamesAssumption
    <3>2. CASE n = name
      BY <2>11, <2>13, <2>15, <3>2 DEF RowHolds
    <3>3. CASE n # name
      BY <2>11, <2>15, <2>16, <3>1, <3>3 DEF RowHolds, Sound
    <3> QED BY <3>2, <3>3
  <2> QED BY <1>2, <2>6, <2>9, <2>10, <2>15, <2>16, <2>17, FinishKeeps DEF Sound
<1> QED BY <1>1, <1>2 DEF StartStrategy

\* What a command does last, _start_strategy or nothing, leaves all sound.
LEMMA ConcludeSound ==
  ASSUME TypeOK, Claimed, batch # {},
         NEW reg, NEW theirs, NEW held, NEW known, Sound(reg, theirs, held, known),
         Conclude(reg, theirs, held, known)
  PROVE  /\ Sound(registry', foreign', runtimes', tasks')
         /\ queue' \in Seq(Command) /\ batch' \in SUBSET Ids' /\ mpc' = "process" /\ Claimed'
<1>1. CASE command.type = "restart"
  BY <1>1, StartStrategySound DEF Conclude
<1>2. CASE command.type # "restart"
  BY <1>2, FinishKeeps DEF Conclude
<1> QED BY <1>1, <1>2

LEMMA SetRow ==
  ASSUME NEW reg \in [Names -> Row \cup {None}], NEW name \in Names,
         NEW value \in {"stopped", "running", "error"}, NEW wish \in {"enabled", "disabled"}
  PROVE  /\ LET new == SetRuntime(reg, name, value)
            IN /\ new \in [Names -> Row \cup {None}]
               /\ \A n \in Names : n # name => new[n] = reg[n]
               /\ reg[name] # None => new[name] # None /\ new[name].runtime = value
         /\ LET new == SetDesired(reg, name, wish)
            IN /\ new \in [Names -> Row \cup {None}]
               /\ \A n \in Names : n # name => new[n] = reg[n]
               /\ reg[name] # None => /\ new[name] # None
                                      /\ new[name].runtime = reg[name].runtime
<1>1. CASE reg[name] = None
  BY <1>1 DEF SetRuntime, SetDesired
<1>2. CASE reg[name] # None
  <2> DEFINE r == [reg[name] EXCEPT !.runtime = value]
             d == [reg[name] EXCEPT !.desired = wish]
  <2>1. /\ r \in Row /\ r # None /\ r.runtime = value
        /\ d \in Row /\ d # None /\ d.runtime = reg[name].runtime
    BY <1>2, NoneAssumption DEF Row
  <2>2. SetRuntime(reg, name, value) = [reg EXCEPT ![name] = r]
    BY <1>2 DEF SetRuntime
  <2>3. SetDesired(reg, name, wish) = [reg EXCEPT ![name] = d]
    BY <1>2 DEF SetDesired
  <2> HIDE DEF r, d
  <2> QED BY <2>1, <2>2, <2>3
<1> QED BY <1>1, <1>2

LEMMA StepRest ==
  ASSUME ManagerInv, UNCHANGED <<writer, stop, bounds>>
  PROVE  /\ writer' \in (SUBSET Configured) \cup {None} /\ stop' \in BOOLEAN
         /\ upserts' \in Nat /\ stops' \in Nat /\ crashes' \in Nat /\ failures' \in Nat
BY DEF ManagerInv, TypeOK, bounds

LEMMA EnableInv ==
  ASSUME ManagerInv, Enable
  PROVE  ManagerInv'
<1>1. /\ mpc = "process" /\ batch # {} /\ UNCHANGED <<writer, stop, bounds>>
      /\ StartStrategy(registry, foreign, runtimes, tasks)
  BY DEF Enable, Processing
<1>2. Sound(registry, foreign, runtimes, tasks)
  BY <1>1, SoundInv DEF ManagerInv
<1>3. /\ Sound(registry', foreign', runtimes', tasks')
      /\ queue' \in Seq(Command) /\ batch' \in SUBSET Ids' /\ mpc' = "process" /\ Claimed'
  BY <1>1, <1>2, StartStrategySound DEF ManagerInv
<1> QED BY <1>1, <1>3, StepRest, InvOfSound

LEMMA DisableIdleInv ==
  ASSUME ManagerInv, DisableIdle
  PROVE  ManagerInv'
<1> DEFINE wished == SetDesired(registry, target, "disabled")
           reg == SetRuntime(wished, target, "stopped")
           theirs == foreign \ {target}
<1>1. /\ mpc = "process" /\ batch # {} /\ UNCHANGED <<writer, stop, bounds>>
      /\ runtimes[target] = None /\ Conclude(reg, theirs, runtimes, tasks)
  BY DEF DisableIdle, Processing
<1>2. Sound(registry, foreign, runtimes, tasks)
  BY <1>1, SoundInv DEF ManagerInv
<1>3. target \in Names
  BY <1>1, CommandType DEF ManagerInv
<1>4. /\ wished \in [Names -> Row \cup {None}]
      /\ \A n \in Names : n # target => wished[n] = registry[n]
      /\ registry[target] # None => wished[target] # None
  BY <1>2, <1>3, SetRow DEF Sound
<1> HIDE DEF wished
<1>5. /\ reg \in [Names -> Row \cup {None}]
      /\ \A n \in Names : n # target => reg[n] = wished[n]
      /\ wished[target] # None => reg[target] # None /\ reg[target].runtime = "stopped"
  BY <1>3, <1>4, SetRow
<1>6. ~Runs(tasks, target)
  <2> SUFFICES ASSUME NEW t \in TaskIds, tasks[t] # None, tasks[t].name = target
               PROVE  FALSE
    BY DEF Runs
  <2>1. runtimes[target] = t /\ t # None
    BY TasksAssumption DEF ManagerInv, Linked
  <2> QED BY <1>1, <2>1
<1>7. Sound(reg, theirs, runtimes, tasks)
  <2>1. ASSUME NEW n \in Configured PROVE RowHolds(n, reg, theirs, tasks)
    <3>1. n \in Names
      BY NamesAssumption
    <3>2. RowHolds(n, registry, foreign, tasks)
      BY <1>2 DEF Sound
    <3>3. CASE n = target
      BY <1>4, <1>5, <1>6, <3>2, <3>3 DEF RowHolds
    <3>4. CASE n # target
      BY <1>4, <1>5, <3>1, <3>2, <3>4 DEF RowHolds
    <3> QED BY <3>3, <3>4
  <2> HIDE DEF reg
  <2> QED BY <1>2, <1>5, <2>1 DEF Sound
<1>8. /\ Sound(registry', foreign', runtimes', tasks')
      /\ queue' \in Seq(Command) /\ batch' \in SUBSET Ids' /\ mpc' = "process" /\ Claimed'
  BY <1>1, <1>7, ConcludeSound DEF ManagerInv
<1> QED BY <1>1, <1>8, StepRest, InvOfSound

\* The task is asked to end; only its own row may be behind from now on.
LEMMA DisableInv ==
  ASSUME ManagerInv, Disable
  PROVE  ManagerInv'
<1> DEFINE t == runtimes[target]
           kind == IF command.type = "drain" THEN "drain" ELSE "cancel"
<1>1. /\ mpc = "process" /\ batch # {} /\ mpc' = "await"
      /\ command.type # "enable" /\ t # None
      /\ registry' = SetDesired(registry, target, "disabled")
      /\ tasks' = [tasks EXCEPT ![t].stop = kind]
      /\ UNCHANGED <<foreign, queue, writer, batch, runtimes, stop, bounds>>
  BY DEF Disable, Processing
<1>2. Sound(registry, foreign, runtimes, tasks)
  BY <1>1, SoundInv DEF ManagerInv
<1>3. target \in Names /\ t \in TaskIds /\ kind \in {"drain", "cancel"}
  BY <1>1, <1>2, CommandType DEF ManagerInv, Sound
<1>4. tasks[t] # None /\ tasks[t] \in Task /\ tasks[t].name = target
  BY <1>1, <1>2, <1>3 DEF Sound, Linked
<1> HIDE DEF t, kind
<1>5. /\ tasks' \in [TaskIds -> Task \cup {None}] /\ tasks'[t] # None
      /\ tasks'[t].name = tasks[t].name /\ tasks'[t].state = tasks[t].state
      /\ \A u \in TaskIds : u # t => tasks'[u] = tasks[u]
  <2>1. /\ [tasks[t] EXCEPT !.stop = kind] \in Task
        /\ [tasks[t] EXCEPT !.stop = kind].name = tasks[t].name
        /\ [tasks[t] EXCEPT !.stop = kind].state = tasks[t].state
    BY <1>3, <1>4 DEF Task
  <2>2. tasks' = [tasks EXCEPT ![t] = [tasks[t] EXCEPT !.stop = kind]]
    BY <1>1
  <2> QED BY <1>2, <1>3, <2>1, <2>2, NoneAssumption DEF Sound
<1>6. /\ registry' \in [Names -> Row \cup {None}]
      /\ \A n \in Names : n # target => registry'[n] = registry[n]
      /\ registry[target] # None => /\ registry'[target] # None
                                    /\ registry'[target].runtime = registry[target].runtime
  BY <1>1, <1>2, <1>3, SetRow DEF Sound
<1>7. target' = target /\ command' = command
  BY <1>1 DEF target, command, current
<1>8. TypeOK'
  BY <1>1, <1>5, <1>6 DEF ManagerInv, TypeOK, Ids, bounds
<1>9. Linked(runtimes, tasks)'
  BY <1>1, <1>4, <1>5 DEF ManagerInv, Linked
<1>10. Phases'
  <2>1. ASSUME NEW u \in TaskIds, tasks'[u] # None, tasks'[u].stop = "cancel"
        PROVE  u = t
    BY <1>2, <1>5, <2>1 DEF Sound
  <2> QED BY <1>1, <1>7, <2>1 DEF Phases, t
<1>11. Claimed'
  BY <1>1 DEF ManagerInv, Claimed, Over, Ids
<1>12. Truth'
  <2>1. ASSUME NEW n \in Configured PROVE RowHolds(n, registry', foreign', tasks')
    <3>1. n \in Names
      BY NamesAssumption
    <3>2. RowHolds(n, registry, foreign, tasks)
      BY <1>2 DEF Sound
    <3>3. Runs(tasks', n) <=> Runs(tasks, n)
      BY <1>4, <1>5 DEF Runs
    <3>4. registry'[n] # None /\ registry'[n].runtime = registry[n].runtime
      BY <1>6, <3>1, <3>2 DEF RowHolds
    <3> QED BY <1>1, <3>2, <3>3, <3>4 DEF RowHolds
  <2> QED BY <2>1 DEF Truth, RowHolds
<1> QED BY <1>8, <1>9, <1>10, <1>11, <1>12 DEF ManagerInv

\* Runtimes whose tasks are done are forgotten together with their tasks.
LEMMA PoppedLinked ==
  ASSUME TypeOK, Linked(runtimes, tasks), NEW names \in SUBSET Names,
         \A n \in names : runtimes[n] # None => ~Alive(runtimes[n])
  PROVE  /\ Popped(names) \in [Names -> TaskIds \cup {None}]
         /\ Collected(names) \in [TaskIds -> Task \cup {None}]
         /\ Linked(Popped(names), Collected(names))
         /\ \A n \in Names : Runs(Collected(names), n) <=> Runs(tasks, n)
         /\ \A t \in TaskIds : Collected(names)[t] \in {tasks[t], None}
         /\ \A n \in names : runtimes[n] # None => Collected(names)[runtimes[n]] = None
<1> DEFINE held == Popped(names)
           known == Collected(names)
<1>1. /\ runtimes \in [Names -> TaskIds \cup {None}]
      /\ tasks \in [TaskIds -> Task \cup {None}]
  BY DEF TypeOK
<1>2. /\ held \in [Names -> TaskIds \cup {None}]
      /\ \A n \in names : held[n] = None
      /\ \A n \in Names : n \notin names => held[n] = runtimes[n]
  BY <1>1 DEF Popped
<1>3. /\ known \in [TaskIds -> Task \cup {None}]
      /\ \A t \in TaskIds : known[t] \in {tasks[t], None}
      /\ \A t \in TaskIds : Alive(t) => known[t] = tasks[t]
      /\ \A t \in TaskIds : (\A n \in names : runtimes[n] # t) => known[t] = tasks[t]
      /\ \A t \in TaskIds, n \in names : ~Alive(t) /\ runtimes[n] = t => known[t] = None
  BY <1>1 DEF Collected
<1> HIDE DEF held, known
<1>4. Linked(held, known)
  <2>1. ASSUME NEW t \in TaskIds, known[t] # None
        PROVE  held[known[t].name] = t
    <3>1. known[t] = tasks[t] /\ tasks[t] # None /\ runtimes[tasks[t].name] = t
      BY <1>3, <2>1 DEF Linked
    <3>2. tasks[t].name \in Names
      BY <1>1, <3>1 DEF Task
    <3>3. tasks[t].name \notin names
      <4> SUFFICES ASSUME tasks[t].name \in names PROVE FALSE
        OBVIOUS
      <4>1. ~Alive(t)
        BY <3>1, TasksAssumption
      <4> QED BY <1>3, <2>1, <3>1, <4>1
    <3> QED BY <1>2, <3>1, <3>2, <3>3
  <2>2. ASSUME NEW n \in Names, held[n] # None
        PROVE  known[held[n]] # None /\ known[held[n]].name = n
    <3>1. n \notin names /\ held[n] = runtimes[n] /\ runtimes[n] \in TaskIds
      BY <1>1, <1>2, <2>2
    <3>2. tasks[runtimes[n]] # None /\ tasks[runtimes[n]].name = n
      BY <2>2, <3>1 DEF Linked
    <3>3. \A m \in names : runtimes[m] # runtimes[n]
      <4> SUFFICES ASSUME NEW m \in names, runtimes[m] = runtimes[n] PROVE FALSE
        OBVIOUS
      <4>1. tasks[runtimes[m]].name = m
        BY <2>2, <3>1 DEF Linked
      <4> QED BY <3>1, <3>2, <4>1
    <3> QED BY <1>3, <3>1, <3>2, <3>3
  <2> QED BY <2>1, <2>2 DEF Linked
<1>5. \A n \in Names : Runs(known, n) <=> Runs(tasks, n)
  <2>1. ASSUME NEW n \in Names, Runs(known, n) PROVE Runs(tasks, n)
    BY <1>3, <2>1 DEF Runs
  <2>2. ASSUME NEW n \in Names, Runs(tasks, n) PROVE Runs(known, n)
    BY <1>3, <2>2 DEF Runs, Alive
  <2> QED BY <2>1, <2>2
<1>6. \A n \in names : runtimes[n] # None => known[runtimes[n]] = None
  BY <1>1, <1>3
<1> QED BY <1>2, <1>3, <1>4, <1>5, <1>6 DEF held, known

\* The task has ended: its row is written, and it is forgotten.
LEMMA DisabledInv ==
  ASSUME ManagerInv, Disabled
  PROVE  ManagerInv'
<1> DEFINE held == Popped({target})
           known == Collected({target})
           reg == SetRuntime(registry, target, "stopped")
           theirs == foreign \ {target}
<1>1. /\ mpc = "await" /\ ~Alive(runtimes[target]) /\ UNCHANGED <<writer, stop, bounds>>
      /\ Conclude(reg, theirs, held, known)
  BY DEF Disabled
<1>2. batch # {} /\ runtimes[target] # None
  BY <1>1 DEF ManagerInv, Phases
<1>3. target \in Names /\ registry \in [Names -> Row \cup {None}]
  BY <1>2, CommandType DEF ManagerInv, TypeOK
<1>4. /\ held \in [Names -> TaskIds \cup {None}]
      /\ known \in [TaskIds -> Task \cup {None}]
      /\ Linked(held, known)
      /\ \A n \in Names : Runs(known, n) <=> Runs(tasks, n)
      /\ \A t \in TaskIds : known[t] \in {tasks[t], None}
      /\ known[runtimes[target]] = None
  <2>1. {target} \in SUBSET Names /\ \A n \in {target} : runtimes[n] # None => ~Alive(runtimes[n])
    BY <1>1, <1>3
  <2> QED BY <1>2, <2>1, PoppedLinked DEF ManagerInv
<1>5. ~Runs(known, target)
  <2> SUFFICES ASSUME NEW t \in TaskIds, tasks[t] # None, tasks[t].state # "done",
                      tasks[t].name = target
               PROVE  FALSE
    BY <1>3, <1>4 DEF Runs
  <2>1. runtimes[target] = t
    BY DEF ManagerInv, Linked
  <2> QED BY <1>1, <2>1 DEF Alive
<1>6. /\ reg \in [Names -> Row \cup {None}]
      /\ \A n \in Names : n # target => reg[n] = registry[n]
      /\ registry[target] # None => reg[target] # None /\ reg[target].runtime = "stopped"
  BY <1>3, SetRow
<1> HIDE DEF held, known, reg
<1>7. \A t \in TaskIds : known[t] # None => known[t].stop # "cancel"
  BY <1>1, <1>4 DEF ManagerInv, Phases
<1>8. ASSUME NEW n \in Configured PROVE RowHolds(n, reg, theirs, known)
  <2>1. n \in Names
    BY NamesAssumption
  <2>2. CASE n = target
    <3>1. registry[target] # None
      BY <1>1, <2>2 DEF ManagerInv, Truth, RowHolds
    <3> QED BY <1>5, <1>6, <2>2, <3>1 DEF RowHolds
  <2>3. CASE n # target
    <3>1. RowHolds(n, registry, foreign, tasks)
      BY <1>1, <2>3 DEF ManagerInv, Truth
    <3> QED BY <1>4, <1>6, <2>1, <2>3, <3>1 DEF RowHolds
  <2> QED BY <2>2, <2>3
<1>9. Sound(reg, theirs, held, known)
  BY <1>4, <1>6, <1>7, <1>8 DEF Sound, ManagerInv, TypeOK
<1>10. /\ Sound(registry', foreign', runtimes', tasks')
       /\ queue' \in Seq(Command) /\ batch' \in SUBSET Ids' /\ mpc' = "process" /\ Claimed'
  BY <1>1, <1>2, <1>9, ConcludeSound DEF ManagerInv
<1> QED BY <1>1, <1>10, StepRest, InvOfSound

---------------------------------------------------------------------------
(* The passes of the manager.                                              *)

LEMMA SyncInv ==
  ASSUME ManagerInv, Sync
  PROVE  ManagerInv'
<1>1. /\ mpc = "head" /\ mpc' = "claim"
      /\ runtimes' = Popped(Finished) /\ tasks' = Collected(Finished)
      /\ UNCHANGED <<registry, foreign, queue, writer, batch, stop, bounds>>
  BY DEF Sync, database, rows
<1>2. Sound(registry, foreign, runtimes, tasks)
  BY <1>1, SoundInv DEF ManagerInv
<1>3. Finished \in SUBSET Names /\ \A n \in Finished : runtimes[n] # None => ~Alive(runtimes[n])
  BY DEF Finished
<1>4. /\ runtimes' \in [Names -> TaskIds \cup {None}]
      /\ tasks' \in [TaskIds -> Task \cup {None}]
      /\ Linked(runtimes', tasks')
      /\ \A n \in Names : Runs(tasks', n) <=> Runs(tasks, n)
      /\ \A t \in TaskIds : tasks'[t] \in {tasks[t], None}
  BY <1>1, <1>3, PoppedLinked DEF ManagerInv
<1>5. \A t \in TaskIds : tasks'[t] # None => tasks'[t].stop # "cancel"
  BY <1>2, <1>4 DEF Sound
<1>6. \A n \in Configured : RowHolds(n, registry', foreign', tasks')
  BY <1>1, <1>2, <1>4, NamesAssumption DEF Sound, RowHolds
<1>7. Sound(registry', foreign', runtimes', tasks')
  BY <1>1, <1>2, <1>4, <1>5, <1>6 DEF Sound
<1>8. queue' \in Seq(Command) /\ batch' \in SUBSET Ids' /\ Claimed' /\ batch' = {}
  BY <1>1 DEF ManagerInv, TypeOK, Phases, Claimed, Over, Ids
<1> QED BY <1>1, <1>7, <1>8, StepRest, InvOfSound

\* Every pending command is claimed.
LEMMA ClaimInv ==
  ASSUME ManagerInv, Claim
  PROVE  ManagerInv'
<1>1. /\ mpc \in {"head", "claim"} /\ mpc' = "process"
      /\ batch' = {i \in Ids : queue[i].status = "pending"}
      /\ queue' = [i \in Ids |-> IF i \in batch'
                                 THEN [queue[i] EXCEPT !.status = "processing"] ELSE queue[i]]
      /\ UNCHANGED <<registry, foreign, writer, runtimes, tasks, stop, bounds>>
  BY DEF Claim, rows
<1>2. Sound(registry, foreign, runtimes, tasks)
  BY <1>1, SoundInv DEF ManagerInv
<1>3. Len(queue) \in Nat /\ \A i \in Ids : queue[i] \in Command
  BY CommandType DEF ManagerInv
<1>4. \A i \in Ids : [queue[i] EXCEPT !.status = "processing"] \in Command
                     /\ [queue[i] EXCEPT !.status = "processing"].status = "processing"
  BY <1>3 DEF Command
<1>5. /\ \A i \in Ids : queue'[i] \in Command
      /\ \A i \in batch' : queue'[i].status = "processing"
      /\ \A i \in Ids : i \notin batch' => queue'[i] = queue[i]
  BY <1>1, <1>3, <1>4
<1>6. queue' \in Seq(Command) /\ Len(queue') = Len(queue)
  <2>1. queue' = [i \in 1..Len(queue) |-> queue'[i]]
    BY <1>1 DEF Ids
  <2>2. \A i \in 1..Len(queue) : queue'[i] \in Command
    BY <1>5 DEF Ids
  <2> QED BY <1>3, <2>1, <2>2, IsASeq
<1>7. Ids' = Ids /\ batch' \in SUBSET Ids'
  BY <1>1, <1>6 DEF Ids
<1>8. Claimed'
  <2>1. \A i \in Ids : queue'[i].status # "pending"
    BY <1>1, <1>5
  <2>2. ASSUME NEW i \in batch', NEW j \in Ids, Over(j)'
        PROVE  j < i
    <3>1. queue[i].status = "pending" /\ i \in Ids
      BY <1>1
    <3>2. j \notin batch' /\ Over(j)
      BY <1>5, <2>2 DEF Over
    <3>3. ~(i < j)
      BY <3>1, <3>2 DEF ManagerInv, Claimed
    <3>4. i # j
      BY <3>1, <3>2 DEF Over
    <3> QED BY <1>3, <3>1, <3>3, <3>4 DEF Ids
  <2> QED BY <1>5, <1>7, <2>1, <2>2 DEF Claimed
<1>9. Sound(registry', foreign', runtimes', tasks')
  BY <1>1, <1>2
<1> QED BY <1>1, <1>6, <1>7, <1>8, <1>9, StepRest, InvOfSound

LEMMA PassOverInv ==
  ASSUME ManagerInv, PassOver
  PROVE  ManagerInv'
<1>1. /\ mpc = "process" /\ mpc' = "head" /\ batch = {}
      /\ UNCHANGED <<registry, foreign, queue, writer, batch, runtimes, tasks, stop, bounds>>
  BY DEF PassOver, database, rows
<1>2. Sound(registry', foreign', runtimes', tasks')
  BY <1>1, SoundInv DEF ManagerInv
<1>3. queue' \in Seq(Command) /\ batch' \in SUBSET Ids' /\ Claimed' /\ batch' = {}
  BY <1>1 DEF ManagerInv, TypeOK, Claimed, Over, Ids
<1> QED BY <1>1, <1>2, <1>3, StepRest, InvOfSound

---------------------------------------------------------------------------
(* The start and the end of the process.                                   *)

LEMMA SlotInjective ==
  /\ slot \in [Enabled -> TaskIds]
  /\ \A m, n \in Enabled : slot[m] = slot[n] => m = n
<1>1. Slots # {}
  BY TasksAssumption DEF Slots
<1>2. slot \in Slots
  BY <1>1 DEF slot
<1> QED BY <1>2 DEF Slots

\* The rows of the file are written and the enabled strategies are started.
LEMMA BootInv ==
  ASSUME ManagerInv, Boot
  PROVE  ManagerInv'
<1>1. /\ mpc = "off" /\ mpc' = "head" /\ foreign' = foreign \ Configured /\ stop' = FALSE
      /\ UNCHANGED <<queue, writer, batch, upserts, stops, crashes, failures>>
  BY DEF Boot, bounds
<1>2. /\ \A n \in Enabled : n \in Configured /\ n \in Names /\ slot[n] \in TaskIds
      /\ \A n \in Configured : n \in Names
  BY SlotInjective, NamesAssumption
<1>3. /\ runtimes' = [n \in Names |-> IF n \in Enabled THEN slot[n] ELSE None]
      /\ runtimes' \in [Names -> TaskIds \cup {None}]
  BY <1>2 DEF Boot
<1>4. \A n \in Names : /\ NewTask(n) \in Task /\ NewTask(n) # None
                         /\ NewTask(n).name = n /\ NewTask(n).stop # "cancel"
                         /\ NewTask(n).state # "done"
  BY NoneAssumption DEF NewTask, Task
<1>5. /\ tasks' \in [TaskIds -> Task \cup {None}]
      /\ \A n \in Enabled : tasks'[slot[n]] = NewTask(n)
      /\ \A t \in TaskIds : tasks'[t] # None => \E n \in Enabled : slot[n] = t
  <2>1. tasks' = [t \in TaskIds |->
                    IF \E n \in Enabled : slot[n] = t
                    THEN NewTask(CHOOSE n \in Enabled : slot[n] = t) ELSE None]
    BY DEF Boot
  <2>2. ASSUME NEW n \in Enabled
        PROVE  (CHOOSE m \in Enabled : slot[m] = slot[n]) = n
    BY SlotInjective
  <2>3. \A t \in TaskIds : (\E n \in Enabled : slot[n] = t) =>
          (CHOOSE n \in Enabled : slot[n] = t) \in Enabled
    OBVIOUS
  <2>4. tasks' \in [TaskIds -> Task \cup {None}]
    BY <1>2, <1>4, <2>1, <2>3
  <2>5. \A n \in Enabled : tasks'[slot[n]] = NewTask(n)
    BY <1>2, <2>1, <2>2
  <2>6. \A t \in TaskIds : tasks'[t] # None => \E n \in Enabled : slot[n] = t
    BY <2>1
  <2> QED BY <2>4, <2>5, <2>6
<1>6. Linked(runtimes', tasks')
  <2>1. ASSUME NEW t \in TaskIds, tasks'[t] # None
        PROVE  runtimes'[tasks'[t].name] = t
    <3>1. PICK n \in Enabled : slot[n] = t
      BY <1>5, <2>1
    <3>2. tasks'[t].name = n
      BY <1>2, <1>4, <1>5, <3>1
    <3> QED BY <1>2, <1>3, <3>1, <3>2
  <2>2. ASSUME NEW n \in Names, runtimes'[n] # None
        PROVE  tasks'[runtimes'[n]] # None /\ tasks'[runtimes'[n]].name = n
    <3>1. n \in Enabled /\ runtimes'[n] = slot[n]
      BY <1>3, <2>2
    <3> QED BY <1>2, <1>4, <1>5, <3>1
  <2> QED BY <2>1, <2>2 DEF Linked
<1>7. \A t \in TaskIds : tasks'[t] # None => tasks'[t].stop # "cancel"
  <2> SUFFICES ASSUME NEW t \in TaskIds, tasks'[t] # None PROVE tasks'[t].stop # "cancel"
    OBVIOUS
  <2>1. PICK n \in Enabled : slot[n] = t
    BY <1>5
  <2> QED BY <1>2, <1>4, <1>5, <2>1
<1>8. \A n \in Names : Runs(tasks', n) <=> n \in Enabled
  <2>1. ASSUME NEW n \in Names, Runs(tasks', n) PROVE n \in Enabled
    <3>1. PICK t \in TaskIds : tasks'[t] # None /\ tasks'[t].name = n
      BY <2>1 DEF Runs
    <3>2. PICK m \in Enabled : slot[m] = t
      BY <1>5, <3>1
    <3> QED BY <1>2, <1>4, <1>5, <3>1, <3>2
  <2>2. ASSUME NEW n \in Enabled PROVE Runs(tasks', n)
    <3>1. slot[n] \in TaskIds /\ tasks'[slot[n]] = NewTask(n) /\ NewTask(n) # None
      BY <1>2, <1>4, <1>5
    <3> QED BY <1>2, <1>4, <3>1 DEF Runs
  <2> QED BY <2>1, <2>2
<1>9. /\ registry' \in [Names -> Row \cup {None}]
      /\ \A n \in Configured :
           /\ registry'[n] # None
           /\ registry'[n].runtime = "running" <=> n \in Enabled
  <2> DEFINE on == [desired |-> "enabled", runtime |-> "running"]
             off(n) == [desired |-> FromFile[n], runtime |-> "stopped"]
  <2>1. /\ on \in Row /\ on # None /\ on.runtime = "running"
        /\ \A n \in Configured : off(n) \in Row /\ off(n) # None /\ off(n).runtime = "stopped"
    BY NoneAssumption DEF Row, FromFile
  <2>2. registry' = [n \in Names |->
                       IF n \in Enabled THEN on
                       ELSE IF n \in Configured THEN off(n) ELSE registry[n]]
    <3>1. DOMAIN FromFile = Configured
      BY DEF FromFile
    <3>2. \A n \in Names : Upsert(registry, FromFile)[n]
                           = IF n \in Configured THEN off(n) ELSE registry[n]
      BY <3>1 DEF Upsert
    <3> QED BY <3>2 DEF Boot
  <2>3. registry \in [Names -> Row \cup {None}]
    BY DEF ManagerInv, TypeOK
  <2> HIDE DEF on, off
  <2> QED BY <1>2, <2>1, <2>2, <2>3
<1>10. \A n \in Configured : RowHolds(n, registry', foreign', tasks')
  BY <1>2, <1>8, <1>9 DEF RowHolds
<1>11. Sound(registry', foreign', runtimes', tasks')
  BY <1>1, <1>3, <1>5, <1>6, <1>7, <1>9, <1>10 DEF Sound, ManagerInv, TypeOK
<1>12. /\ queue' \in Seq(Command) /\ batch' \in SUBSET Ids' /\ Claimed' /\ batch' = {}
       /\ writer' \in (SUBSET Configured) \cup {None}
       /\ upserts' \in Nat /\ stops' \in Nat /\ crashes' \in Nat /\ failures' \in Nat
  BY <1>1 DEF ManagerInv, TypeOK, Phases, Claimed, Over, Ids
<1> QED BY <1>1, <1>11, <1>12, InvOfSound

\* The tasks are asked to end.
LEMMA ShutdownInv ==
  ASSUME ManagerInv, Shutdown \/ ShutdownTimeout
  PROVE  ManagerInv'
<1>1. /\ UNCHANGED <<registry, foreign, queue, writer, batch, runtimes, stop, bounds>>
      /\ mpc \in {"head", "shutdown"} /\ mpc' \in {"shutdown", "forcing"}
  BY DEF Shutdown, ShutdownTimeout, database, rows
<1>2. tasks \in [TaskIds -> Task \cup {None}] /\ batch = {}
  BY <1>1 DEF ManagerInv, TypeOK, Phases
<1>3. /\ tasks' \in [TaskIds -> Task \cup {None}]
      /\ \A t \in TaskIds : tasks'[t] # None <=> tasks[t] # None
      /\ \A t \in TaskIds : tasks[t] # None => tasks'[t].name = tasks[t].name
      /\ mpc' = "shutdown" => \A t \in TaskIds :
           tasks'[t] # None => tasks'[t].stop # "cancel"
  <2>1. \A t \in TaskIds, kind \in {"drain", "cancel"} : tasks[t] # None =>
          /\ [tasks[t] EXCEPT !.stop = kind] \in Task
          /\ [tasks[t] EXCEPT !.stop = kind] # None
          /\ [tasks[t] EXCEPT !.stop = kind].name = tasks[t].name
          /\ [tasks[t] EXCEPT !.stop = kind].stop = kind
    BY <1>2, NoneAssumption DEF Task
  <2>2. CASE Shutdown
    <3>1. \A t \in TaskIds : (\E n \in Names : runtimes[n] = t) => tasks[t] # None
      BY TasksAssumption DEF ManagerInv, Linked
    <3>2. \A t \in TaskIds : tasks[t] # None => tasks[t].stop # "cancel"
      BY <2>2 DEF ManagerInv, Phases, Shutdown
    <3>3. tasks' = [t \in TaskIds |-> IF \E n \in Names : runtimes[n] = t
                                      THEN [tasks[t] EXCEPT !.stop = "drain"] ELSE tasks[t]]
      BY <2>2 DEF Shutdown
    <3> QED BY <1>2, <2>1, <3>1, <3>2, <3>3
  <2>3. CASE ShutdownTimeout
    <3>1. /\ mpc' = "forcing"
          /\ tasks' = [t \in TaskIds |-> IF Alive(t) THEN [tasks[t] EXCEPT !.stop = "cancel"]
                                         ELSE tasks[t]]
          /\ \A t \in TaskIds : Alive(t) => tasks[t] # None
      BY <2>3 DEF ShutdownTimeout, Alive
    <3> QED BY <1>2, <2>1, <3>1
  <2> QED BY <2>2, <2>3
<1>4. TypeOK'
  BY <1>1, <1>3 DEF ManagerInv, TypeOK, Ids, bounds
<1>5. Linked(runtimes', tasks')
  <2>1. \A n \in Names : runtimes[n] # None => runtimes[n] \in TaskIds
    BY DEF ManagerInv, TypeOK
  <2> QED BY <1>1, <1>3, <2>1 DEF ManagerInv, Linked
<1>6. Phases' /\ Truth'
  BY <1>1, <1>2, <1>3 DEF Phases, Truth
<1>7. Claimed'
  BY <1>1 DEF ManagerInv, Claimed, Over, Ids
<1> QED BY <1>4, <1>5, <1>6, <1>7 DEF ManagerInv

\* The process is off: there is nothing left but the database.
LEMMA OffInv ==
  ASSUME ManagerInv, Off, UNCHANGED <<queue, writer>>, stop' \in BOOLEAN,
         registry' \in [Names -> Row \cup {None}], foreign' \in SUBSET Names,
         upserts' \in Nat, stops' \in Nat, crashes' \in Nat, failures' \in Nat
  PROVE  ManagerInv'
<1>1. TypeOK'
  BY DEF ManagerInv, TypeOK, Off, Ids
<1>2. Linked(runtimes', tasks') /\ Phases' /\ Truth'
  BY DEF Linked, Phases, Truth, Off
<1>3. Claimed'
  BY DEF ManagerInv, Claimed, Over, Ids, Off
<1> QED BY <1>1, <1>2, <1>3 DEF ManagerInv

LEMMA ProcessOffInv ==
  ASSUME ManagerInv, ShutdownDone \/ Forced \/ Crash
  PROVE  ManagerInv'
<1>1. Off /\ UNCHANGED <<queue, writer>> /\ stop' \in BOOLEAN
      /\ upserts' \in Nat /\ stops' \in Nat /\ crashes' \in Nat /\ failures' \in Nat
  <2>1. /\ stop \in BOOLEAN
        /\ upserts \in Nat /\ stops \in Nat /\ crashes \in Nat /\ failures \in Nat
    BY DEF ManagerInv, TypeOK
  <2>2. CASE ShutdownDone
    BY <2>1, <2>2 DEF ShutdownDone, database, bounds
  <2>3. CASE Forced
    BY <2>1, <2>3 DEF Forced, bounds
  <2>4. CASE Crash
    <3>1. Off /\ UNCHANGED <<queue, writer, upserts, stops, failures>> /\ stop' = FALSE
      BY <2>4 DEF Crash, database
    <3>2. crashes' = crashes + 1
      BY <2>4 DEF Crash
    <3>3. crashes' \in Nat
      BY <2>1, <3>2
    <3> QED BY <2>1, <3>1, <3>3
  <2> QED BY <2>2, <2>3, <2>4
<1>2. registry' \in [Names -> Row \cup {None}] /\ foreign' \in SUBSET Names
  <2>1. registry \in [Names -> Row \cup {None}] /\ foreign \in SUBSET Names
    BY DEF ManagerInv, TypeOK
  <2>2. CASE ShutdownDone \/ Crash
    BY <2>1, <2>2 DEF ShutdownDone, Crash, database, rows
  <2>3. CASE Forced
    <3>1. ASSUME NEW n \in Names
          PROVE  SetRuntime(SetDesired(registry, n, "disabled"), n, "stopped")[n]
                   \in Row \cup {None}
      <4>1. SetDesired(registry, n, "disabled") \in [Names -> Row \cup {None}]
        BY <2>1, SetRow
      <4> QED BY <4>1, SetRow
    <3> QED BY <2>1, <2>3, <3>1 DEF Forced
  <2> QED BY <2>2, <2>3
<1> QED BY <1>1, <1>2, OffInv

LEMMA StopSignalInv ==
  ASSUME ManagerInv, StopSignal
  PROVE  ManagerInv'
<1>1. /\ UNCHANGED <<registry, foreign, queue, writer, mpc, batch, runtimes, tasks,
                     upserts, crashes, failures>>
      /\ stop' = TRUE /\ stops' = stops + 1
  BY DEF StopSignal, database, rows
<1>2. TypeOK'
  BY <1>1 DEF ManagerInv, TypeOK, Ids
<1>3. target' = target /\ command' = command
  BY <1>1 DEF target, command, current
<1>4. Linked(runtimes', tasks') /\ Phases' /\ Claimed'
  BY <1>1, <1>3 DEF ManagerInv, Linked, Phases, Claimed, Over, Ids
<1>5. Truth'
  BY <1>1, <1>3 DEF ManagerInv, Truth
<1> QED BY <1>2, <1>4, <1>5 DEF ManagerInv

---------------------------------------------------------------------------
(* The theorems.                                                           *)

LEMMA ManagerInit ==
  Init => ManagerInv
<1> SUFFICES ASSUME Init PROVE ManagerInv
  OBVIOUS
<1>1. Ids = {}
  BY DEF Init, Ids
<1>2. TypeOK
  <2>1. queue \in Seq(Command) /\ batch \in SUBSET Ids
    BY DEF Init
  <2>2. /\ registry \in [Names -> Row \cup {None}] /\ foreign \in SUBSET Names
        /\ runtimes \in [Names -> TaskIds \cup {None}]
        /\ tasks \in [TaskIds -> Task \cup {None}]
        /\ writer \in (SUBSET Configured) \cup {None}
    BY DEF Init
  <2> QED BY <2>1, <2>2 DEF Init, TypeOK
<1>3. Linked(runtimes, tasks) /\ Phases /\ Claimed /\ Truth
  BY <1>1 DEF Init, Linked, Phases, Claimed, Truth
<1> QED BY <1>2, <1>3 DEF ManagerInv

LEMMA ManagerNext ==
  ManagerInv /\ [Next]_vars => ManagerInv'
<1> SUFFICES ASSUME ManagerInv, [Next]_vars PROVE ManagerInv'
  OBVIOUS
<1>1. CASE Clients
  BY <1>1, ClientsInv
<1>2. CASE Boot
  BY <1>2, BootInv
<1>3. CASE ManagerStep
  BY <1>3, SyncInv, ClaimInv, EnableInv, DisableIdleInv, DisableInv, DisabledInv,
     PassOverInv, ShutdownInv, ProcessOffInv DEF ManagerStep
<1>4. CASE StopSignal \/ Crash
  BY <1>4, StopSignalInv, ProcessOffInv
<1>5. CASE \E t \in TaskIds : TaskStep(t) \/ TaskDrained(t) \/ TaskFails(t)
  BY <1>5, TaskInv
<1>6. CASE UNCHANGED vars
  <2>1. UNCHANGED <<registry, foreign, queue, writer, mpc, batch, runtimes, tasks, stop,
                    upserts, stops, crashes, failures>>
    BY <1>6 DEF vars, database, process, bounds
  <2>2. target' = target /\ command' = command
    BY <2>1 DEF target, command, current
  <2>3. TypeOK'
    BY <2>1 DEF ManagerInv, TypeOK, Ids
  <2>4. Linked(runtimes', tasks') /\ Phases' /\ Claimed'
    BY <2>1, <2>2 DEF ManagerInv, Linked, Phases, Claimed, Over, Ids
  <2>5. Truth'
    BY <2>1, <2>2 DEF ManagerInv, Truth
  <2> QED BY <2>3, <2>4, <2>5 DEF ManagerInv
<1> QED BY <1>1, <1>2, <1>3, <1>4, <1>5, <1>6 DEF Next

\* The manager, its tasks and the database keep ManagerInv throughout.
THEOREM ManagerInvariance == Spec => []ManagerInv
<1>1. Init => ManagerInv
  BY ManagerInit
<1>2. ManagerInv /\ [Next]_vars => ManagerInv'
  BY ManagerNext
<1> QED BY <1>1, <1>2, PTL DEF Spec

\* The rows, the commands, the tasks and the dictionary of runtimes have their types.
THEOREM ManagerTypeCorrect == Spec => []TypeOK
<1>1. ManagerInv => TypeOK
  BY DEF ManagerInv
<1> QED BY <1>1, ManagerInvariance, PTL

\* strategy_manager.py: no strategy ever has two live loops, and none is out of
\* the manager's reach.
THEOREM OneReachableLoop == Spec => []SingleReachableLoop
<1>1. ManagerInv => SingleReachableLoop
  BY DEF ManagerInv, Linked, SingleReachableLoop, Alive
<1> QED BY <1>1, ManagerInvariance, PTL

\* claim_pending_strategy_commands: commands take effect in the order of queueing.
THEOREM CommandsTakenInOrder == Spec => []CommandsInOrder
<1>1. ManagerInv => CommandsInOrder
  <2> SUFFICES ASSUME ManagerInv, NEW i \in Ids, NEW j \in Ids, i < j, Over(j)
               PROVE  queue[i].status # "pending" /\ i \notin batch
    BY DEF CommandsInOrder, Over
  <2>1. queue[i].status # "pending"
    BY DEF ManagerInv, Claimed
  <2>2. i \in Nat /\ j \in Nat
    BY CommandType DEF ManagerInv, Ids
  <2>3. i \in batch => j < i
    BY DEF ManagerInv, Claimed
  <2> QED BY <2>1, <2>2, <2>3
<1> QED BY <1>1, ManagerInvariance, PTL

\* The registry's account of what runs is true between the manager's steps.
THEOREM RegistryAlwaysTruthful == Spec => []RegistryTruthful
<1>1. \A n : Running(n) <=> Runs(tasks, n)
  BY DEF Running, Runs, Alive
<1>2. ManagerInv => RegistryTruthful
  BY <1>1 DEF ManagerInv, Truth, RowHolds, RegistryTruthful
<1> QED BY <1>2, ManagerInvariance, PTL

\* _disable_strategy: a disable is reported done only when no loop of its strategy
\* is left, whatever ended the loop meanwhile.
THEOREM DisableAlwaysStops == Spec => DisableMeansStopped
<1> DEFINE Reported(i) == /\ queue[i].type \in {"drain", "force"}
                          /\ queue[i].status = "processing" /\ queue'[i].status = "done"
           Stops == \A i \in Ids : Reported(i) => ~Running(queue[i].name)'
<1>1. ManagerInv /\ ManagerInv' /\ Next => Stops
  <2> SUFFICES ASSUME ManagerInv, ManagerInv', Next, NEW i \in Ids, Reported(i)
               PROVE  ~Running(queue[i].name)'
    OBVIOUS
  <2>1. /\ queue[i] \in Command /\ queue[i].status = "processing" /\ queue'[i].status = "done"
        /\ queue \in Seq(Command) /\ Len(queue) \in Nat
    BY CommandType DEF ManagerInv, TypeOK
  <2>2. queue' # queue
    BY <2>1
  <2>3. CASE Enable \/ DisableIdle \/ Disabled
    <3>1. batch # {} /\ \E status \in {"done", "failed"} : Finish(status)
      BY <2>3 DEF Enable, DisableIdle, Disabled, Processing, Conclude, StartStrategy,
                  ManagerInv, Phases
    <3>2. i = current /\ \A j \in Ids : queue'[j] = queue[j] \/ j = current
      BY <2>1, <3>1, FinishKeeps DEF ManagerInv
    <3>3. command.type \in {"drain", "force"} /\ queue[i].name = target
      BY <3>2 DEF command, target
    <3>4. runtimes'[target] = None
      <4>1. ~Enable /\ command.type # "restart"
        BY <3>3 DEF Enable
      <4>2. CASE DisableIdle
        BY <4>1, <4>2 DEF DisableIdle, Conclude
      <4>3. CASE Disabled
        <5>1. runtimes' = Popped({target}) /\ target \in Names
          BY <3>1, <4>1, <4>3, CommandType DEF Disabled, Conclude, ManagerInv
        <5> QED BY <5>1 DEF Popped
      <4> QED BY <2>3, <4>1, <4>2, <4>3
    <3>5. queue'[i].name = target
      <4>1. PICK status \in {"done", "failed"} : Finish(status)
        BY <3>1
      <4>2. queue' = [queue EXCEPT ![current] = [queue[current] EXCEPT !.status = status]]
        BY <4>1 DEF Finish
      <4>3. queue'[i] = [queue[i] EXCEPT !.status = status]
        BY <2>1, <3>2, <4>2 DEF Ids
      <4> QED BY <2>1, <3>3, <4>3 DEF Command
    <3>6. ASSUME NEW t \in TaskIds, tasks'[t] # None, tasks'[t].name = target
          PROVE  FALSE
      <4>1. runtimes'[target] = t
        BY <3>6 DEF ManagerInv, Linked
      <4> QED BY <3>4, <4>1, TasksAssumption
    <3> QED BY <3>5, <3>6 DEF Running, Alive
  <2>4. CASE Clients
    <3>1. PICK name \in Names, type \in Types : Submit(name, type)
      BY <2>2, <2>4 DEF Clients, ApiRequest, ApiEnable, CommandLine, CommandLineRow,
                        CommandLineDone, Types
    <3>2. queue'[i] = queue[i]
      BY <2>1, <3>1, AppendProperties DEF Submit, Ids
    <3> QED BY <2>1, <3>2
  <2>5. CASE Claim
    <3>1. queue'[i] = queue[i] \/ queue'[i] = [queue[i] EXCEPT !.status = "processing"]
      BY <2>5 DEF Claim
    <3>2. [queue[i] EXCEPT !.status = "processing"].status = "processing"
      BY <2>1 DEF Command
    <3> QED BY <2>1, <3>1, <3>2
  <2>6. queue' = queue \/ Clients \/ Claim \/ Enable \/ DisableIdle \/ Disabled
    <3>1. CASE Boot \/ StopSignal \/ Crash
      BY <3>1 DEF Boot, StopSignal, Crash, database
    <3>2. CASE ManagerStep
      BY <3>2 DEF ManagerStep, Sync, Disable, PassOver, Shutdown, ShutdownDone,
                  ShutdownTimeout, Forced, database
    <3>3. CASE \E t \in TaskIds : TaskStep(t) \/ TaskDrained(t) \/ TaskFails(t)
      BY <3>3 DEF TaskStep, TaskBegins, TaskEnds, TaskDrained, TaskFails, TaskCancelled,
                  TaskNeverRan, database
    <3> QED BY <3>1, <3>2, <3>3 DEF Next
  <2> QED BY <2>2, <2>3, <2>4, <2>5, <2>6
<1>2. ManagerInv /\ ManagerInv' /\ [Next]_vars => [Stops]_vars
  BY <1>1
<1>3. Spec => [][Stops]_vars
  BY <1>2, ManagerInvariance, PTL DEF Spec
<1>4. Stops <=> \A i \in Ids : queue[i].type \in {"drain", "force"} /\ queue[i].status = "processing"
                     /\ queue'[i].status = "done" => ~Running(queue[i].name)'
  OBVIOUS
<1> QED BY <1>3, <1>4, PTL DEF DisableMeansStopped

---------------------------------------------------------------------------
(* The manager implements Supervision.                                     *)

Order == [name: Names, type: Types]
SupervisionView == <<mpc # "off", Ran, Asked, Settled("done"), Settled("failed")>>

\* The abstract queue is the concrete one without the states of its commands.
LEMMA AskedIs ==
  ASSUME TypeOK
  PROVE  /\ Asked \in Seq(Order) /\ Len(Asked) = Len(queue)
         /\ \A i \in Ids : /\ Asked[i].name = queue[i].name
                           /\ Asked[i].type = queue[i].type
<1>1. Len(queue) \in Nat /\ \A i \in Ids : queue[i] \in Command
  BY CommandType
<1>2. Asked \in [1..Len(queue) -> Order]
  BY <1>1 DEF Asked, Ids, Command, Order
<1>3. Asked \in Seq(Order) /\ Len(Asked) = Len(queue)
  BY <1>1, <1>2
<1>4. \A i \in Ids : Asked[i].name = queue[i].name /\ Asked[i].type = queue[i].type
  BY DEF Asked
<1> QED BY <1>3, <1>4

\* As long as no command changes its name and type, the abstract queue is the same.
LEMMA AskedSame ==
  ASSUME TypeOK, Len(queue') = Len(queue),
         \A i \in Ids : queue'[i].name = queue[i].name /\ queue'[i].type = queue[i].type
  PROVE  Asked' = Asked
<1>1. Ids' = Ids
  BY DEF Ids
<1> QED BY <1>1 DEF Asked

\* A strategy without a runtime is not run.
LEMMA NotRun ==
  ASSUME NEW held, NEW known, Linked(held, known), NEW n \in Names, held[n] = None
  PROVE  ~Runs(known, n)
BY TasksAssumption DEF Linked, Runs

LEMMA RanIs ==
  /\ Ran = {n \in Names : Runs(tasks, n)}
  /\ Ran' = {n \in Names : Runs(tasks', n)}
BY DEF Ran, Running, Alive, Runs

\* The command in work is due, and finishing it settles it and nothing else.
LEMMA FinishSettles ==
  ASSUME TypeOK, Claimed, batch # {}, mpc # "off",
         NEW status \in {"done", "failed"}, Finish(status)
  PROVE  /\ Supervised!Due(current) /\ current \in 1..Len(Asked)
         /\ Asked' = Asked /\ mpc' # "off"
         /\ Settled(status)' = Settled(status) \cup {current}
         /\ \A other \in {"done", "failed"} \ {status} : Settled(other)' = Settled(other)
         /\ Asked[current].name = target /\ Asked[current].type = command.type
<1>1. /\ queue \in Seq(Command) /\ current \in Ids /\ current \in batch
      /\ Len(queue) \in Nat /\ \A i \in Ids : queue[i] \in Command
      /\ Len(Asked) = Len(queue) /\ mpc' = "process"
  BY CurrentFirst, CommandType, AskedIs DEF TypeOK, Finish
<1>2. queue' = [queue EXCEPT ![current] = [queue[current] EXCEPT !.status = status]]
  BY DEF Finish
<1>3. [queue[current] EXCEPT !.status = status] \in Command
  BY <1>1 DEF Command
<1>4. /\ Len(queue') = Len(queue)
      /\ \A i \in Ids : queue'[i] = IF i = current
                                    THEN [queue[current] EXCEPT !.status = status] ELSE queue[i]
  BY <1>1, <1>2, <1>3, ExceptSeq DEF Ids
<1>5. Asked' = Asked
  <2>1. \A i \in Ids : queue'[i].name = queue[i].name /\ queue'[i].type = queue[i].type
    BY <1>1, <1>4 DEF Command
  <2> QED BY <1>4, <2>1, AskedSame
<1>6. Ids' = Ids
  BY <1>4 DEF Ids
<1>7. queue'[current].status = status /\ \A i \in Ids : i # current => queue'[i] = queue[i]
  BY <1>1, <1>4 DEF Command
<1>8. queue[current].status = "processing"
  BY <1>1 DEF Claimed
<1>9. Settled(status)' = Settled(status) \cup {current}
  BY <1>1, <1>6, <1>7 DEF Settled
<1>10. \A other \in {"done", "failed"} \ {status} : Settled(other)' = Settled(other)
  BY <1>1, <1>6, <1>7, <1>8 DEF Settled
<1>11. \A j \in Settled("done") \cup Settled("failed") : j < current
  BY <1>1 DEF Claimed, Over, Settled
<1>12. Supervised!Due(current)
  BY <1>1, <1>11 DEF Supervised!Due, Ids
<1>13. Asked[current].name = target /\ Asked[current].type = command.type
  BY <1>1, AskedIs DEF target, command
<1> QED BY <1>1, <1>5, <1>9, <1>10, <1>12, <1>13 DEF Ids

\* _start_strategy at the end of an enable or a restart.
LEMMA StartRefines ==
  ASSUME TypeOK, Claimed, batch # {}, mpc # "off",
         NEW reg, NEW theirs, NEW held, NEW known, Linked(held, known),
         held \in [Names -> TaskIds \cup {None}], known \in [TaskIds -> Task \cup {None}],
         Ran = {n \in Names : Runs(known, n)},
         command.type \in {"enable", "restart"},
         command.type = "restart" => held[target] = None,
         StartStrategy(reg, theirs, held, known)
  PROVE  Supervised!Next
<1>1. target \in Names
  BY CommandType
<1>2. held[target] = None => target \notin Ran
  BY <1>1, NotRun
<1>3. CASE held[target] # None /\ tasks' = known /\ Finish("done")
  <2>1. UNCHANGED Ran
    BY <1>3, RanIs
  <2>2. command.type = "enable"
    BY <1>3
  <2>3. /\ Supervised!Due(current) /\ current \in 1..Len(Asked)
        /\ Asked' = Asked /\ mpc' # "off" /\ Asked[current].type = command.type
        /\ Settled("done")' = Settled("done") \cup {current}
        /\ Settled("failed")' = Settled("failed")
    BY <1>3, FinishSettles
  <2>4. Supervised!CarryOut(current)
    BY <2>1, <2>2, <2>3 DEF Supervised!CarryOut, Supervised!Starts
  <2> QED BY <2>3, <2>4 DEF Supervised!Next
<1>4. CASE /\ held[target] = None /\ target \in Configured
           /\ Free(known) # {}
           /\ tasks' = [known EXCEPT ![Fresh(known)] = NewTask(target)]
           /\ Finish("done")
  <2>1. Fresh(known) \in TaskIds /\ known[Fresh(known)] = None
    BY <1>4 DEF Fresh, Free
  <2>2. /\ tasks'[Fresh(known)] = NewTask(target)
        /\ \A t \in TaskIds : t # Fresh(known) => tasks'[t] = known[t]
    BY <1>4, <2>1
  <2>3. NewTask(target) # None
    BY <1>1, NoneAssumption DEF NewTask, Task
  <2>4. \A n \in Names : Runs(tasks', n) <=> n = target \/ Runs(known, n)
    <3>1. Runs(tasks', target)
      BY <2>1, <2>2, <2>3 DEF Runs, NewTask
    <3>2. \A n \in Names : Runs(known, n) => Runs(tasks', n)
      BY <2>1, <2>2 DEF Runs
    <3>3. ASSUME NEW n \in Names, Runs(tasks', n), n # target
          PROVE  Runs(known, n)
      BY <2>2, <3>3 DEF Runs, NewTask
    <3> QED BY <3>1, <3>2, <3>3
  <2>5. Ran' = Ran \cup {target}
    BY <1>1, <2>4, RanIs
  <2>6. /\ Supervised!Due(current) /\ current \in 1..Len(Asked)
        /\ Asked' = Asked /\ mpc' # "off"
        /\ Asked[current].type = command.type /\ Asked[current].name = target
        /\ Settled("done")' = Settled("done") \cup {current}
        /\ Settled("failed")' = Settled("failed")
    BY <1>4, FinishSettles
  <2>7. Supervised!CarryOut(current)
    BY <1>2, <1>4, <2>5, <2>6
       DEF Supervised!CarryOut, Supervised!Starts, Supervised!Restarts
  <2> QED BY <2>6, <2>7 DEF Supervised!Next
<1>5. CASE /\ held[target] = None /\ target \notin Configured
           /\ tasks' = known /\ Finish("failed")
  <2>1. UNCHANGED Ran
    BY <1>5, RanIs
  <2>2. /\ Supervised!Due(current) /\ current \in 1..Len(Asked)
        /\ Asked' = Asked /\ mpc' # "off"
        /\ Asked[current].type = command.type /\ Asked[current].name = target
        /\ Settled("failed")' = Settled("failed") \cup {current}
        /\ Settled("done")' = Settled("done")
    BY <1>5, FinishSettles
  <2>3. Supervised!Refuse(current)
    BY <1>2, <1>5, <2>1, <2>2 DEF Supervised!Refuse
  <2> QED BY <2>2, <2>3 DEF Supervised!Next
<1> QED BY <1>3, <1>4, <1>5 DEF StartStrategy

\* The end of a disable or a restart whose strategy is not run.
LEMMA ConcludeRefines ==
  ASSUME TypeOK, Claimed, batch # {}, mpc # "off",
         NEW reg, NEW theirs, NEW held, NEW known, Linked(held, known),
         held \in [Names -> TaskIds \cup {None}], known \in [TaskIds -> Task \cup {None}],
         Ran = {n \in Names : Runs(known, n)},
         command.type # "enable", held[target] = None,
         Conclude(reg, theirs, held, known)
  PROVE  Supervised!Next
<1>1. target \in Names /\ command \in Command
  BY CommandType
<1>2. CASE command.type = "restart"
  BY <1>2, StartRefines DEF Conclude
<1>3. CASE command.type # "restart"
  <2>1. tasks' = known /\ Finish("done") /\ command.type \in {"drain", "force"}
    BY <1>1, <1>3 DEF Conclude, Command, Types
  <2>2. UNCHANGED Ran /\ target \notin Ran
    BY <1>1, <2>1, RanIs, NotRun
  <2>3. /\ Supervised!Due(current) /\ current \in 1..Len(Asked)
        /\ Asked' = Asked /\ mpc' # "off"
        /\ Asked[current].type = command.type /\ Asked[current].name = target
        /\ Settled("done")' = Settled("done") \cup {current}
        /\ Settled("failed")' = Settled("failed")
    BY <2>1, FinishSettles
  <2>4. Supervised!CarryOut(current)
    BY <2>1, <2>2, <2>3 DEF Supervised!CarryOut, Supervised!Stops
  <2> QED BY <2>3, <2>4 DEF Supervised!Next
<1> QED BY <1>2, <1>3

\* A command is carried out or refused.
LEMMA CommandRefines ==
  ASSUME ManagerInv, Enable \/ DisableIdle \/ Disabled
  PROVE  Supervised!Next
<1> USE DEF ManagerInv
<1>0. /\ runtimes \in [Names -> TaskIds \cup {None}]
      /\ tasks \in [TaskIds -> Task \cup {None}]
  BY DEF TypeOK
<1>1. CASE Enable
  BY <1>0, <1>1, RanIs, StartRefines DEF Enable, Processing
<1>2. CASE DisableIdle
  BY <1>0, <1>2, RanIs, ConcludeRefines DEF DisableIdle, Processing
<1>3. CASE Disabled
  <2>1. /\ mpc = "await" /\ ~Alive(runtimes[target]) /\ batch # {}
        /\ runtimes[target] # None /\ command.type # "enable"
        /\ Conclude(SetRuntime(registry, target, "stopped"),
                    foreign \ {target}, Popped({target}), Collected({target}))
    BY <1>3 DEF Disabled, Phases
  <2>2. target \in Names
    BY <2>1, CommandType
  <2>3. /\ Linked(Popped({target}), Collected({target}))
        /\ Popped({target}) \in [Names -> TaskIds \cup {None}]
        /\ Collected({target}) \in [TaskIds -> Task \cup {None}]
        /\ \A n \in Names : Runs(Collected({target}), n) <=> Runs(tasks, n)
    BY <2>1, <2>2, PoppedLinked
  <2>4. Popped({target})[target] = None
    BY <2>2 DEF Popped
  <2>5. Ran = {n \in Names : Runs(Collected({target}), n)}
    BY <2>3, RanIs
  <2> QED BY <2>1, <2>3, <2>4, <2>5, ConcludeRefines
<1> QED BY <1>1, <1>2, <1>3

\* Steps after which the same strategies run and the same commands are settled.
LEMMA SameView ==
  ASSUME TypeOK, mpc' # "off" <=> mpc # "off", UNCHANGED queue,
         \A n \in Names : Runs(tasks', n) <=> Runs(tasks, n)
  PROVE  UNCHANGED SupervisionView
<1>1. Ran' = Ran
  BY RanIs
<1>2. Asked' = Asked /\ \A status \in {"done", "failed"} : Settled(status)' = Settled(status)
  BY DEF Asked, Settled, Ids
<1>3. (mpc # "off")' = (mpc # "off")
  OBVIOUS
<1> QED BY <1>1, <1>2, <1>3 DEF SupervisionView

\* A request at a task leaves it running.
LEMMA RequestRunsOn ==
  ASSUME TypeOK,
         \A t \in TaskIds :
           \/ tasks'[t] = tasks[t]
           \/ /\ tasks[t] # None /\ tasks'[t] # None
              /\ tasks'[t].name = tasks[t].name /\ tasks'[t].state = tasks[t].state
         , NEW n \in Names
  PROVE  Runs(tasks', n) <=> Runs(tasks, n)
BY DEF Runs

\* Changing one field of a task keeps the others.
LEMMA TaskField ==
  ASSUME TypeOK, NEW t \in TaskIds, tasks[t] # None,
         NEW kind \in {"none", "drain", "cancel"}, NEW state \in {"fresh", "running", "done"}
  PROVE  /\ LET new == [tasks[t] EXCEPT !.stop = kind]
            IN new # None /\ new.name = tasks[t].name /\ new.state = tasks[t].state
         /\ LET new == [tasks[t] EXCEPT !.state = state]
            IN new # None /\ new.name = tasks[t].name /\ new.state = state
<1>1. tasks[t] \in Task
  BY DEF TypeOK
<1>2. [tasks[t] EXCEPT !.stop = kind] \in Task /\ [tasks[t] EXCEPT !.state = state] \in Task
  BY <1>1 DEF Task
<1> QED BY <1>1, <1>2, NoneAssumption DEF Task

\* Asking strategies to end changes nothing that a client can see.
LEMMA AskingRefines ==
  ASSUME ManagerInv, Disable \/ Shutdown \/ ShutdownTimeout
  PROVE  UNCHANGED SupervisionView
<1> USE DEF ManagerInv
<1>1. mpc # "off" /\ mpc' # "off" /\ UNCHANGED queue
  BY DEF Disable, Shutdown, ShutdownTimeout, Processing, database
<1>2. tasks \in [TaskIds -> Task \cup {None}]
  BY DEF TypeOK
<1>3. \A t \in TaskIds :
        \/ tasks'[t] = tasks[t]
        \/ tasks[t] # None /\ \E kind \in {"none", "drain", "cancel"} :
             tasks'[t] = [tasks[t] EXCEPT !.stop = kind]
  <2>1. CASE Disable
    <3>1. batch # {} /\ runtimes[target] # None
      BY <2>1 DEF Disable, Processing
    <3>2. target \in Names
      BY <3>1, CommandType
    <3>3. runtimes[target] \in TaskIds /\ tasks[runtimes[target]] # None
      BY <3>1, <3>2 DEF TypeOK, Linked
    <3>4. tasks' = [tasks EXCEPT ![runtimes[target]] =
                      [tasks[runtimes[target]] EXCEPT !.stop =
                         IF command.type = "drain" THEN "drain" ELSE "cancel"]]
      BY <2>1 DEF Disable
    <3> QED BY <1>2, <3>3, <3>4
  <2>2. CASE Shutdown
    <3>1. \A n \in Names : runtimes[n] # None => tasks[runtimes[n]] # None
      BY DEF Linked
    <3>2. \A t \in TaskIds : (\E n \in Names : runtimes[n] = t) => tasks[t] # None
      BY <3>1, TasksAssumption
    <3> QED BY <2>2, <3>2 DEF Shutdown
  <2>3. CASE ShutdownTimeout
    BY <2>3 DEF ShutdownTimeout, Alive
  <2> QED BY <2>1, <2>2, <2>3
<1>4. \A t \in TaskIds :
        \/ tasks'[t] = tasks[t]
        \/ /\ tasks[t] # None /\ tasks'[t] # None
           /\ tasks'[t].name = tasks[t].name /\ tasks'[t].state = tasks[t].state
  <2> SUFFICES ASSUME NEW t \in TaskIds, tasks[t] # None,
                      NEW kind \in {"none", "drain", "cancel"},
                      tasks'[t] = [tasks[t] EXCEPT !.stop = kind]
               PROVE  /\ tasks'[t] # None
                      /\ tasks'[t].name = tasks[t].name
                      /\ tasks'[t].state = tasks[t].state
    BY <1>3
  <2>1. tasks[t] \in Task
    BY <1>2
  <2>2. tasks'[t] \in Task
    BY <2>1 DEF Task
  <2> QED BY <2>1, <2>2, TaskField DEF Task
<1> QED BY <1>1, <1>4, RequestRunsOn, SameView

\* A command is claimed, or finished tasks are forgotten.
LEMMA PassRefines ==
  ASSUME ManagerInv, Sync \/ Claim \/ PassOver \/ StopSignal
  PROVE  UNCHANGED SupervisionView
<1> USE DEF ManagerInv
<1>1. CASE Sync
  <2>1. \A n \in Finished : runtimes[n] # None => ~Alive(runtimes[n])
    BY DEF Finished
  <2>2. \A n \in Names : Runs(Collected(Finished), n) <=> Runs(tasks, n)
    BY <2>1, PoppedLinked DEF Finished
  <2> QED BY <1>1, <2>2, SameView DEF Sync, database
<1>2. CASE Claim
  <2>1. /\ mpc # "off" /\ mpc' # "off" /\ tasks' = tasks
        /\ batch' = {i \in Ids : queue[i].status = "pending"}
        /\ queue' = [i \in Ids |-> IF i \in batch'
                        THEN [queue[i] EXCEPT !.status = "processing"] ELSE queue[i]]
    BY <1>2 DEF Claim
  <2>2. /\ queue \in Seq(Command) /\ Len(queue) \in Nat
        /\ \A i \in Ids : queue[i] \in Command
    BY CommandType DEF TypeOK
  <2>3. \A i \in Ids : [queue[i] EXCEPT !.status = "processing"] \in Command
    BY <2>2 DEF Command
  <2>4. queue' \in [1..Len(queue) -> Command]
    BY <2>1, <2>2, <2>3 DEF Ids
  <2>5. Len(queue') = Len(queue) /\ Ids' = Ids
    BY <2>2, <2>4 DEF Ids
  <2>6. \A i \in Ids :
          \/ queue'[i] = queue[i]
          \/ /\ queue[i].status = "pending"
             /\ queue'[i] = [queue[i] EXCEPT !.status = "processing"]
    BY <2>1
  <2>7. \A i \in Ids :
          /\ queue'[i].name = queue[i].name /\ queue'[i].type = queue[i].type
          /\ \A status \in {"done", "failed"} :
               queue'[i].status = status <=> queue[i].status = status
    BY <2>2, <2>6 DEF Command
  <2>8. Asked' = Asked
    BY <2>5, <2>7, AskedSame
  <2>9. \A status \in {"done", "failed"} : Settled(status)' = Settled(status)
    BY <2>5, <2>7 DEF Settled
  <2>10. Ran' = Ran
    BY <2>1, RanIs
  <2> QED BY <2>1, <2>8, <2>9, <2>10 DEF SupervisionView
<1>3. CASE PassOver \/ StopSignal
  BY <1>3, SameView DEF PassOver, StopSignal, database
<1> QED BY <1>1, <1>2, <1>3

\* A task begins, which makes no difference, or ends.
LEMMA TaskRefines ==
  ASSUME ManagerInv, NEW t \in TaskIds, TaskStep(t) \/ TaskDrained(t) \/ TaskFails(t)
  PROVE  Supervised!Next \/ UNCHANGED SupervisionView
<1> USE DEF ManagerInv
<1>1. /\ tasks[t] # None /\ UNCHANGED <<queue, mpc>>
      /\ tasks \in [TaskIds -> Task \cup {None}]
  BY DEF TaskStep, TaskBegins, TaskCancelled, TaskNeverRan, TaskDrained, TaskFails,
         TaskEnds, database, TypeOK
<1>2. PICK state \in {"running", "done"} :
        tasks' = [tasks EXCEPT ![t] = [tasks[t] EXCEPT !.state = state]]
  BY DEF TaskStep, TaskBegins, TaskCancelled, TaskNeverRan, TaskDrained, TaskFails,
         TaskEnds
<1>3. tasks[t].state # "done"
  BY DEF TaskStep, TaskBegins, TaskCancelled, TaskNeverRan, TaskDrained, TaskFails,
         TaskEnds
<1>4. /\ tasks'[t] # None /\ tasks'[t].name = tasks[t].name /\ tasks'[t].state = state
      /\ \A u \in TaskIds : u # t => tasks'[u] = tasks[u]
  BY <1>1, <1>2, TaskField
<1>5. CASE state = "running"
  <2>1. \A n \in Names : Runs(tasks', n) <=> Runs(tasks, n)
    BY <1>1, <1>3, <1>4, <1>5 DEF Runs
  <2> QED BY <1>1, <2>1, SameView
<1>6. CASE state = "done"
  <2> DEFINE name == tasks[t].name
  <2>1. name \in Names
    BY <1>1 DEF Task
  <2>2. \A u \in TaskIds : tasks[u] # None /\ tasks[u].name = name => u = t
    BY <1>1 DEF Linked
  <2>3. Runs(tasks, name) /\ ~Runs(tasks', name)
    BY <1>1, <1>3, <1>4, <1>6, <2>2 DEF Runs
  <2>4. \A n \in Names : n # name => (Runs(tasks', n) <=> Runs(tasks, n))
    BY <1>4 DEF Runs
  <2>5. name \in Ran /\ Ran' = Ran \ {name}
    BY <2>1, <2>3, <2>4, RanIs
  <2>6. Asked' = Asked /\ \A status \in {"done", "failed"} : Settled(status)' = Settled(status)
    BY <1>1 DEF Asked, Settled, Ids
  <2> QED BY <1>1, <2>5, <2>6 DEF Supervised!Next, Supervised!End
<1> QED BY <1>5, <1>6

\* Another process queues a command, or writes rows.
LEMMA ClientsRefine ==
  ASSUME ManagerInv, Clients
  PROVE  Supervised!Next \/ UNCHANGED SupervisionView
<1> USE DEF ManagerInv
<1>1. /\ UNCHANGED <<mpc, tasks>>
      /\ queue' = queue \/ \E name \in Names, type \in Types : Submit(name, type)
  BY DEF Clients, ApiRequest, ApiEnable, CommandLine, CommandLineRow, CommandLineDone,
         process, rows, Types
<1>2. CASE queue' = queue
  BY <1>1, <1>2, SameView
<1>3. ASSUME NEW name \in Names, NEW type \in Types, Submit(name, type)
      PROVE  Supervised!Next
  <2> DEFINE new == [name |-> name, type |-> type, status |-> "pending"]
             c == [name |-> name, type |-> type]
  <2>1. /\ queue \in Seq(Command) /\ Len(queue) \in Nat
        /\ \A i \in Ids : queue[i] \in Command
    BY CommandType DEF TypeOK
  <2>2. new \in Command
    BY DEF Command
  <2>3. /\ queue' \in Seq(Command) /\ Len(queue') = Len(queue) + 1
        /\ \A i \in Ids : queue'[i] = queue[i]
        /\ queue'[Len(queue) + 1] = new
    BY <1>3, <2>1, <2>2, AppendProperties DEF Submit, Ids
  <2>4. Ids' = Ids \cup {Len(queue) + 1} /\ Len(queue) + 1 \notin Ids
    BY <2>1, <2>3 DEF Ids
  <2>5. \A status \in {"done", "failed"} : Settled(status)' = Settled(status)
    BY <2>3, <2>4 DEF Settled
  <2>6. Asked' = Append(Asked, c)
    <3>1. Asked \in Seq(Order) /\ Len(Asked) = Len(queue) /\ c \in Order
      BY AskedIs DEF Order
    <3>2. /\ Append(Asked, c) \in Seq(Order) /\ Len(Append(Asked, c)) = Len(queue) + 1
          /\ \A i \in Ids : Append(Asked, c)[i] = Asked[i]
          /\ Append(Asked, c)[Len(queue) + 1] = c
      BY <2>1, <3>1, AppendProperties DEF Ids
    <3>3. Asked' = [i \in Ids' |-> [name |-> queue'[i].name, type |-> queue'[i].type]]
      BY DEF Asked
    <3>4. \A i \in Ids' : queue'[i] \in Command
      BY <2>3, ElementOfSeq DEF Ids
    <3>5. Asked' \in [1..Len(queue') -> Order]
      BY <3>3, <3>4 DEF Ids, Command, Order
    <3>6. Asked' \in Seq(Order) /\ Len(Asked') = Len(queue) + 1
      BY <2>1, <2>3, <3>5
    <3>7. \A i \in Ids : Asked'[i] = Asked[i]
      BY <2>3, <2>4, <3>3 DEF Asked
    <3>8. Asked'[Len(queue) + 1] = c
      BY <2>3, <2>4, <3>3
    <3>9. \A i \in 1..Len(Asked') : Asked'[i] = Append(Asked, c)[i]
      BY <2>1, <3>2, <3>6, <3>7, <3>8 DEF Ids
    <3> QED BY <3>2, <3>6, <3>9, SeqEqual
  <2>7. c \in Supervised!Command
    BY DEF Supervised!Command, Types
  <2>8. Ran' = Ran
    BY <1>1, RanIs
  <2> QED BY <1>1, <2>5, <2>6, <2>7, <2>8 DEF Supervised!Next, Supervised!Queue
<1> QED BY <1>1, <1>2, <1>3

\* The process comes up with the enabled strategies, and goes down with all.
LEMMA ProcessRefines ==
  ASSUME ManagerInv, ManagerInv', Boot \/ ShutdownDone \/ Forced \/ Crash
  PROVE  Supervised!Next
<1> USE DEF ManagerInv
<1>0. /\ UNCHANGED queue
      /\ Asked' = Asked /\ \A status \in {"done", "failed"} : Settled(status)' = Settled(status)
  BY DEF Boot, ShutdownDone, Forced, Crash, database, Asked, Settled, Ids
<1>1. CASE Boot
  <2>1. mpc = "off" /\ mpc' = "head"
    BY <1>1 DEF Boot
  <2>2. Ran = {}
    BY <2>1, NotRun, RanIs DEF Phases
  <2>3. runtimes' = [n \in Names |-> IF n \in Enabled THEN slot[n] ELSE None]
    BY <1>1 DEF Boot
  <2>4. \A n \in Names \ Enabled : ~Runs(tasks', n)
    BY <2>3, NotRun
  <2>5. ASSUME NEW n \in Enabled PROVE n \in Names /\ Runs(tasks', n)
    <3>1. n \in Names /\ slot[n] \in TaskIds
      BY SlotInjective, NamesAssumption
    <3>2. (CHOOSE m \in Enabled : slot[m] = slot[n]) = n
      BY SlotInjective
    <3>3. tasks'[slot[n]] = NewTask(n)
      BY <1>1, <3>1, <3>2 DEF Boot
    <3>4. NewTask(n) # None /\ NewTask(n).state # "done" /\ NewTask(n).name = n
      BY <3>1, NoneAssumption DEF NewTask, Task
    <3> QED BY <3>1, <3>3, <3>4 DEF Runs
  <2>6. Ran' = Enabled
    BY <2>4, <2>5, RanIs
  <2> QED BY <1>0, <2>1, <2>2, <2>6 DEF Supervised!Next, Supervised!ComeUp
<1>2. CASE ShutdownDone \/ Forced \/ Crash
  <2>1. mpc # "off" /\ mpc' = "off" /\ tasks' = [t \in TaskIds |-> None]
    BY <1>2 DEF ShutdownDone, Forced, Crash, Off
  <2>2. Ran' = {}
    BY <2>1, RanIs DEF Runs
  <2> QED BY <1>0, <2>1, <2>2 DEF Supervised!Next, Supervised!GoDown
<1> QED BY <1>1, <1>2

LEMMA NextRefines ==
  ASSUME ManagerInv, ManagerInv', [Next]_vars
  PROVE  [Supervised!Next]_SupervisionView
<1>1. CASE Next
  BY <1>1, ClientsRefine, ProcessRefines, TaskRefines, CommandRefines, AskingRefines,
     PassRefines DEF Next, ManagerStep
<1>2. CASE UNCHANGED vars
  BY <1>2, SameView DEF vars, database, process, ManagerInv
<1> QED BY <1>1, <1>2

\* A loop begins only with the manager or by a command for its strategy, and commands
\* take effect once, in the order of queueing, with the effect that is reported.
THEOREM ManagerImplementsSupervision == Spec => ImplementsSupervision
<1>1. Init => Supervised!Init
  <2> SUFFICES ASSUME Init PROVE Supervised!Init
    OBVIOUS
  <2>1. Ids = {} /\ Asked = <<>> /\ \A status \in {"done", "failed"} : Settled(status) = {}
    BY DEF Init, Ids, Asked, Settled
  <2>2. Ran = {} /\ mpc = "off"
    BY RanIs DEF Init, Runs
  <2> QED BY <2>1, <2>2 DEF Supervised!Init
<1>2. ManagerInv /\ [Next]_vars => ManagerInv'
  BY ManagerNext
<1>3. ManagerInv /\ ManagerInv' /\ [Next]_vars => [Supervised!Next]_SupervisionView
  BY NextRefines
<1> QED BY <1>1, <1>2, <1>3, ManagerInvariance, PTL
       DEF Spec, ImplementsSupervision, Supervised!Spec, SupervisionView
============================================================================
