------------------------------ MODULE Supervision ------------------------------
(***************************************************************************)
(* What the strategy manager promises to those who queue commands: a       *)
(* strategy is run when the manager comes up or by a command for it, and    *)
(* each command takes effect at most once, in the order of queueing, with   *)
(* the effect that its outcome reports.  StrategyManager implements this    *)
(* specification.                                                          *)
(***************************************************************************)
EXTENDS Naturals, Sequences

CONSTANTS
  Names,       \* names of strategies that commands may carry
  Configured,  \* the strategies that there are
  Enabled      \* those that run when the manager comes up

VARIABLES
  up,        \* the manager is running
  running,   \* the strategies that are run
  commands,  \* the commands queued so far
  done,      \* places of those that were carried out
  failed     \* places of those that were refused

Command == [name: Names, type: {"enable", "drain", "force", "restart"}]

Init ==
  /\ up = FALSE /\ running = {}
  /\ commands = <<>> /\ done = {} /\ failed = {}

Queue ==
  /\ \E c \in Command : commands' = Append(commands, c)
  /\ UNCHANGED <<up, running, done, failed>>

ComeUp ==
  /\ ~up /\ running = {}
  /\ up' = TRUE
  /\ running' = Enabled
  /\ UNCHANGED <<commands, done, failed>>

\* The next command is younger than all that were carried out or refused.
Due(i) ==
  /\ up
  /\ i \in 1..Len(commands)
  /\ \A j \in done \cup failed : j < i

\* An enable starts the strategy, or finds it started: then it may have ended.
Starts(c) ==
  /\ c.type = "enable"
  /\ \/ c.name \in Configured /\ running' = running \cup {c.name}
     \/ UNCHANGED running

Stops(c) ==
  /\ c.type \in {"drain", "force"}
  /\ c.name \notin running
  /\ UNCHANGED running

\* What is restarted had ended.
Restarts(c) ==
  /\ c.type = "restart"
  /\ c.name \in Configured \ running
  /\ running' = running \cup {c.name}

CarryOut(i) ==
  /\ Due(i)
  /\ Starts(commands[i]) \/ Stops(commands[i]) \/ Restarts(commands[i])
  /\ done' = done \cup {i}
  /\ UNCHANGED <<up, commands, failed>>

\* Only what is not configured is refused.
Refuse(i) ==
  /\ Due(i)
  /\ commands[i].type \in {"enable", "restart"}
  /\ commands[i].name \notin Configured \cup running
  /\ failed' = failed \cup {i}
  /\ UNCHANGED <<up, running, commands, done>>

\* The loop of a strategy ends: it was stopped, or it has failed.
End ==
  /\ \E n \in running : running' = running \ {n}
  /\ UNCHANGED <<up, commands, done, failed>>

GoDown ==
  /\ up
  /\ up' = FALSE
  /\ running' = {}
  /\ UNCHANGED <<commands, done, failed>>

Next ==
  \/ Queue \/ ComeUp \/ End \/ GoDown
  \/ \E i \in 1..Len(commands) : CarryOut(i) \/ Refuse(i)

Spec == Init /\ [][Next]_<<up, running, commands, done, failed>>
=============================================================================
