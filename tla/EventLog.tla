-------------------------------- MODULE EventLog --------------------------------
(***************************************************************************)
(* What the journal of a run promises, whatever the queue, the batches and *)
(* the connection do: durable events stay durable, they become so in the   *)
(* order in which they were saved and at most once; without a loss there   *)
(* is no gap; and a journal that was stopped in time is complete and final. *)
(* PgJournal implements this specification.                                *)
(***************************************************************************)
EXTENDS Naturals, Sequences

VARIABLES
  saved,   \* how many events were saved; an event is its number
  log,     \* the durable events
  intact,  \* no event was refused or lost so far
  phase    \* open, flushed (stopped in time), abandoned (it was not)

Init == saved = 0 /\ log = <<>> /\ intact = TRUE /\ phase = "open"

\* Something is lost, or not.
Loss == intact' \in {intact, FALSE}

Save ==
  /\ phase = "open"
  /\ saved' = saved + 1
  /\ Loss
  /\ UNCHANGED <<log, phase>>

Lose ==
  /\ phase # "flushed"
  /\ intact' = FALSE
  /\ UNCHANGED <<saved, log, phase>>

\* The log is prolonged by events that follow its last one.
Persist ==
  /\ phase # "flushed"
  /\ Len(log') > Len(log)
  /\ \A i \in 1..Len(log) : log'[i] = log[i]
  /\ \A i \in 1..Len(log') : log'[i] \in 1..saved /\ (intact => log'[i] = i)
  /\ \A i, j \in 1..Len(log') : i < j => log'[i] < log'[j]
  /\ Loss
  /\ UNCHANGED <<saved, phase>>

\* The worker is through with everything it was given.
Flush ==
  /\ phase = "open"
  /\ intact => Len(log) = saved
  /\ phase' = "flushed"
  /\ UNCHANGED <<saved, log, intact>>

\* Nobody waits for the worker any more, or the process is gone.
Abandon ==
  /\ phase = "open"
  /\ phase' = "abandoned"
  /\ Loss
  /\ UNCHANGED <<saved, log>>

Next == Save \/ Lose \/ Persist \/ Flush \/ Abandon

Spec == Init /\ [][Next]_<<saved, log, intact, phase>>
=============================================================================
