-------------------------- MODULE PgJournalProofs --------------------------
(***************************************************************************)
(* Theorems about PgJournal, for every size of the queue and of a batch    *)
(* and any number of events and faults.                                    *)
(*                                                                         *)
(* The invariant follows an event on its way from the queue into the       *)
(* worker's hands, the open transaction and the database:                  *)
(*  - Ordered: along this way the events are in the order of saving, and   *)
(*    so is the count of pending writes, which a rollback does not reset;  *)
(*  - Course: the sentinel is saved last, and what is saved when;          *)
(*  - Contiguous: without a fault or a drop no event is missing.           *)
(***************************************************************************)
EXTENDS PgJournal, SequenceTheorems, TLAPS

Increasing(s) == \A i, j \in 1..Len(s) : i < j => s[i] < s[j]

\* The event or count m is earlier than everything the worker has still to write.
Behind(m) ==
  /\ m <= Len(saved)
  /\ item # None => m < item
  /\ \A k \in 1..Len(queue) : queue[k] # Sentinel => m < queue[k]

Ordered ==
  /\ Increasing(committed) /\ Increasing(batch)
  /\ \A i \in 1..Len(committed), j \in 1..Len(batch) : committed[i] < batch[j]
  /\ \A i \in 1..Len(committed) : Behind(committed[i])
  /\ \A i \in 1..Len(batch) : Behind(batch[i])
  /\ Behind(pending)
  /\ item # None =>
       /\ item <= Len(saved)
       /\ \A k \in 1..Len(queue) : queue[k] # Sentinel => item < queue[k]
  /\ \A k \in 1..Len(queue) : queue[k] <= Len(saved)
  /\ \A i, j \in 1..Len(queue) : i < j =>
       queue[i] # Sentinel /\ (queue[j] # Sentinel => queue[i] < queue[j])

\* The caller has sent the sentinel, or has given up.
Stopping == caller \in {"joining", "stopped", "failed"}

Course ==
  /\ \A k \in 1..Len(queue) : queue[k] = Sentinel => Stopping
  /\ wpc = "final" => Stopping
  /\ dropped <= Len(saved) + IF Stopping THEN 1 ELSE 0
  /\ caller = "new" => saved = <<>> /\ queue = <<>> /\ wpc = "none"
  /\ caller # "new" => saved # <<>>
  /\ timedOut => caller = "stopped"
  /\ caller = "stopped" /\ ~timedOut => wpc = "closed"
  /\ saved # <<>> => saved[1] = "start"
  /\ \A k \in 1..Len(saved) :
       saved[k] = "result" => \E m \in 1..(k - 1) : saved[m] = "open"

Clean == faults = 0 /\ dropped = 0

InHand == IF item = None THEN 0 ELSE 1

\* The events that have left the queue.
Taken == Len(committed) + Len(batch) + InHand

Contiguous == Clean =>
  /\ \A i \in 1..Len(committed) : committed[i] = i
  /\ wpc # "closed" =>
       /\ \A i \in 1..Len(batch) : batch[i] = Len(committed) + i
       /\ item # None => item = Len(committed) + Len(batch) + 1
       /\ \A i \in 1..Len(queue) : queue[i] # Sentinel => queue[i] = Taken + i
       /\ caller \in {"new", "opening", "open", "finished"} =>
            Taken + Len(queue) = Len(saved)
       /\ caller \in {"joining", "stopped"} /\ wpc # "final" =>
            /\ Taken + Len(queue) = Len(saved) + 1
            /\ queue # <<>> /\ queue[Len(queue)] = Sentinel
       /\ caller \in {"joining", "stopped"} /\ wpc = "final" =>
            Taken = Len(saved)
       /\ wpc \in {"get", "write", "commit", "final"} => conn = "ok"
  /\ wpc = "closed" =>
       /\ Stopping
       /\ caller \in {"joining", "stopped"} /\ ~timedOut =>
            Len(committed) = Len(saved)

JournalInv == JournalTypeOK /\ Ordered /\ Course /\ Contiguous

---------------------------------------------------------------------------
(* The queue.                                                              *)

\* An item joins the end of the queue, or is dropped and counted.
Joins(x) ==
  \/ /\ queue' = queue /\ dropped' = dropped + 1
  \/ /\ dropped' = dropped
     /\ queue' \in Seq(0..MaxSaves)
     /\ Len(queue') = Len(queue) + 1 /\ Len(queue') <= QueueSize
     /\ \A i \in 1..Len(queue) : queue'[i] = queue[i]
     /\ queue'[Len(queue) + 1] = x

LEMMA EnqueueJoins ==
  ASSUME JournalTypeOK, NEW x \in 0..MaxSaves, Enqueue(x)
  PROVE  Joins(x)
<1>1. CASE Len(queue) < QueueSize
  <2>1. queue \in Seq(0..MaxSaves) /\ Len(queue) \in Nat /\ QueueSize \in Nat
    BY JournalBounds DEF JournalTypeOK
  <2>2. queue' = Append(queue, x) /\ dropped' = dropped
    BY <1>1 DEF Enqueue
  <2>3. /\ queue' \in Seq(0..MaxSaves)
        /\ Len(queue') = Len(queue) + 1
        /\ \A i \in 1..Len(queue) : queue'[i] = queue[i]
        /\ queue'[Len(queue) + 1] = x
    BY <2>1, <2>2, AppendProperties
  <2> QED BY <1>1, <2>1, <2>2, <2>3 DEF Joins
<1>2. CASE ~(Len(queue) < QueueSize)
  BY <1>2 DEF Enqueue, Joins
<1> QED BY <1>1, <1>2

\* What the types say of the sequences and the numbers.
LEMMA Sizes ==
  ASSUME JournalTypeOK
  PROVE  /\ Len(saved) \in Nat /\ Len(queue) \in Nat
         /\ Len(batch) \in Nat /\ Len(committed) \in Nat
         /\ MaxSaves \in Nat /\ Len(saved) <= MaxSaves
         /\ \A i \in 1..Len(queue) : queue[i] \in 0..MaxSaves
         /\ \A i \in 1..Len(batch) : batch[i] \in 1..MaxSaves
         /\ \A i \in 1..Len(committed) : committed[i] \in 1..MaxSaves
         /\ \A i \in 1..Len(saved) : saved[i] \in Kinds
         /\ item \in Nat /\ (item # None => item \in 1..MaxSaves)
         /\ pending \in Nat /\ dropped \in Nat /\ faults \in Nat
<1>1. /\ saved \in Seq(Kinds) /\ queue \in Seq(0..MaxSaves)
      /\ batch \in Seq(1..MaxSaves) /\ committed \in Seq(1..MaxSaves)
  BY DEF JournalTypeOK
<1>2. MaxSaves \in Nat
  BY JournalBounds
<1>3. /\ Len(saved) \in Nat /\ Len(queue) \in Nat
      /\ Len(batch) \in Nat /\ Len(committed) \in Nat
  BY <1>1
<1>4. /\ \A i \in 1..Len(queue) : queue[i] \in 0..MaxSaves
      /\ \A i \in 1..Len(batch) : batch[i] \in 1..MaxSaves
      /\ \A i \in 1..Len(committed) : committed[i] \in 1..MaxSaves
      /\ \A i \in 1..Len(saved) : saved[i] \in Kinds
  BY <1>1, ElementOfSeq
<1> QED BY <1>2, <1>3, <1>4 DEF JournalTypeOK, None

\* An event is saved and joins the queue.
LEMMA SavesTypes ==
  ASSUME JournalTypeOK, NEW kind \in Kinds, Saves(kind)
  PROVE  /\ Joins(Len(saved) + 1)
         /\ saved' \in Seq(Kinds) /\ Len(saved') = Len(saved) + 1
         /\ Len(saved') <= MaxSaves
         /\ \A i \in 1..Len(saved) : saved'[i] = saved[i]
         /\ saved'[Len(saved) + 1] = kind
<1>1. Len(saved) + 1 \in 0..MaxSaves
  BY Sizes DEF Saves
<1>2. Joins(Len(saved) + 1)
  BY <1>1, EnqueueJoins DEF Saves
<1>3. saved \in Seq(Kinds) /\ saved' = Append(saved, kind)
  BY DEF JournalTypeOK, Saves
<1>4. /\ saved' \in Seq(Kinds) /\ Len(saved') = Len(saved) + 1
      /\ \A i \in 1..Len(saved) : saved'[i] = saved[i]
      /\ saved'[Len(saved) + 1] = kind
  BY <1>3, AppendProperties
<1> QED BY <1>1, <1>2, <1>4, Sizes

---------------------------------------------------------------------------
(* The executor's side.                                                    *)

\* The newest event, or the sentinel, is ordered behind all that is on its way.
LEMMA JoinOrdered ==
  ASSUME JournalTypeOK, Ordered, NEW x \in Nat, Joins(x),
         UNCHANGED <<item, batch, committed, pending>>,
         \A k \in 1..Len(queue) : queue[k] # Sentinel,
         \/ x = Sentinel /\ Len(saved') = Len(saved)
         \/ x = Len(saved) + 1 /\ Len(saved') = Len(saved) + 1
  PROVE  Ordered'
<1> USE DEF Sentinel
<1>1. /\ Len(saved) \in Nat /\ Len(queue) \in Nat
      /\ Len(saved') \in Nat /\ Len(saved) <= Len(saved')
      /\ x = Sentinel \/ (Len(saved) < x /\ x <= Len(saved'))
  BY Sizes
<1>2. /\ \A k \in 1..Len(queue) : queue[k] \in Nat /\ queue[k] <= Len(saved)
      /\ item \in Nat /\ pending \in Nat
      /\ \A i \in 1..Len(committed) : committed[i] \in Nat
      /\ \A i \in 1..Len(batch) : batch[i] \in Nat
  <2>1. \A k \in 1..Len(queue) : queue[k] \in Nat
    BY Sizes
  <2>2. item \in Nat /\ pending \in Nat
    BY Sizes
  <2>3. \A i \in 1..Len(committed) : committed[i] \in Nat
    BY Sizes
  <2>4. \A i \in 1..Len(batch) : batch[i] \in Nat
    BY Sizes
  <2>5. \A k \in 1..Len(queue) : queue[k] <= Len(saved)
    BY DEF Ordered
  <2> QED BY <2>1, <2>2, <2>3, <2>4, <2>5
<1>3. /\ item # None => /\ item <= Len(saved)
                        /\ \A k \in 1..Len(queue) : item < queue[k]
      /\ \A i, j \in 1..Len(queue) : i < j => queue[i] < queue[j]
      /\ \A i \in 1..Len(committed) : Behind(committed[i])
      /\ \A i \in 1..Len(batch) : Behind(batch[i])
      /\ Behind(pending)
  BY DEF Ordered
\* Every item of the new queue is an old one or the newcomer.
<1>4. ASSUME NEW k \in 1..Len(queue')
      PROVE  \/ k \in 1..Len(queue) /\ queue'[k] = queue[k]
             \/ k = Len(queue) + 1 /\ queue'[k] = x
  <2>1. CASE queue' = queue
    BY <2>1
  <2>2. CASE queue' # queue
    <3>1. /\ Len(queue') = Len(queue) + 1
          /\ \A i \in 1..Len(queue) : queue'[i] = queue[i]
          /\ queue'[Len(queue) + 1] = x
      BY <2>2 DEF Joins
    <3>2. k \in 1..Len(queue) \/ k = Len(queue) + 1
      BY <1>1, <3>1
    <3> QED BY <3>1, <3>2
  <2> QED BY <2>1, <2>2
<1>5. ASSUME NEW m \in Nat, Behind(m) PROVE Behind(m)'
  <2>1. m <= Len(saved) /\ (item # None => m < item)
        /\ \A k \in 1..Len(queue) : m < queue[k]
    BY <1>5 DEF Behind
  <2>2. m <= Len(saved') /\ (item' # None => m < item')
    BY <1>1, <2>1
  <2>3. ASSUME NEW k \in 1..Len(queue'), queue'[k] # Sentinel PROVE m < queue'[k]
    BY <1>1, <1>4, <2>1, <2>3
  <2> QED BY <2>2, <2>3 DEF Behind
<1>6. /\ \A i \in 1..Len(committed) : Behind(committed[i])'
      /\ \A i \in 1..Len(batch) : Behind(batch[i])'
      /\ Behind(pending)'
  BY <1>2, <1>3, <1>5
<1>7. item' # None =>
        /\ item' <= Len(saved')
        /\ \A k \in 1..Len(queue') : queue'[k] # Sentinel => item' < queue'[k]
  <2>1. item # None => item <= Len(saved')
    BY <1>1, <1>2, <1>3
  <2>2. ASSUME item # None, NEW k \in 1..Len(queue'), queue'[k] # Sentinel
        PROVE  item < queue'[k]
    BY <1>1, <1>2, <1>3, <1>4, <2>2
  <2> QED BY <2>1, <2>2
<1>8. \A k \in 1..Len(queue') : queue'[k] <= Len(saved')
  BY <1>1, <1>2, <1>4
<1>9. ASSUME NEW i \in 1..Len(queue'), NEW j \in 1..Len(queue'), i < j
      PROVE  queue'[i] # Sentinel /\ (queue'[j] # Sentinel => queue'[i] < queue'[j])
  <2>1. i \in 1..Len(queue) /\ queue'[i] = queue[i] /\ queue[i] # Sentinel
    BY <1>1, <1>4, <1>9
  <2>2. CASE j \in 1..Len(queue) /\ queue'[j] = queue[j]
    BY <1>3, <1>9, <2>1, <2>2
  <2>3. CASE j = Len(queue) + 1 /\ queue'[j] = x
    BY <1>1, <1>2, <2>1, <2>3
  <2> QED BY <1>4, <2>2, <2>3, <2>1
<1>10. /\ Increasing(committed)' /\ Increasing(batch)'
       /\ \A i \in 1..Len(committed'), j \in 1..Len(batch') : committed'[i] < batch'[j]
  BY DEF Ordered, Increasing
<1> QED BY <1>6, <1>7, <1>8, <1>9, <1>10 DEF Ordered

\* An event that is saved while the executor runs keeps the invariant.
LEMMA SavesInv ==
  ASSUME JournalInv, NEW kind \in Kinds, Saves(kind), caller \in {"new", "open"},
         caller = "new" <=> kind = "start",
         kind = "result" => "open" \in Elements(saved),
         caller' \in {"opening", "open", "finished"},
         wpc' = wpc \/ (wpc = "none" /\ wpc' = "connect"),
         UNCHANGED <<timedOut, runKnown, item, batch, pending, conn, committed, faults>>
  PROVE  JournalInv'
<1> USE DEF JournalInv
<1>1. /\ Joins(Len(saved) + 1)
      /\ saved' \in Seq(Kinds) /\ Len(saved') = Len(saved) + 1
      /\ Len(saved') <= MaxSaves
      /\ \A i \in 1..Len(saved) : saved'[i] = saved[i]
      /\ saved'[Len(saved) + 1] = kind
  BY SavesTypes
<1>2. Len(saved) \in Nat /\ Len(queue) \in Nat /\ dropped \in Nat /\ MaxSaves \in Nat
  BY Sizes
<1>3. ~Stopping /\ ~Stopping'
  BY DEF Stopping
<1>4. dropped <= Len(saved)
  BY <1>2, <1>3 DEF Course
<1>5. \A k \in 1..Len(queue) : queue[k] # Sentinel
  BY <1>3 DEF Course
<1>6. JournalTypeOK'
  <2>1. dropped' \in 0..(MaxSaves + 1)
    BY <1>1, <1>2, <1>4 DEF Joins
  <2>2. queue' \in Seq(0..MaxSaves) /\ Len(queue') <= QueueSize
    BY <1>1 DEF Joins, JournalTypeOK
  <2> QED BY <1>1, <2>1, <2>2 DEF JournalTypeOK
<1>7. Ordered'
  BY <1>1, <1>2, <1>5, JoinOrdered
<1>8. Course'
  <2>1. \A k \in 1..Len(queue') : queue'[k] # Sentinel
    BY <1>1, <1>2, <1>5 DEF Joins, Sentinel
  <2>2. dropped' <= Len(saved')
    BY <1>1, <1>2, <1>4 DEF Joins
  <2>3. saved' # <<>> /\ saved'[1] = "start"
    <3>1. CASE caller = "new"
      <4>1. Len(saved) = 0 /\ kind = "start"
        BY <3>1 DEF Course
      <4> QED BY <1>1, <4>1
    <3>2. CASE caller # "new"
      <4>1. saved # <<>> /\ saved[1] = "start" /\ 1 \in 1..Len(saved)
        BY <1>2, <3>2 DEF Course, JournalTypeOK
      <4> QED BY <1>1, <1>2, <4>1
    <3> QED BY <3>1, <3>2
  <2>4. ASSUME NEW k \in 1..Len(saved'), saved'[k] = "result"
        PROVE  \E m \in 1..(k - 1) : saved'[m] = "open"
    <3>1. CASE k \in 1..Len(saved)
      <4>1. PICK m \in 1..(k - 1) : saved[m] = "open"
        BY <1>1, <2>4, <3>1 DEF Course
      <4>2. m \in 1..Len(saved)
        BY <1>2, <3>1, <4>1
      <4> QED BY <1>1, <4>1, <4>2
    <3>2. CASE k \notin 1..Len(saved)
      <4>1. k = Len(saved) + 1
        BY <1>1, <1>2, <3>2
      <4>2. "open" \in Elements(saved) /\ DOMAIN saved = 1..Len(saved)
        BY <1>1, <2>4, <4>1 DEF JournalTypeOK
      <4>3. PICK m \in 1..Len(saved) : saved[m] = "open"
        BY <4>2 DEF Elements
      <4> QED BY <1>1, <1>2, <4>1, <4>3
    <3> QED BY <3>1, <3>2
  <2>5. wpc' # "final" /\ caller' # "new"
    BY <1>3 DEF Course
  <2> QED BY <1>2, <2>1, <2>2, <2>3, <2>4, <2>5 DEF Course, Stopping
<1>9. Contiguous'
  <2> SUFFICES ASSUME Clean' PROVE Contiguous'
    BY DEF Contiguous
  <2>1. Clean /\ queue' # queue
    BY <1>1, <1>2 DEF Clean, Joins
  <2>2. wpc # "closed" /\ wpc' # "closed" /\ wpc' # "final"
    BY <1>3, <2>1 DEF Contiguous, Course
  <2>3. /\ Len(queue') = Len(queue) + 1
        /\ \A i \in 1..Len(queue) : queue'[i] = queue[i]
        /\ queue'[Len(queue) + 1] = Len(saved) + 1
    BY <1>1, <2>1 DEF Joins
  <2>4. Taken' = Taken /\ Taken \in Nat /\ Taken + Len(queue) = Len(saved)
    BY <2>1, <2>2, Sizes DEF Taken, InHand, Contiguous
  <2>5. \A i \in 1..Len(queue') : queue'[i] = Taken + i
    <3>1. \A i \in 1..Len(queue) : queue[i] = Taken + i
      BY <1>5, <2>1, <2>2 DEF Contiguous
    <3> QED BY <1>2, <2>3, <2>4, <3>1
  <2>6. Taken' + Len(queue') = Len(saved')
    BY <1>1, <1>2, <2>3, <2>4
  <2>7. /\ \A i \in 1..Len(committed) : committed[i] = i
        /\ \A i \in 1..Len(batch) : batch[i] = Len(committed) + i
        /\ item # None => item = Len(committed) + Len(batch) + 1
        /\ wpc' \in {"get", "write", "commit", "final"} => conn = "ok"
    BY <2>1, <2>2 DEF Contiguous
  <2> QED BY <2>2, <2>4, <2>5, <2>6, <2>7 DEF Contiguous, None
<1> QED BY <1>6, <1>7, <1>8, <1>9

\* The calls that save an event.
LEMMA SavingInv ==
  ASSUME JournalInv, StartRun \/ FinishRun \/ \E kind \in Kinds \ {"start"} : Save(kind)
  PROVE  JournalInv'
<1>1. CASE StartRun
  <2>1. /\ caller = "new" /\ caller' = "opening" /\ Saves("start") /\ wpc' = "connect"
        /\ UNCHANGED <<timedOut, runKnown, item, batch, pending, conn, committed, faults>>
    BY <1>1 DEF StartRun
  <2>2. wpc = "none"
    BY <2>1 DEF JournalInv, Course
  <2> QED BY <2>1, <2>2, SavesInv DEF Kinds
<1>2. CASE FinishRun
  <2>1. /\ caller = "open" /\ caller' = "finished" /\ Saves("update") /\ wpc' = wpc
        /\ UNCHANGED <<timedOut, runKnown, item, batch, pending, conn, committed, faults>>
    BY <1>2 DEF FinishRun, workerVars
  <2> QED BY <2>1, SavesInv DEF Kinds
<1>3. ASSUME NEW kind \in Kinds \ {"start"}, Save(kind)
      PROVE  JournalInv'
  <2>1. /\ caller = "open" /\ caller' = "open" /\ Saves(kind) /\ wpc' = wpc
        /\ kind = "result" => "open" \in Elements(saved)
        /\ UNCHANGED <<timedOut, runKnown, item, batch, pending, conn, committed, faults>>
    BY <1>3 DEF Save, workerVars
  <2> QED BY <2>1, SavesInv
<1> QED BY <1>1, <1>2, <1>3

\* The sentinel is sent after everything else.
LEMMA StopInv ==
  ASSUME JournalInv, Stop
  PROVE  JournalInv'
<1> USE DEF JournalInv
<1>1. /\ caller = "finished" /\ caller' = "joining" /\ Enqueue(Sentinel)
      /\ UNCHANGED <<saved, timedOut, runKnown, wpc, item, batch, pending, conn, committed,
                     faults>>
  BY DEF Stop, workerVars
<1>2. Len(saved) \in Nat /\ Len(queue) \in Nat /\ dropped \in Nat /\ MaxSaves \in Nat
      /\ Len(saved) <= MaxSaves
  BY Sizes
<1>3. Joins(Sentinel)
  BY <1>1, <1>2, EnqueueJoins DEF Sentinel
<1>4. ~Stopping /\ Stopping'
  BY <1>1 DEF Stopping
<1>5. /\ \A k \in 1..Len(queue) : queue[k] # Sentinel
      /\ dropped <= Len(saved) /\ wpc # "final"
  BY <1>2, <1>4 DEF Course
<1>6. JournalTypeOK'
  <2>1. dropped' \in 0..(MaxSaves + 1)
    BY <1>2, <1>3, <1>5 DEF Joins
  <2>2. queue' \in Seq(0..MaxSaves) /\ Len(queue') <= QueueSize
    BY <1>3 DEF Joins, JournalTypeOK
  <2> QED BY <1>1, <2>1, <2>2 DEF JournalTypeOK
<1>7. Ordered'
  BY <1>1, <1>3, <1>5, JoinOrdered DEF Sentinel
<1>8. Course'
  <2>1. dropped' <= Len(saved') + 1
    BY <1>1, <1>2, <1>3, <1>5 DEF Joins
  <2> QED BY <1>1, <1>4, <1>5, <2>1 DEF Course
<1>9. Contiguous'
  <2> SUFFICES ASSUME Clean' PROVE Contiguous'
    BY DEF Contiguous
  <2>1. Clean /\ queue' # queue
    BY <1>1, <1>2, <1>3 DEF Clean, Joins
  <2>2. wpc # "closed" /\ wpc' = wpc
    BY <1>1, <1>4, <2>1 DEF Contiguous
  <2>3. /\ Len(queue') = Len(queue) + 1
        /\ \A i \in 1..Len(queue) : queue'[i] = queue[i]
        /\ queue'[Len(queue')] = Sentinel
    BY <1>2, <1>3, <2>1 DEF Joins
  <2>4. Taken' = Taken /\ Taken \in Nat /\ Taken + Len(queue) = Len(saved)
    BY <1>1, <2>1, <2>2, Sizes DEF Taken, InHand, Contiguous
  <2>5. \A i \in 1..Len(queue') : queue'[i] # Sentinel => queue'[i] = Taken + i
    <3>1. \A i \in 1..Len(queue) : queue[i] = Taken + i
      BY <1>5, <2>1, <2>2 DEF Contiguous
    <3> QED BY <1>2, <2>3, <2>4, <3>1
  <2>6. Taken' + Len(queue') = Len(saved') + 1 /\ queue' # <<>>
    BY <1>1, <1>2, <2>3, <2>4
  <2>7. /\ \A i \in 1..Len(committed) : committed[i] = i
        /\ \A i \in 1..Len(batch) : batch[i] = Len(committed) + i
        /\ item # None => item = Len(committed) + Len(batch) + 1
        /\ wpc \in {"get", "write", "commit", "final"} => conn = "ok"
    BY <2>1, <2>2 DEF Contiguous
  <2> QED BY <1>1, <1>5, <2>2, <2>3, <2>4, <2>5, <2>6, <2>7 DEF Contiguous, None
<1> QED BY <1>6, <1>7, <1>8, <1>9

\* The caller gets the run_id or waits no longer.
LEMMA CallerInv ==
  ASSUME JournalInv, RunStarted \/ StartTimesOut \/ StopReturns
  PROVE  JournalInv'
<1> USE DEF JournalInv
<1>1. UNCHANGED <<saved, queue, dropped, runKnown, wpc, item, batch, pending, conn,
                  committed, faults>>
  BY DEF RunStarted, StartTimesOut, StopReturns, workerVars
<1>2. \/ caller = "opening" /\ caller' \in {"open", "failed"} /\ timedOut' = timedOut
      \/ caller = "joining" /\ caller' = "stopped" /\ timedOut' = (wpc # "closed")
  BY DEF RunStarted, StartTimesOut, StopReturns
<1>3. JournalTypeOK'
  BY <1>1, <1>2 DEF JournalTypeOK
<1>4. Ordered'
  BY <1>1 DEF Ordered, Behind, Increasing
<1>5. Course'
  <2>1. Stopping => Stopping'
    BY <1>2 DEF Stopping
  <2>2. dropped' <= Len(saved') + IF Stopping' THEN 1 ELSE 0
    BY <1>1, <2>1, Sizes DEF Course
  <2>3. caller' = "stopped" /\ ~timedOut' => wpc' = "closed"
    BY <1>1, <1>2
  <2>4. /\ caller' # "new" /\ saved # <<>>
        /\ timedOut' => caller' = "stopped"
    BY <1>2 DEF Course
  <2> QED BY <1>1, <2>1, <2>2, <2>3, <2>4 DEF Course
<1>6. Contiguous'
  <2>1. caller = "joining" => ~timedOut
    BY DEF Course
  <2>2. Stopping => Stopping'
    BY <1>2 DEF Stopping
  <2>3. Clean' = Clean /\ Taken' = Taken
    BY <1>1 DEF Clean, Taken, InHand
  <2> QED BY <1>1, <1>2, <2>1, <2>2, <2>3 DEF Contiguous, Stopping
<1> QED BY <1>3, <1>4, <1>5, <1>6

---------------------------------------------------------------------------
(* The worker.                                                             *)

\* What no step of the worker touches.
WorkerKeeps == UNCHANGED <<saved, dropped, caller, timedOut>>

\* The worker ends, with or without what it has written.
Ends ==
  /\ wpc' = "closed" /\ conn' = "none" /\ item' = None /\ batch' = <<>>
  /\ UNCHANGED <<queue, pending>>
  /\ committed' = committed \/ committed' = committed \o batch

\* What a commit makes durable is in order.
LEMMA CommittedOrdered ==
  ASSUME JournalTypeOK, Ordered
  PROVE  LET c == committed \o batch
         IN /\ c \in Seq(1..MaxSaves) /\ Len(c) = Len(committed) + Len(batch)
            /\ \A i \in 1..Len(committed) : c[i] = committed[i]
            /\ \A i \in 1..Len(batch) : c[Len(committed) + i] = batch[i]
            /\ Increasing(c)
            /\ \A i \in 1..Len(c) : Behind(c[i])
<1> DEFINE c == committed \o batch
<1>1. committed \in Seq(1..MaxSaves) /\ batch \in Seq(1..MaxSaves)
  BY DEF JournalTypeOK
<1>2. Len(committed) \in Nat /\ Len(batch) \in Nat
  BY Sizes
<1>3. /\ c \in Seq(1..MaxSaves) /\ Len(c) = Len(committed) + Len(batch)
      /\ \A i \in 1..Len(c) :
           c[i] = IF i <= Len(committed) THEN committed[i] ELSE batch[i - Len(committed)]
  BY <1>1, ConcatProperties
<1> HIDE DEF c
<1>4. /\ \A i \in 1..Len(committed) : c[i] = committed[i]
      /\ \A i \in 1..Len(batch) : c[Len(committed) + i] = batch[i]
  BY <1>2, <1>3
<1>5. \A i \in 1..Len(c) :
        \/ i \in 1..Len(committed) /\ c[i] = committed[i]
        \/ i - Len(committed) \in 1..Len(batch) /\ c[i] = batch[i - Len(committed)]
  BY <1>2, <1>3
<1>6. Increasing(c)
  <2> SUFFICES ASSUME NEW i \in 1..Len(c), NEW j \in 1..Len(c), i < j PROVE c[i] < c[j]
    BY DEF Increasing
  <2>1. CASE j \in 1..Len(committed)
    BY <1>2, <1>3, <1>4, <2>1 DEF Ordered, Increasing
  <2>2. CASE i \in 1..Len(committed) /\ j \notin 1..Len(committed)
    BY <1>2, <1>3, <1>5, <2>2 DEF Ordered
  <2>3. CASE i \notin 1..Len(committed)
    <3>1. /\ i - Len(committed) \in 1..Len(batch) /\ c[i] = batch[i - Len(committed)]
          /\ j - Len(committed) \in 1..Len(batch) /\ c[j] = batch[j - Len(committed)]
      BY <1>2, <1>3, <1>5, <2>3
    <3>2. i - Len(committed) < j - Len(committed)
      BY <1>2, <1>3
    <3> QED BY <3>1, <3>2 DEF Ordered, Increasing
  <2> QED BY <2>1, <2>2, <2>3
<1>7. \A i \in 1..Len(c) : Behind(c[i])
  BY <1>5 DEF Ordered
<1> QED BY <1>3, <1>4, <1>6, <1>7 DEF c

\* The order is kept when the open transaction is made durable or is dropped.
LEMMA SettledOrdered ==
  ASSUME JournalTypeOK, Ordered, UNCHANGED <<saved, queue>>,
         item' = item \/ item' = None, batch' = <<>>,
         committed' = committed \/ committed' = committed \o batch,
         pending' = pending \/ pending' = 0
  PROVE  Ordered' /\ committed' \in Seq(1..MaxSaves)
<1>1. /\ committed' \in Seq(1..MaxSaves) /\ Increasing(committed')
      /\ \A i \in 1..Len(committed') : Behind(committed'[i])
  <2>1. CASE committed' = committed
    BY <2>1 DEF Ordered, JournalTypeOK
  <2>2. CASE committed' = committed \o batch
    BY <2>2, CommittedOrdered
  <2> QED BY <2>1, <2>2
<1>2. /\ item \in Nat /\ pending \in Nat /\ Len(queue) \in Nat /\ Len(saved) \in Nat
      /\ \A k \in 1..Len(queue) : queue[k] \in Nat
  BY Sizes
<1>3. \A m \in Nat : Behind(m) =>
        /\ m <= Len(saved') /\ item' # None => m < item'
        /\ \A k \in 1..Len(queue') : queue'[k] # Sentinel => m < queue'[k]
  BY <1>2 DEF Behind
<1>4. Behind(0)
  BY <1>2 DEF Behind, Ordered, Sentinel
<1>5. \A i \in 1..Len(committed') : committed'[i] \in Nat
  <2>1. \A i \in 1..Len(committed') : committed'[i] \in 1..MaxSaves
    BY <1>1, ElementOfSeq
  <2> QED BY <2>1, JournalBounds
<1>6. \A i \in 1..Len(committed') : Behind(committed[i])'
  BY <1>1, <1>3, <1>5 DEF Behind
<1>7. Behind(pending)'
  <2>1. Behind(pending') /\ pending' \in Nat
    BY <1>2, <1>4 DEF Ordered
  <2> QED BY <1>3, <2>1 DEF Behind
<1>8. Len(batch') = 0
  OBVIOUS
<1>9. /\ item' # None =>
           /\ item' <= Len(saved')
           /\ \A k \in 1..Len(queue') : queue'[k] # Sentinel => item' < queue'[k]
      /\ \A k \in 1..Len(queue') : queue'[k] <= Len(saved')
      /\ \A i, j \in 1..Len(queue') : i < j =>
           queue'[i] # Sentinel /\ (queue'[j] # Sentinel => queue'[i] < queue'[j])
  BY DEF Ordered
<1> QED BY <1>1, <1>6, <1>7, <1>8, <1>9 DEF Ordered, Increasing

\* Without a fault or a drop, what is made durable is the next part of the run.
LEMMA CommittedContiguous ==
  ASSUME JournalTypeOK, Ordered, Contiguous, Clean, wpc # "closed"
  PROVE  \A i \in 1..Len(committed \o batch) : (committed \o batch)[i] = i
<1> DEFINE c == committed \o batch
<1>1. /\ Len(committed) \in Nat /\ Len(batch) \in Nat
      /\ Len(c) = Len(committed) + Len(batch)
      /\ \A i \in 1..Len(committed) : c[i] = committed[i]
      /\ \A i \in 1..Len(batch) : c[Len(committed) + i] = batch[i]
  BY Sizes, CommittedOrdered
<1>2. /\ \A i \in 1..Len(committed) : committed[i] = i
      /\ \A i \in 1..Len(batch) : batch[i] = Len(committed) + i
  BY DEF Contiguous
<1> HIDE DEF c
<1>3. ASSUME NEW i \in 1..Len(c) PROVE c[i] = i
  <2>1. CASE i \in 1..Len(committed)
    BY <1>1, <1>2, <2>1
  <2>2. CASE i \notin 1..Len(committed)
    <3>1. i - Len(committed) \in 1..Len(batch) /\ i = Len(committed) + (i - Len(committed))
      BY <1>1, <2>2
    <3> QED BY <1>1, <1>2, <3>1
  <2> QED BY <2>1, <2>2
<1> QED BY <1>3 DEF c

\* The worker ends, or is ended, keeping the promise of a stop.
LEMMA EndsInv ==
  ASSUME JournalInv, Ends, wpc # "none",
         UNCHANGED <<saved, dropped, timedOut>>, runKnown' \in BOOLEAN,
         caller' = caller \/ (caller' = "failed" /\ ~timedOut),
         faults' \in 0..MaxFaults,
         Clean' => /\ Clean /\ wpc # "closed" /\ caller' = caller /\ Stopping
                   /\ caller \in {"joining", "stopped"} /\ ~timedOut =>
                        wpc = "final" /\ committed' = committed \o batch
  PROVE  JournalInv'
<1> USE DEF JournalInv
<1>1. /\ wpc' = "closed" /\ conn' = "none" /\ item' = None /\ batch' = <<>>
      /\ queue' = queue /\ pending' = pending
      /\ committed' = committed \/ committed' = committed \o batch
  BY DEF Ends
<1>2. Ordered' /\ committed' \in Seq(1..MaxSaves)
  BY <1>1, SettledOrdered
<1>3. JournalTypeOK'
  <2>1. item' \in 1..None
    BY <1>1, JournalBounds DEF None
  <2>2. batch' \in Seq(1..MaxSaves) /\ Len(batch') = 0
    BY <1>1
  <2>3. pending' \in 0..MaxSaves /\ Len(batch') <= pending'
    BY <1>1, <2>2 DEF JournalTypeOK
  <2> QED BY <1>1, <1>2, <2>1, <2>2, <2>3 DEF JournalTypeOK
<1>4. Course'
  <2>1. caller # "new"
    BY DEF Course
  <2>2. Stopping => Stopping'
    BY DEF Stopping
  <2>3. dropped' <= Len(saved') + IF Stopping' THEN 1 ELSE 0
    BY <2>2, Sizes DEF Course
  <2> QED BY <1>1, <2>1, <2>2, <2>3 DEF Course
<1>5. Contiguous'
  <2> SUFFICES ASSUME Clean' PROVE Contiguous'
    BY DEF Contiguous
  <2>1. \A i \in 1..Len(committed') : committed'[i] = i
    BY <1>1, CommittedContiguous DEF Contiguous
  <2>2. ASSUME caller' \in {"joining", "stopped"}, ~timedOut'
        PROVE  Len(committed') = Len(saved')
    <3>1. /\ wpc = "final" /\ committed' = committed \o batch
          /\ caller \in {"joining", "stopped"}
      BY <2>2
    <3>2. Taken = Len(saved) /\ InHand = 0
      BY <3>1 DEF Contiguous, JournalTypeOK, InHand
    <3>3. Len(committed') = Len(committed) + Len(batch)
      BY <3>1, CommittedOrdered
    <3> QED BY <3>2, <3>3, Sizes DEF Taken
  <2>3. Stopping'
    BY DEF Stopping
  <2> QED BY <1>1, <2>1, <2>2, <2>3 DEF Contiguous
<1> QED BY <1>2, <1>3, <1>4, <1>5

\* A write is rolled back and the worker goes on.
Drops ==
  /\ wpc' = "get" /\ item' = None /\ batch' = <<>>
  /\ UNCHANGED <<queue, committed, pending, conn, runKnown>>

LEMMA DropInv ==
  ASSUME JournalInv, WorkerKeeps, Drops, wpc \in {"write", "commit"},
         faults' \in 0..MaxFaults, ~Clean'
  PROVE  JournalInv'
<1> USE DEF JournalInv, WorkerKeeps
<1>1. /\ wpc' = "get" /\ item' = None /\ batch' = <<>>
      /\ UNCHANGED <<queue, committed, pending, conn, runKnown>>
  BY DEF Drops
<1>2. Ordered'
  BY <1>1, SettledOrdered
<1>3. JournalTypeOK'
  <2>1. item' \in 1..None
    BY <1>1, JournalBounds DEF None
  <2>2. batch' \in Seq(1..MaxSaves) /\ Len(batch') = 0
    BY <1>1
  <2>3. Len(batch') <= pending'
    BY <1>1, <2>2 DEF JournalTypeOK
  <2> QED BY <1>1, <2>1, <2>2, <2>3 DEF JournalTypeOK
<1>4. Course'
  BY <1>1 DEF Course, Stopping
<1>5. Contiguous'
  BY DEF Contiguous
<1> QED BY <1>2, <1>3, <1>4, <1>5

\* A fault or a write that is refused after one.
LEMMA RollbackInv ==
  ASSUME JournalInv, WorkerKeeps, Rollback, wpc \in {"write", "commit"},
         UNCHANGED <<queue, committed>>, faults' \in 0..MaxFaults, ~Clean'
  PROVE  JournalInv'
<1>1. CASE conn = "broken"
  <2>1. Ends /\ runKnown' = runKnown
    BY <1>1 DEF Rollback, Close, Ends
  <2>2. runKnown \in BOOLEAN
    BY DEF JournalInv, JournalTypeOK
  <2> QED BY <2>1, <2>2, EndsInv DEF WorkerKeeps
<1>2. CASE conn # "broken"
  <2>1. Drops
    BY <1>2 DEF Rollback, Drops
  <2> QED BY <2>1, DropInv
<1> QED BY <1>1, <1>2

\* Without a fault or a drop the worker's next event finds all it names.
LEMMA CleanWriteAccepted ==
  ASSUME JournalInv, Clean, wpc = "write"
  PROVE  Accepted(item)
<1> USE DEF JournalInv
<1>1. /\ Len(committed) \in Nat /\ Len(batch) \in Nat /\ Len(saved) \in Nat
      /\ item \in Nat
  BY Sizes
<1>2. /\ conn = "ok" /\ item = Len(committed) + Len(batch) + 1
      /\ \A i \in 1..Len(committed) : committed[i] = i
      /\ \A i \in 1..Len(batch) : batch[i] = Len(committed) + i
  BY DEF Contiguous, JournalTypeOK
<1>3. item \in 1..Len(saved)
  BY <1>1, <1>2 DEF Ordered, JournalTypeOK
<1>4. DOMAIN committed = 1..Len(committed) /\ DOMAIN batch = 1..Len(batch)
  BY DEF JournalTypeOK
<1>5. ASSUME NEW m \in 1..(item - 1)
      PROVE  m \in Elements(batch) \cup Elements(committed)
  <2>1. CASE m <= Len(committed)
    <3>1. m \in 1..Len(committed) /\ committed[m] = m
      BY <1>1, <1>2, <2>1
    <3> QED BY <1>4, <3>1 DEF Elements
  <2>2. CASE ~(m <= Len(committed))
    <3>1. m - Len(committed) \in 1..Len(batch)
      BY <1>1, <1>2, <2>2
    <3>2. batch[m - Len(committed)] = m
      BY <1>1, <1>2, <3>1
    <3> QED BY <1>4, <3>1, <3>2 DEF Elements
  <2> QED BY <2>1, <2>2
<1>6. saved # <<>>
  BY <1>1, <1>3 DEF JournalTypeOK
<1>7. saved[item] \in RowsOfRun => Visible("start")
  <2> SUFFICES ASSUME saved[item] \in RowsOfRun PROVE Visible("start")
    OBVIOUS
  <2>1. saved[1] = "start"
    BY <1>6 DEF Course
  <2>2. item # 1
    BY <2>1 DEF RowsOfRun
  <2>3. 1 \in 1..(item - 1)
    BY <1>1, <1>3, <2>2
  <2> QED BY <1>5, <2>1, <2>3 DEF Visible
<1>8. saved[item] \in RowsOfPosition => Visible("open")
  <2> SUFFICES ASSUME saved[item] = "result" PROVE Visible("open")
    BY DEF RowsOfPosition
  <2>1. PICK m \in 1..(item - 1) : saved[m] = "open"
    BY <1>3 DEF Course
  <2> QED BY <1>5, <2>1 DEF Visible
<1> QED BY <1>2, <1>7, <1>8 DEF Accepted

LEMMA WriteFailsInv ==
  ASSUME JournalInv, WriteFails
  PROVE  JournalInv'
<1>1. /\ wpc = "write" /\ Rollback /\ WorkerKeeps /\ UNCHANGED <<queue, committed>>
      /\ \/ ~Accepted(item) /\ faults' = faults
         \/ Fault
  BY DEF WriteFails, callerVars, WorkerKeeps
<1>2. faults \in 0..MaxFaults /\ MaxFaults \in Nat
  BY JournalBounds DEF JournalInv, JournalTypeOK
<1>3. faults' \in 0..MaxFaults
  BY <1>1, <1>2 DEF Fault
<1>4. ~Clean'
  <2>1. CASE ~Accepted(item) /\ faults' = faults
    <3>1. ~Clean
      BY <1>1, <2>1, CleanWriteAccepted
    <3> QED BY <1>1, <2>1, <3>1 DEF Clean, WorkerKeeps
  <2>2. CASE Fault
    BY <1>2, <2>2 DEF Clean, Fault
  <2> QED BY <1>1, <2>1, <2>2
<1> QED BY <1>1, <1>3, <1>4, RollbackInv

LEMMA CommitFailsInv ==
  ASSUME JournalInv, CommitFails
  PROVE  JournalInv'
<1>1. /\ WorkerKeeps /\ UNCHANGED <<queue, committed>>
      /\ \/ conn = "broken" /\ faults' = faults
         \/ Fault
      /\ \/ wpc = "commit" /\ Rollback
         \/ wpc \in {"get", "final"} /\ Close
  BY DEF CommitFails, callerVars, WorkerKeeps
<1>2. faults \in 0..MaxFaults /\ MaxFaults \in Nat
  BY JournalBounds DEF JournalInv, JournalTypeOK
<1>3. faults' \in 0..MaxFaults
  BY <1>1, <1>2 DEF Fault
<1>4. ~Clean'
  <2>1. CASE conn = "broken" /\ faults' = faults
    <3>1. ~Clean
      BY <1>1, <2>1 DEF JournalInv, Contiguous
    <3> QED BY <1>1, <2>1, <3>1 DEF Clean, WorkerKeeps
  <2>2. CASE Fault
    BY <1>2, <2>2 DEF Clean, Fault
  <2> QED BY <1>1, <2>1, <2>2
<1>5. CASE wpc = "commit" /\ Rollback
  BY <1>1, <1>3, <1>4, <1>5, RollbackInv
<1>6. CASE wpc \in {"get", "final"} /\ Close
  <2>1. Ends /\ runKnown' = runKnown
    BY <1>1, <1>6 DEF Close, Ends
  <2>2. runKnown \in BOOLEAN
    BY DEF JournalInv, JournalTypeOK
  <2> QED BY <1>1, <1>3, <1>4, <1>6, <2>1, <2>2, EndsInv DEF WorkerKeeps
<1> QED BY <1>1, <1>5, <1>6

\* The endings that need no rollback.
LEMMA EndingsInv ==
  ASSUME JournalInv, CommitFinal \/ CommitUnanswered \/ ProcessEnds
  PROVE  JournalInv'
<1>1. faults \in 0..MaxFaults /\ MaxFaults \in Nat /\ runKnown \in BOOLEAN
  BY JournalBounds DEF JournalInv, JournalTypeOK
<1>2. CASE CommitFinal
  <2>1. /\ wpc = "final" /\ Ends /\ committed' = committed \o batch
        /\ UNCHANGED <<saved, dropped, timedOut, runKnown, caller, faults>>
    BY <1>2 DEF CommitFinal, Close, Ends, callerVars
  <2>2. Stopping /\ Clean' = Clean
    BY <2>1 DEF JournalInv, Course, Clean
  <2> QED BY <1>1, <2>1, <2>2, EndsInv
<1>3. CASE CommitUnanswered
  <2>1. /\ wpc \in {"commit", "final", "get"} /\ Ends /\ Fault
        /\ UNCHANGED <<saved, dropped, timedOut, runKnown, caller>>
    BY <1>3 DEF CommitUnanswered, Close, Ends, callerVars
  <2>2. faults' \in 0..MaxFaults /\ ~Clean'
    BY <1>1, <2>1 DEF Fault, Clean
  <2> QED BY <1>1, <2>1, <2>2, EndsInv
<1>4. CASE ProcessEnds
  <2>1. /\ wpc \notin {"none", "closed"} /\ Ends
        /\ UNCHANGED <<saved, dropped, timedOut, runKnown>>
    BY <1>4 DEF ProcessEnds, Ends
  <2>2. CASE caller \in {"stopped", "failed"}
    <3>1. caller' = caller /\ faults' = faults
      BY <1>4, <2>2 DEF ProcessEnds
    <3>2. ~(caller \in {"joining", "stopped"} /\ ~timedOut) /\ Stopping
      BY <2>1, <2>2 DEF JournalInv, Course, Stopping
    <3>3. Clean' = Clean
      BY <2>1, <3>1 DEF Clean
    <3> QED BY <1>1, <2>1, <3>1, <3>2, <3>3, EndsInv
  <2>3. CASE caller \notin {"stopped", "failed"}
    <3>1. caller' = "failed" /\ faults' = faults + 1 /\ faults < MaxFaults
      BY <1>4, <2>3 DEF ProcessEnds
    <3>2. ~timedOut
      BY <2>3 DEF JournalInv, Course
    <3>3. faults' \in 0..MaxFaults /\ ~Clean'
      BY <1>1, <3>1 DEF Clean
    <3> QED BY <1>1, <2>1, <3>1, <3>2, <3>3, EndsInv
  <2> QED BY <2>2, <2>3
<1> QED BY <1>2, <1>3, <1>4

LEMMA ConnectInv ==
  ASSUME JournalInv, Connect
  PROVE  JournalInv'
<1>1. wpc = "connect" /\ WorkerKeeps /\ UNCHANGED <<queue, committed>>
  BY DEF Connect, callerVars, WorkerKeeps
<1>2. CASE /\ wpc' = "get" /\ conn' = "ok"
           /\ UNCHANGED <<runKnown, item, batch, pending, faults>>
  <2>1. JournalTypeOK'
    BY <1>1, <1>2 DEF JournalInv, JournalTypeOK, WorkerKeeps
  <2>2. Ordered'
    BY <1>1, <1>2 DEF JournalInv, Ordered, Behind, Increasing, WorkerKeeps
  <2>3. Course'
    BY <1>1, <1>2 DEF JournalInv, Course, Stopping, WorkerKeeps
  <2>4. Contiguous'
    BY <1>1, <1>2 DEF JournalInv, Contiguous, Clean, Taken, InHand, WorkerKeeps
  <2> QED BY <2>1, <2>2, <2>3, <2>4 DEF JournalInv
<1>3. CASE Fault /\ Close
  <2>1. Ends /\ runKnown' = runKnown
    BY <1>1, <1>3 DEF Ends, Close
  <2>2. /\ faults \in 0..MaxFaults /\ MaxFaults \in Nat /\ runKnown \in BOOLEAN
    BY JournalBounds DEF JournalInv, JournalTypeOK
  <2>3. faults' \in 0..MaxFaults /\ ~Clean'
    BY <1>3, <2>2 DEF Fault, Clean
  <2> QED BY <1>1, <2>1, <2>2, <2>3, EndsInv DEF WorkerKeeps
<1> QED BY <1>2, <1>3 DEF Connect

\* The oldest item leaves the queue.
LEMMA GetInv ==
  ASSUME JournalInv, Get
  PROVE  JournalInv'
<1> USE DEF JournalInv
<1>1. /\ wpc = "get" /\ queue # <<>> /\ queue' = Tail(queue)
      /\ UNCHANGED <<saved, dropped, caller, timedOut, runKnown, batch, pending, conn,
                     committed, faults>>
  BY DEF Get, callerVars
<1>2. /\ Len(saved) \in Nat /\ Len(queue) \in Nat
      /\ Len(batch) \in Nat /\ Len(committed) \in Nat /\ pending \in Nat
      /\ \A i \in 1..Len(queue) : queue[i] \in 0..MaxSaves
      /\ \A i \in 1..Len(batch) : batch[i] \in Nat
      /\ \A i \in 1..Len(committed) : committed[i] \in Nat
      /\ MaxSaves \in Nat
  <2>1. \A i \in 1..Len(batch) : batch[i] \in 1..MaxSaves
    BY Sizes
  <2>2. \A i \in 1..Len(committed) : committed[i] \in 1..MaxSaves
    BY Sizes
  <2>3. \A i \in 1..Len(queue) : queue[i] \in 0..MaxSaves
    BY Sizes
  <2>4. /\ Len(saved) \in Nat /\ Len(queue) \in Nat /\ pending \in Nat
        /\ Len(batch) \in Nat /\ Len(committed) \in Nat /\ MaxSaves \in Nat
    BY Sizes
  <2> QED BY <2>1, <2>2, <2>3, <2>4
<1>3. /\ queue \in Seq(0..MaxSaves) /\ Len(queue) # 0 /\ Len(queue) <= QueueSize
  BY <1>1 DEF JournalTypeOK
<1>4. /\ queue' \in Seq(0..MaxSaves) /\ Len(queue') = Len(queue) - 1
      /\ \A k \in 1..Len(queue') : queue'[k] = queue[k + 1]
      /\ Head(queue) = queue[1] /\ 1 \in 1..Len(queue)
  BY <1>1, <1>2, <1>3, HeadTailProperties
<1>5. \A k \in 1..Len(queue') : k + 1 \in 1..Len(queue) /\ k + 1 # 1 /\ 1 < k + 1
  BY <1>2, <1>4
<1>6. item = None
  BY <1>1 DEF JournalTypeOK
<1>7. /\ \A k \in 1..Len(queue') : queue'[k] <= Len(saved)
      /\ \A i, j \in 1..Len(queue') : i < j =>
           queue'[i] # Sentinel /\ (queue'[j] # Sentinel => queue'[i] < queue'[j])
  <2>1. \A i, j \in 1..Len(queue') : i < j => i + 1 < j + 1
    BY <1>2, <1>4
  <2> QED BY <1>4, <1>5, <2>1 DEF Ordered
<1>8. Len(queue') <= QueueSize
  BY <1>2, <1>3, <1>4, JournalBounds
<1>9. CASE queue[1] = Sentinel
  <2>1. wpc' = "final" /\ item' = None
    BY <1>4, <1>6, <1>9 DEF Get
  <2>2. Len(queue) = 1 /\ Len(queue') = 0
    <3>1. Len(queue) < 2
      BY <1>2, <1>4, <1>9 DEF Ordered
    <3> QED BY <1>2, <1>3, <1>4, <3>1
  <2>3. Stopping
    BY <1>4, <1>9 DEF Course
  <2>4. JournalTypeOK'
    <3>1. item' \in 1..None /\ (wpc' = "write") = (item' # None)
      BY <2>1, <1>2 DEF None
    <3> QED BY <1>1, <1>8, <1>4, <2>1, <3>1 DEF JournalTypeOK
  <2>5. Ordered'
    <3>1. /\ \A i \in 1..Len(committed') : Behind(committed'[i])
          /\ \A i \in 1..Len(batch') : Behind(batch'[i])
          /\ Behind(pending')
      BY <1>1 DEF Ordered
    <3>2. /\ \A i \in 1..Len(committed') : Behind(committed[i])'
          /\ \A i \in 1..Len(batch') : Behind(batch[i])'
          /\ Behind(pending)'
      <4>1. ASSUME NEW m, Behind(m)
            PROVE  /\ m <= Len(saved') /\ ~(item' # None)
                   /\ \A k \in 1..Len(queue') : queue'[k] # Sentinel => m < queue'[k]
        <5>1. m <= Len(saved)
          BY <4>1 DEF Behind
        <5>2. ~ \E k : k \in 1..Len(queue')
          BY <2>2
        <5> QED BY <1>1, <2>1, <5>1, <5>2
      <4> QED BY <3>1, <4>1 DEF Behind
    <3>3. /\ Increasing(committed)' /\ Increasing(batch)'
          /\ \A i \in 1..Len(committed'), j \in 1..Len(batch') : committed'[i] < batch'[j]
      BY <1>1 DEF Ordered, Increasing
    <3> QED BY <1>7, <2>1, <2>2, <3>2, <3>3, <1>1 DEF Ordered
  <2>6. Course'
    BY <1>1, <2>1, <2>2, <2>3 DEF Course, Stopping
  <2>7. Contiguous'
    <3> SUFFICES ASSUME Clean' PROVE Contiguous'
      BY DEF Contiguous
    <3>1. Clean /\ Taken' = Taken /\ Taken \in Nat
      BY <1>1, <1>2, <1>6, <2>1 DEF Clean, Taken, InHand
    <3>2. caller \in {"joining", "stopped"} => Taken = Len(saved)
      BY <1>1, <1>2, <2>2, <3>1 DEF Contiguous
    <3> QED BY <1>1, <2>1, <2>2, <2>3, <3>1, <3>2, <1>6 DEF Contiguous, Stopping
  <2> QED BY <2>4, <2>5, <2>6, <2>7
<1>10. CASE queue[1] # Sentinel
  <2>1. wpc' = "write" /\ item' = queue[1] /\ item' \in 1..MaxSaves /\ item' # None
    BY <1>2, <1>4, <1>10 DEF Get, Sentinel, None
  <2>2. JournalTypeOK'
    <3>1. item' \in 1..None
      BY <1>2, <2>1 DEF None
    <3> QED BY <1>1, <1>8, <1>4, <2>1, <3>1 DEF JournalTypeOK
  <2>3. Ordered'
    <3>1. ASSUME NEW m \in Nat, Behind(m)
          PROVE  /\ m <= Len(saved') /\ m < item'
                 /\ \A k \in 1..Len(queue') : queue'[k] # Sentinel => m < queue'[k]
      BY <1>1, <1>4, <1>5, <1>10, <2>1, <3>1 DEF Behind
    <3>2. /\ \A i \in 1..Len(committed') : Behind(committed[i])'
          /\ \A i \in 1..Len(batch') : Behind(batch[i])'
          /\ Behind(pending)'
      <4>1. ASSUME NEW i \in 1..Len(committed') PROVE Behind(committed[i])'
        <5>1. committed[i] \in Nat /\ Behind(committed[i]) /\ committed'[i] = committed[i]
          BY <1>1, <1>2, <4>1 DEF Ordered
        <5> QED BY <3>1, <5>1 DEF Behind
      <4>2. ASSUME NEW i \in 1..Len(batch') PROVE Behind(batch[i])'
        <5>1. batch[i] \in Nat /\ Behind(batch[i]) /\ batch'[i] = batch[i]
          BY <1>1, <1>2, <4>2 DEF Ordered
        <5> QED BY <3>1, <5>1 DEF Behind
      <4>3. Behind(pending)'
        <5>1. Behind(pending) /\ pending' = pending
          BY <1>1 DEF Ordered
        <5> QED BY <1>2, <3>1, <5>1 DEF Behind
      <4> QED BY <4>1, <4>2, <4>3
    <3>3. /\ item' <= Len(saved')
          /\ \A k \in 1..Len(queue') : queue'[k] # Sentinel => item' < queue'[k]
      BY <1>1, <1>4, <1>5, <2>1 DEF Ordered
    <3>4. /\ Increasing(committed)' /\ Increasing(batch)'
          /\ \A i \in 1..Len(committed'), j \in 1..Len(batch') : committed'[i] < batch'[j]
      BY <1>1 DEF Ordered, Increasing
    <3> QED BY <1>1, <1>7, <3>2, <3>3, <3>4 DEF Ordered
  <2>4. Course'
    <3>1. \A k \in 1..Len(queue') : queue'[k] = Sentinel => Stopping
      BY <1>4, <1>5 DEF Course
    <3> QED BY <1>1, <2>1, <3>1 DEF Course, Stopping
  <2>5. Contiguous'
    <3> SUFFICES ASSUME Clean' PROVE Contiguous'
      BY DEF Contiguous
    <3>1. Clean /\ Taken = Len(committed) + Len(batch) /\ Taken' = Taken + 1
      BY <1>1, <1>2, <1>6, <2>1 DEF Clean, Taken, InHand
    <3>2. item' = Taken + 1
      BY <1>1, <1>4, <1>10, <2>1, <3>1 DEF Contiguous
    <3>3. \A k \in 1..Len(queue') : queue'[k] # Sentinel => queue'[k] = Taken' + k
      <4> SUFFICES ASSUME NEW k \in 1..Len(queue'), queue'[k] # Sentinel
                   PROVE  queue'[k] = Taken' + k
        OBVIOUS
      <4>1. queue[k + 1] = Taken + (k + 1)
        <5>1. \A j \in 1..Len(queue) : queue[j] # Sentinel => queue[j] = Taken + j
          BY <1>1, <3>1 DEF Contiguous
        <5> QED BY <1>4, <1>5, <5>1
      <4>2. Taken \in Nat /\ k \in Nat
        BY <1>2, <3>1
      <4> QED BY <1>4, <3>1, <4>1, <4>2
    <3>4. Taken' + Len(queue') = Taken + Len(queue)
      BY <1>2, <1>4, <3>1
    <3>5. caller \in {"joining", "stopped"} =>
            queue' # <<>> /\ queue'[Len(queue')] = Sentinel
      <4> SUFFICES ASSUME caller \in {"joining", "stopped"}
                   PROVE  queue' # <<>> /\ queue'[Len(queue')] = Sentinel
        OBVIOUS
      <4>1. queue[Len(queue)] = Sentinel
        BY <1>1, <3>1 DEF Contiguous
      <4>2. Len(queue') \in 1..Len(queue') /\ Len(queue') + 1 = Len(queue)
        BY <1>2, <1>3, <1>4, <1>10, <4>1
      <4> QED BY <1>4, <4>1, <4>2
    <3>6. /\ \A i \in 1..Len(committed) : committed[i] = i
          /\ \A i \in 1..Len(batch) : batch[i] = Len(committed) + i
          /\ conn = "ok"
          /\ caller \in {"new", "opening", "open", "finished"} =>
               Taken + Len(queue) = Len(saved)
          /\ caller \in {"joining", "stopped"} => Taken + Len(queue) = Len(saved) + 1
      BY <1>1, <3>1 DEF Contiguous
    <3> QED BY <1>1, <2>1, <3>1, <3>2, <3>3, <3>4, <3>5, <3>6 DEF Contiguous
  <2> QED BY <2>2, <2>3, <2>4, <2>5
<1> QED BY <1>9, <1>10

\* The event in hand joins the open transaction.
LEMMA WriteInv ==
  ASSUME JournalInv, Write
  PROVE  JournalInv'
<1> USE DEF JournalInv
<1>1. /\ wpc = "write" /\ wpc' \in {"commit", "get"}
      /\ batch' = Append(batch, item) /\ pending' = pending + 1 /\ item' = None
      /\ runKnown' = (runKnown \/ saved[item] = "start")
      /\ UNCHANGED <<saved, dropped, caller, timedOut, queue, conn, committed, faults>>
  BY DEF Write, callerVars
<1>2. /\ Len(saved) \in Nat /\ Len(queue) \in Nat
      /\ Len(batch) \in Nat /\ Len(committed) \in Nat /\ pending \in Nat
      /\ MaxSaves \in Nat /\ Len(saved) <= MaxSaves
      /\ \A i \in 1..Len(queue) : queue[i] \in 0..MaxSaves
      /\ \A i \in 1..Len(batch) : batch[i] \in 1..MaxSaves
      /\ \A i \in 1..Len(committed) : committed[i] \in 1..MaxSaves
  BY Sizes
<1>3. item # None /\ item \in 1..MaxSaves
  BY <1>1, Sizes DEF JournalTypeOK
<1>4. /\ batch' \in Seq(1..MaxSaves) /\ Len(batch') = Len(batch) + 1
      /\ \A i \in 1..Len(batch) : batch'[i] = batch[i]
      /\ batch'[Len(batch) + 1] = item
  BY <1>1, <1>3, AppendProperties DEF JournalTypeOK
<1>5. \A i \in 1..Len(batch') :
        \/ i \in 1..Len(batch) /\ batch'[i] = batch[i]
        \/ i = Len(batch) + 1 /\ batch'[i] = item
  BY <1>2, <1>4
<1>6. /\ item <= Len(saved)
      /\ \A k \in 1..Len(queue) : queue[k] # Sentinel => item < queue[k]
      /\ pending < item
  BY <1>3 DEF Ordered, Behind
<1>7. JournalTypeOK'
  <2>1. pending' \in 0..MaxSaves /\ Len(batch') <= pending'
    BY <1>1, <1>2, <1>3, <1>4, <1>6 DEF JournalTypeOK
  <2>2. item' \in 1..None /\ (wpc' = "write") = (item' # None)
    BY <1>1, <1>2 DEF None
  <2>3. runKnown' \in BOOLEAN
    BY <1>1 DEF JournalTypeOK
  <2> QED BY <1>1, <1>4, <2>1, <2>2, <2>3 DEF JournalTypeOK
<1>8. Ordered'
  <2>1. ASSUME NEW m \in Nat, Behind(m) \/ m <= item
        PROVE  /\ m <= Len(saved')
               /\ \A k \in 1..Len(queue') : queue'[k] # Sentinel => m < queue'[k]
    BY <1>1, <1>2, <1>3, <1>6, <2>1 DEF Behind
  <2>2. \A i \in 1..Len(committed') : Behind(committed[i])'
    <3>1. ASSUME NEW i \in 1..Len(committed') PROVE Behind(committed[i])'
      <4>1. committed[i] \in Nat /\ Behind(committed[i]) /\ committed'[i] = committed[i]
        BY <1>1, <1>2, <3>1 DEF Ordered
      <4> QED BY <1>1, <2>1, <4>1 DEF Behind
    <3> QED BY <3>1
  <2>3. \A i \in 1..Len(batch') : Behind(batch[i])'
    <3>1. ASSUME NEW i \in 1..Len(batch') PROVE Behind(batch[i])'
      <4>1. batch'[i] \in Nat /\ (Behind(batch'[i]) \/ batch'[i] <= item)
        BY <1>2, <1>3, <1>5 DEF Ordered
      <4> QED BY <1>1, <2>1, <4>1 DEF Behind
    <3> QED BY <3>1
  <2>4. Behind(pending)'
    <3>1. pending' \in Nat /\ pending' <= item
      BY <1>1, <1>2, <1>3, <1>6
    <3> QED BY <1>1, <2>1, <3>1 DEF Behind
  <2>5. Increasing(batch)'
    <3>1. \A i \in 1..Len(batch) : batch[i] < item
      BY <1>3 DEF Ordered, Behind
    <3>2. \A i, j \in 1..Len(batch) : i < j => batch[i] < batch[j]
      BY DEF Ordered, Increasing
    <3> SUFFICES ASSUME NEW i \in 1..Len(batch'), NEW j \in 1..Len(batch'), i < j
                 PROVE  batch'[i] < batch'[j]
      BY DEF Increasing
    <3>3. i \in 1..Len(batch) /\ batch'[i] = batch[i]
      BY <1>2, <1>4, <1>5
    <3> QED BY <1>5, <3>1, <3>2, <3>3
  <2>6. \A i \in 1..Len(committed'), j \in 1..Len(batch') : committed'[i] < batch'[j]
    <3>1. \A i \in 1..Len(committed) : committed[i] < item
      BY <1>3 DEF Ordered, Behind
    <3> QED BY <1>1, <1>5, <3>1 DEF Ordered
  <2>7. Increasing(committed)'
    BY <1>1 DEF Ordered, Increasing
  <2> QED BY <1>1, <2>2, <2>3, <2>4, <2>5, <2>6, <2>7 DEF Ordered
<1>9. Course'
  BY <1>1 DEF Course, Stopping
<1>10. Contiguous'
  <2> SUFFICES ASSUME Clean' PROVE Contiguous'
    BY DEF Contiguous
  <2>1. Clean
    BY <1>1 DEF Clean
  <2>2. Taken' = Taken
    BY <1>1, <1>2, <1>3, <1>4 DEF Taken, InHand
  <2>3. /\ item = Len(committed) + Len(batch) + 1 /\ conn = "ok"
        /\ \A i \in 1..Len(batch) : batch[i] = Len(committed) + i
    BY <1>1, <1>3, <2>1 DEF Contiguous
  <2>4. \A i \in 1..Len(batch') : batch'[i] = Len(committed') + i
    <3> SUFFICES ASSUME NEW i \in 1..Len(batch') PROVE batch'[i] = Len(committed') + i
      OBVIOUS
    <3>1. CASE i \in 1..Len(batch) /\ batch'[i] = batch[i]
      BY <1>1, <2>3, <3>1
    <3>2. CASE i = Len(batch) + 1 /\ batch'[i] = item
      BY <1>1, <1>2, <2>3, <3>2
    <3> QED BY <1>5, <3>1, <3>2
  <2> QED BY <1>1, <2>1, <2>2, <2>3, <2>4 DEF Contiguous
<1> QED BY <1>7, <1>8, <1>9, <1>10

\* A commit that succeeds and lets the worker go on.
LEMMA CommitInv ==
  ASSUME JournalInv, CommitBatch \/ CommitIdle
  PROVE  JournalInv'
<1> USE DEF JournalInv
<1>1. /\ wpc \in {"commit", "get"} /\ wpc' = "get"
      /\ committed' = committed \o batch /\ batch' = <<>> /\ pending' = 0
      /\ UNCHANGED <<saved, dropped, caller, timedOut, queue, runKnown, item, conn, faults>>
  BY DEF CommitBatch, CommitIdle, Committed, callerVars
<1>2. item = None
  BY <1>1 DEF JournalTypeOK
<1>3. Ordered' /\ committed' \in Seq(1..MaxSaves)
  BY <1>1, SettledOrdered
<1>4. JournalTypeOK'
  <2>1. batch' \in Seq(1..MaxSaves) /\ Len(batch') = 0
    BY <1>1
  <2>2. pending' \in 0..MaxSaves /\ Len(batch') <= pending'
    BY <1>1, <2>1, JournalBounds
  <2> QED BY <1>1, <1>2, <1>3, <2>1, <2>2 DEF JournalTypeOK
<1>5. Course'
  BY <1>1 DEF Course, Stopping
<1>6. Contiguous'
  <2> SUFFICES ASSUME Clean' PROVE Contiguous'
    BY DEF Contiguous
  <2>1. Clean
    BY <1>1 DEF Clean
  <2>2. \A i \in 1..Len(committed') : committed'[i] = i
    BY <1>1, <2>1, CommittedContiguous
  <2>3. Len(batch') = 0 /\ Len(committed') = Len(committed) + Len(batch)
    BY <1>1, CommittedOrdered
  <2>4. Taken' = Taken
    BY <1>1, <1>2, <2>3, Sizes DEF Taken, InHand
  <2>5. \A i \in 1..Len(batch') : batch'[i] = Len(committed') + i
    BY <2>3
  <2> QED BY <1>1, <1>2, <2>1, <2>2, <2>4, <2>5 DEF Contiguous, None
<1> QED BY <1>3, <1>4, <1>5, <1>6

LEMMA DisconnectInv ==
  ASSUME JournalInv, Disconnect
  PROVE  JournalInv'
<1>1. /\ conn' = "broken" /\ faults' = faults + 1 /\ faults < MaxFaults
      /\ UNCHANGED <<saved, dropped, caller, timedOut, queue, runKnown, wpc, item, batch,
                     pending, committed>>
  BY DEF Disconnect, Fault, callerVars
<1>2. JournalTypeOK'
  BY <1>1, JournalBounds DEF JournalInv, JournalTypeOK
<1>3. Ordered'
  BY <1>1 DEF JournalInv, Ordered, Behind, Increasing
<1>4. Course'
  BY <1>1 DEF JournalInv, Course, Stopping
<1>5. Contiguous'
  <2>1. ~Clean'
    BY <1>1, Sizes DEF JournalInv, Clean
  <2> QED BY <2>1 DEF Contiguous
<1> QED BY <1>2, <1>3, <1>4, <1>5 DEF JournalInv

---------------------------------------------------------------------------
(* The theorems.                                                           *)

LEMMA JournalInit ==
  Init => JournalInv
<1> SUFFICES ASSUME Init PROVE JournalInv
  OBVIOUS
<1> USE DEF Init
<1>1. Len(saved) = 0 /\ Len(queue) = 0 /\ Len(batch) = 0 /\ Len(committed) = 0
  OBVIOUS
<1>2. JournalTypeOK
  <2>1. item \in 1..None /\ 0 \in 0..MaxFaults /\ 0 \in 0..MaxSaves
        /\ 0 \in 0..(MaxSaves + 1) /\ 0 <= MaxSaves /\ 0 <= QueueSize
    BY JournalBounds DEF None
  <2>2. /\ saved \in Seq(Kinds) /\ queue \in Seq(0..MaxSaves)
        /\ batch \in Seq(1..MaxSaves) /\ committed \in Seq(1..MaxSaves)
    OBVIOUS
  <2>3. /\ Len(saved) <= MaxSaves /\ Len(queue) <= QueueSize /\ Len(batch) <= pending
        /\ dropped \in 0..(MaxSaves + 1) /\ pending \in 0..MaxSaves
    BY <1>1, <2>1
  <2>4. (wpc = "write") = (item # None)
    BY <1>1
  <2> QED BY <2>1, <2>2, <2>3, <2>4 DEF JournalTypeOK
<1>3. Ordered
  BY <1>1, JournalBounds DEF Ordered, Increasing, Behind
<1>4. Course
  BY <1>1 DEF Course, Stopping
<1>5. Contiguous
  BY <1>1 DEF Contiguous, Taken, InHand
<1> QED BY <1>2, <1>3, <1>4, <1>5 DEF JournalInv

LEMMA JournalNext ==
  JournalInv /\ [Next]_vars => JournalInv'
<1> SUFFICES ASSUME JournalInv, [Next]_vars PROVE JournalInv'
  OBVIOUS
<1>1. CASE Executor
  <2>1. CASE StartRun \/ FinishRun \/ \E kind \in Kinds \ {"start"} : Save(kind)
    BY <2>1, SavingInv
  <2>2. CASE Stop
    BY <2>2, StopInv
  <2>3. CASE RunStarted \/ StartTimesOut \/ StopReturns
    BY <2>3, CallerInv
  <2> QED BY <1>1, <2>1, <2>2, <2>3 DEF Executor
<1>2. CASE Worker
  BY <1>2, ConnectInv, GetInv, WriteInv, WriteFailsInv, CommitInv, CommitFailsInv, EndingsInv
     DEF Worker
<1>3. CASE Disconnect \/ ProcessEnds
  BY <1>3, DisconnectInv, EndingsInv
<1>4. CASE UNCHANGED vars
  <2>1. UNCHANGED <<saved, queue, dropped, caller, timedOut, runKnown, wpc, item, batch,
                    pending, conn, committed, faults>>
    BY <1>4 DEF vars
  <2>2. JournalTypeOK'
    BY <2>1 DEF JournalInv, JournalTypeOK
  <2>3. Ordered'
    BY <2>1 DEF JournalInv, Ordered, Behind, Increasing
  <2>4. Course'
    BY <2>1 DEF JournalInv, Course, Stopping
  <2>5. Contiguous'
    <3>1. Clean' = Clean /\ Taken' = Taken
      BY <2>1 DEF Clean, Taken, InHand
    <3>2. Stopping' = Stopping
      BY <2>1 DEF Stopping
    <3> QED BY <2>1, <3>1, <3>2 DEF JournalInv, Contiguous
  <2> QED BY <2>2, <2>3, <2>4, <2>5 DEF JournalInv
<1> QED BY <1>1, <1>2, <1>3, <1>4 DEF Next

\* An event's way from the save to the database keeps JournalInv throughout.
THEOREM JournalInvariance == Spec => []JournalInv
<1>1. Init => JournalInv
  BY JournalInit
<1>2. JournalInv /\ [Next]_vars => JournalInv'
  BY JournalNext
<1> QED BY <1>1, <1>2, PTL DEF Spec

\* Queue, transaction and database hold events, never more than the queue's
\* size, and the count of pending writes bounds the open transaction.
THEOREM JournalTypeCorrect == Spec => []JournalTypeOK
<1>1. JournalInv => JournalTypeOK
  BY DEF JournalInv
<1> QED BY <1>1, JournalInvariance, PTL

\* postgres_journal.py _worker: rows become durable in the order of saving,
\* each at most once, whatever fails.
THEOREM RowsCommittedInOrder == Spec => []CommittedInOrder
<1>1. JournalInv => CommittedInOrder
  <2> SUFFICES ASSUME JournalInv PROVE CommittedInOrder
    OBVIOUS
  <2>1. DOMAIN committed = 1..Len(committed)
    BY DEF JournalInv, JournalTypeOK
  <2> QED BY <2>1 DEF JournalInv, Ordered, Increasing, CommittedInOrder
<1> QED BY <1>1, JournalInvariance, PTL

\* Without a fault or a drop the database holds an initial part of what was
\* saved: no row is ever refused for a row it names.
THEOREM DurableRowsArePrefix == Spec => []JournalIsPrefix
<1>1. JournalInv => JournalIsPrefix
  <2> SUFFICES ASSUME JournalInv PROVE JournalIsPrefix
    OBVIOUS
  <2>1. DOMAIN committed = 1..Len(committed)
    BY DEF JournalInv, JournalTypeOK
  <2> QED BY <2>1 DEF JournalInv, Contiguous, Clean, JournalIsPrefix
<1> QED BY <1>1, JournalInvariance, PTL

\* stop: what was saved is durable once the stop has returned in time.
THEOREM StopFlushesJournal == Spec => []StopFlushes
<1>1. JournalInv => StopFlushes
  BY DEF JournalInv, Contiguous, Course, Clean, StopFlushes
<1> QED BY <1>1, JournalInvariance, PTL

---------------------------------------------------------------------------
(* The journal implements EventLog.                                        *)

\* A worker that has ended has given its connection back.
Shut == wpc = "closed" => conn = "none"

LEMMA ShutKept ==
  Spec => []Shut
<1>1. Init => Shut
  BY DEF Init, Shut
<1>2. Shut /\ [Next]_vars => Shut'
  <2> SUFFICES ASSUME Shut, [Next]_vars PROVE Shut'
    OBVIOUS
  <2>1. CASE Executor
    BY <2>1 DEF Executor, StartRun, RunStarted, StartTimesOut, Save, FinishRun, Stop,
         StopReturns, workerVars, Shut
  <2>2. CASE Connect \/ Get \/ Write \/ WriteFails
    BY <2>2 DEF Connect, Get, Write, WriteFails, Rollback, Close, Shut
  <2>3. CASE CommitBatch \/ CommitIdle \/ CommitFinal \/ CommitFails \/ CommitUnanswered
    BY <2>3 DEF CommitBatch, CommitIdle, CommitFinal, CommitFails, CommitUnanswered,
         Rollback, Close, Shut
  <2>4. CASE Disconnect \/ ProcessEnds \/ UNCHANGED vars
    BY <2>4 DEF Disconnect, ProcessEnds, vars, Shut
  <2> QED BY <2>1, <2>2, <2>3, <2>4 DEF Next, Worker
<1> QED BY <1>1, <1>2, PTL DEF Spec

LogView == <<Len(saved), committed, faults = 0 /\ dropped = 0, journalPhase>>

\* A loss is never made good.
LEMMA LossOnly ==
  ASSUME Clean' => Clean
  PROVE  Log!Loss
<1>1. CASE Clean'
  BY <1>1 DEF Clean, Log!Loss
<1>2. CASE ~Clean'
  BY <1>2 DEF Clean, Log!Loss
<1> QED BY <1>1, <1>2

\* Where only the losses may have changed, something was lost or nothing happened.
LEMMA LoseOrStutter ==
  ASSUME UNCHANGED <<saved, committed, caller, timedOut>>, Clean' => Clean,
         journalPhase # "flushed" \/ (Clean => Clean')
  PROVE  Log!Lose \/ UNCHANGED LogView
<1>1. UNCHANGED <<saved, committed, journalPhase>>
  BY DEF journalPhase
<1>2. CASE Clean /\ ~Clean'
  BY <1>1, <1>2 DEF Log!Lose, Clean
<1>3. CASE Clean <=> Clean'
  <2>1. (faults = 0 /\ dropped = 0) = (faults = 0 /\ dropped = 0)'
    BY <1>3 DEF Clean
  <2> QED BY <1>1, <2>1 DEF LogView
<1> QED BY <1>2, <1>3

\* Faults and drops are counted, never forgotten.
LEMMA Losses ==
  ASSUME JournalTypeOK, [Next]_vars
  PROVE  Clean' => Clean
<1>1. faults \in Nat /\ dropped \in Nat
  BY Sizes
<1>2. faults' = faults \/ faults' = faults + 1
  <2>1. CASE Executor
    BY <2>1 DEF Executor, StartRun, RunStarted, StartTimesOut, Save, FinishRun, Stop,
         StopReturns
  <2>2. CASE Worker
    BY <2>2 DEF Worker, Connect, Get, Write, WriteFails, CommitBatch, CommitIdle,
         CommitFinal, CommitFails, CommitUnanswered, Fault
  <2>3. CASE Disconnect \/ ProcessEnds \/ UNCHANGED vars
    BY <2>3 DEF Disconnect, ProcessEnds, Fault, vars
  <2> QED BY <2>1, <2>2, <2>3 DEF Next
<1>3. dropped' = dropped \/ dropped' = dropped + 1
  <2>1. CASE Executor
    BY <2>1 DEF Executor, StartRun, RunStarted, StartTimesOut, Save, FinishRun, Stop,
         StopReturns, Saves, Enqueue
  <2>2. CASE Worker
    BY <2>2 DEF Worker, Connect, Get, Write, WriteFails, CommitBatch, CommitIdle,
         CommitFinal, CommitFails, CommitUnanswered, callerVars
  <2>3. CASE Disconnect \/ ProcessEnds \/ UNCHANGED vars
    BY <2>3 DEF Disconnect, ProcessEnds, callerVars, vars
  <2> QED BY <2>1, <2>2, <2>3 DEF Next
<1> QED BY <1>1, <1>2, <1>3 DEF Clean

\* What the executor does: it saves, it gives up, or it has stopped the journal.
LEMMA ExecutorRefines ==
  ASSUME JournalInv, JournalInv', Executor \/ ProcessEnds
  PROVE  [Log!Next]_LogView
<1> USE DEF JournalInv
<1>0. Clean' => Clean
  BY Losses DEF Next
<1>1. Log!Loss
  BY <1>0, LossOnly
<1>2. CASE StartRun \/ FinishRun \/ \E kind \in Kinds \ {"start"} : Save(kind)
  <2>1. PICK kind \in Kinds : Saves(kind)
    BY <1>2 DEF StartRun, FinishRun, Save, Kinds
  <2>2. Len(saved') = Len(saved) + 1
    BY <2>1, SavesTypes
  <2>3. journalPhase = "open" /\ journalPhase' = "open" /\ committed' = committed
    BY <1>2 DEF StartRun, FinishRun, Save, workerVars, journalPhase
  <2> QED BY <1>1, <2>2, <2>3 DEF Log!Next, Log!Save
<1>3. CASE RunStarted \/ Stop
  <2>1. UNCHANGED <<saved, committed, timedOut, faults>>
    BY <1>3 DEF RunStarted, Stop, workerVars
  <2>2. journalPhase = "open" /\ journalPhase' = "open"
    BY <1>3 DEF RunStarted, Stop, journalPhase
  <2>3. CASE Clean /\ ~Clean'
    BY <2>1, <2>2, <2>3 DEF Log!Next, Log!Lose, Clean
  <2>4. CASE Clean <=> Clean'
    <3>1. (faults = 0 /\ dropped = 0) = (faults = 0 /\ dropped = 0)'
      BY <2>4 DEF Clean
    <3> QED BY <2>1, <2>2, <3>1 DEF LogView
  <2> QED BY <1>0, <2>3, <2>4
<1>4. ASSUME journalPhase = "open", journalPhase' = "abandoned",
             UNCHANGED <<saved, committed>>
      PROVE  Log!Next
  BY <1>1, <1>4 DEF Log!Next, Log!Abandon
<1>5. CASE StartTimesOut
  BY <1>4, <1>5 DEF StartTimesOut, journalPhase, workerVars
<1>6. CASE StopReturns
  <2>1. /\ journalPhase = "open" /\ UNCHANGED <<saved, dropped, committed, faults>>
        /\ caller = "joining" /\ caller' = "stopped" /\ timedOut' = (wpc # "closed")
    BY <1>6 DEF StopReturns, journalPhase, workerVars
  <2>2. CASE wpc # "closed"
    <3>1. journalPhase' = "abandoned"
      BY <2>1, <2>2 DEF journalPhase
    <3> QED BY <1>4, <2>1, <3>1
  <2>3. CASE wpc = "closed"
    <3>1. journalPhase' = "flushed"
      BY <2>1, <2>3 DEF journalPhase
    <3>2. ~timedOut
      BY <2>1 DEF Course
    <3>3. Clean => Len(committed) = Len(saved)
      BY <2>1, <2>3, <3>2 DEF Contiguous
    <3> QED BY <2>1, <3>1, <3>3 DEF Log!Next, Log!Flush, Clean
  <2> QED BY <2>2, <2>3
<1>7. CASE ProcessEnds
  <2>1. CASE caller \in {"stopped", "failed"}
    BY <1>7, <2>1 DEF ProcessEnds, LogView, journalPhase
  <2>2. CASE caller \notin {"stopped", "failed"}
    BY <1>4, <1>7, <2>2 DEF ProcessEnds, journalPhase
  <2> QED BY <2>1, <2>2
<1> QED BY <1>2, <1>3, <1>5, <1>6, <1>7 DEF Executor

\* A commit prolongs the log by the events of the open transaction.
LEMMA CommitPersists ==
  ASSUME JournalInv, JournalInv', wpc # "closed", Clean' => Clean,
         UNCHANGED <<saved, caller, timedOut>>, committed' = committed \o batch
  PROVE  Log!Persist \/ Log!Lose \/ UNCHANGED LogView
<1> USE DEF JournalInv
<1>1. journalPhase # "flushed" /\ UNCHANGED journalPhase
  BY DEF journalPhase, Course
<1>2. /\ Len(committed) \in Nat /\ Len(batch) \in Nat
      /\ Len(committed') = Len(committed) + Len(batch)
      /\ \A i \in 1..Len(committed) : committed'[i] = committed[i]
  BY Sizes, CommittedOrdered
<1>3. CASE batch = <<>>
  <2>1. committed' = committed
    BY <1>3, ConcatProperties DEF JournalTypeOK
  <2> QED BY <1>1, <2>1, LoseOrStutter
<1>4. CASE batch # <<>>
  <2>1. Len(batch) # 0
    BY <1>4, EmptySeq DEF JournalTypeOK
  <2>2. \A i \in 1..Len(committed') : committed'[i] \in 1..Len(saved)
    <3>1. \A i \in 1..Len(committed') : committed'[i] \in Nat \ {0}
      <4>1. \A i \in 1..Len(committed') : committed'[i] \in 1..MaxSaves
        BY Sizes
      <4> QED BY <4>1, JournalBounds
    <3>2. \A i \in 1..Len(committed') : committed'[i] <= Len(saved)
      BY DEF Ordered, Behind
    <3>3. Len(saved) \in Nat
      BY Sizes
    <3> QED BY <3>1, <3>2, <3>3
  <2>3. Clean => \A i \in 1..Len(committed') : committed'[i] = i
    BY CommittedContiguous
  <2>4. \A i, j \in 1..Len(committed') : i < j => committed'[i] < committed'[j]
    BY DEF Ordered, Increasing
  <2>5. Log!Loss
    BY LossOnly
  <2>6. Len(committed') > Len(committed)
    BY <1>2, <2>1
  <2>7. (faults = 0 /\ dropped = 0) => Clean
    BY DEF Clean
  <2> QED BY <1>1, <1>2, <2>2, <2>3, <2>4, <2>5, <2>6, <2>7 DEF Log!Persist
<1> QED BY <1>3, <1>4

\* What the worker and PostgreSQL do: rows become durable, or are lost.
LEMMA WorkerRefines ==
  ASSUME JournalInv, JournalInv', Shut, Worker \/ Disconnect
  PROVE  [Log!Next]_LogView
<1> USE DEF JournalInv
<1>1. Clean' => Clean
  BY Losses DEF Next
<1>2. wpc # "closed"
  BY DEF Worker, Connect, Get, Write, WriteFails, CommitBatch, CommitIdle,
         CommitFinal, CommitFails, CommitUnanswered, Disconnect, Shut
<1>3. UNCHANGED <<saved, caller, timedOut>>
  BY DEF Worker, Connect, Get, Write, WriteFails, CommitBatch, CommitIdle,
         CommitFinal, CommitFails, CommitUnanswered, Disconnect, callerVars
<1>4. committed' = committed \/ committed' = committed \o batch
  BY DEF Worker, Connect, Get, Write, WriteFails, CommitBatch, CommitIdle, Committed,
         CommitFinal, CommitFails, CommitUnanswered, Disconnect
<1>5. CASE committed' = committed
  <2>1. journalPhase # "flushed"
    BY <1>2 DEF journalPhase, Course
  <2> QED BY <1>1, <1>3, <1>5, <2>1, LoseOrStutter DEF Log!Next
<1>6. CASE committed' = committed \o batch
  BY <1>1, <1>2, <1>3, <1>6, CommitPersists DEF Log!Next
<1> QED BY <1>4, <1>5, <1>6

\* For its caller the journal is an ordered log without repetitions, without gaps as
\* long as nothing was lost, and final once it was stopped in time.
THEOREM JournalImplementsLog == Spec => ImplementsEventLog
<1>1. Init => Log!Init
  BY DEF Init, Log!Init, journalPhase
<1>2. JournalInv /\ JournalInv' /\ Shut /\ [Next]_vars => [Log!Next]_LogView
  <2> SUFFICES ASSUME JournalInv, JournalInv', Shut, [Next]_vars
               PROVE  [Log!Next]_LogView
    OBVIOUS
  <2>1. CASE UNCHANGED vars
    BY <2>1 DEF vars, LogView, journalPhase
  <2> QED BY <2>1, ExecutorRefines, WorkerRefines DEF Next
<1>3. JournalInv /\ [Next]_vars => JournalInv'
  BY JournalNext
<1> QED BY <1>1, <1>2, <1>3, JournalInvariance, ShutKept, PTL
       DEF Spec, ImplementsEventLog, Log!Spec, LogView
=============================================================================
