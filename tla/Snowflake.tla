------------------------------- MODULE Snowflake -------------------------------
(***************************************************************************)
(* SnowflakeIdGenerator: the primary keys of t_task and                    *)
(* t_extracted_result.  One lock and one event loop per process let one    *)
(* call of next_id run at a time; a call that used up a millisecond        *)
(* watches the clock until the next.                                       *)
(*                                                                         *)
(* Each host has its clock, in milliseconds after epoch_ms.  Shifts and    *)
(* ors are written as products and sums.                                   *)
(***************************************************************************)
EXTENDS Integers, Sequences

CONSTANTS
  Generators,      \* the processes that draw ids
  Host,            \* the host of each
  Table,           \* the table whose keys a generator draws
  WorkerId,        \* TASK_ID_NODE_ID of its process
  WorkerIdCount,   \* 2^worker_id_bits
  SequenceCount    \* 2^sequence_bits

ASSUME LayoutAssumption == WorkerIdCount \in Nat \ {0} /\ SequenceCount \in Nat \ {0}

(* __init__ refuses any other worker_id. *)
ASSUME WorkerIdAssumption == WorkerId \in [Generators -> 0..(WorkerIdCount - 1)]

(* Up to the deployment: by default every process has worker id 1, which does while
   one API process and one extractor run.                                          *)
ASSUME WorkerIdsDiffer ==
  \A g, h \in Generators : Table[g] = Table[h] /\ WorkerId[g] = WorkerId[h] => g = h

VARIABLES
  clock,            \* time.time()
  last_timestamp,   \* -1 before the first id
  sequence,
  waiting,          \* in _wait_for_next_millisecond
  issued            \* what next_id has returned to a process over all its lives

Hosts == {Host[g] : g \in Generators}

Now(g) == clock[Host[g]]

generator == <<last_timestamp, sequence, waiting>>

Id(timestamp, worker_id, seq) ==
  (timestamp * WorkerIdCount + worker_id) * SequenceCount + seq

Return(g, timestamp, seq) ==
  /\ last_timestamp' = [last_timestamp EXCEPT ![g] = timestamp]
  /\ sequence' = [sequence EXCEPT ![g] = seq]
  /\ issued' = [issued EXCEPT ![g] = Append(@, Id(timestamp, WorkerId[g], seq))]

NextSequence(g) == (sequence[g] + 1) % SequenceCount

(* Mutant: time that went back is not noticed. *)
AnyOtherMillisecond(g) == Now(g) # last_timestamp[g]

IsNewMillisecond(g) == Now(g) > last_timestamp[g]

(* Mutant: the wait ends within the millisecond. *)
NotEarlier(g) == Now(g) >= last_timestamp[g]

(* Mutant: the wait looks for the very next millisecond. *)
IsNextMillisecond(g) == Now(g) = last_timestamp[g] + 1

WaitIsOver(g) == Now(g) > last_timestamp[g]

----------------------------------------------------------------------------
NewMillisecond(g) ==
  /\ ~waiting[g]
  /\ IsNewMillisecond(g)
  /\ Return(g, Now(g), 0)
  /\ UNCHANGED <<clock, waiting>>

SameMillisecond(g) ==
  /\ ~waiting[g]
  /\ Now(g) = last_timestamp[g]
  /\ NextSequence(g) # 0
  /\ Return(g, Now(g), NextSequence(g))
  /\ UNCHANGED <<clock, waiting>>

MillisecondUsedUp(g) ==
  /\ ~waiting[g]
  /\ Now(g) = last_timestamp[g]
  /\ NextSequence(g) = 0
  /\ sequence' = [sequence EXCEPT ![g] = 0]
  /\ waiting' = [waiting EXCEPT ![g] = TRUE]
  /\ UNCHANGED <<clock, last_timestamp, issued>>

WaitForNextMillisecond(g) ==
  /\ waiting[g]
  /\ WaitIsOver(g)
  /\ Return(g, Now(g), sequence[g])
  /\ waiting' = [waiting EXCEPT ![g] = FALSE]
  /\ UNCHANGED clock

NextId(g) == NewMillisecond(g) \/ SameMillisecond(g) \/ MillisecondUsedUp(g)

(* next_id raises ValueError and leaves the generator as it was. *)
ClockMovedBackwards(g) == ~waiting[g] /\ Now(g) < last_timestamp[g]

(* __init__, of a process that starts. *)
NewGenerator(g) ==
  /\ last_timestamp' = [last_timestamp EXCEPT ![g] = -1]
  /\ sequence' = [sequence EXCEPT ![g] = 0]
  /\ waiting' = [waiting EXCEPT ![g] = FALSE]
=============================================================================
