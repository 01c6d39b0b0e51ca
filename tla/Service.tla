-------------------------------- MODULE Service --------------------------------
(***************************************************************************)
(* The life of the processes that draw ids: the API (lifespan of main.py)  *)
(* and the extractors (run of extractor_main.py).  A process starts by     *)
(* checking what it depends on, which makes the bucket if there is none,   *)
(* then serves and draws ids until it fails or is stopped.  The parser     *)
(* starts in the same way and draws none: it is left out.                  *)
(*                                                                         *)
(* What it serves is the subject of Pipeline, where a process that ends is *)
(* one step.  Nothing starts a process again by itself.                    *)
(***************************************************************************)
EXTENDS Snowflake, Functions

CONSTANTS
  Extractors,      \* those of the processes that end if next_id raises
  MaxFailures,     \* healthchecks that fail and processes stopped, in all
  MaxStepsBack,    \* how often a clock is set back, in all
  LastCall,        \* calls of next_id begin before this time ...
  MaxClock,        \* ... and clocks tick until this one
  MaxIds           \* ids drawn, in all

ASSUME ExtractorsAssumption == Generators # {} /\ Extractors \subseteq Generators

VARIABLES
  phase,          \* where each process is: PhaseNames
  bucket_exists,  \* in the object store
  refused,        \* starts of each process that failed as the bucket existed
  started_at,     \* the clock of each host when a process was last started there
  failures, steps_back

PhaseNames == {"down", "ensure_bucket", "make_bucket", "serving"}

ids == <<clock, last_timestamp, sequence, waiting, issued>>
vars == <<ids, phase, bucket_exists, refused, started_at, failures, steps_back>>

Init ==
  /\ clock = [h \in Hosts |-> 0]
  /\ last_timestamp = [g \in Generators |-> -1]
  /\ sequence = [g \in Generators |-> 0]
  /\ waiting = [g \in Generators |-> FALSE]
  /\ issued = [g \in Generators |-> <<>>]
  /\ phase = [p \in Generators |-> "down"]
  /\ bucket_exists = FALSE
  /\ refused = [p \in Generators |-> 0]
  /\ started_at = [h \in Hosts |-> 0]
  /\ failures = 0
  /\ steps_back = 0

Goto(p, name) == phase' = [phase EXCEPT ![p] = name]

----------------------------------------------------------------------------
(* __init__ of its generator comes with the start of a process.  Its clock is past
   the ids it drew before: a restart takes longer than a millisecond, and no clock
   is set back to before the last start of a process (SetBack).                    *)
StartGenerator(g) ==
  /\ Now(g) > last_timestamp[g]
  /\ NewGenerator(g)
  /\ started_at' = [started_at EXCEPT ![Host[g]] = Now(g)]

Start(p) ==
  /\ phase[p] = "down"
  /\ Goto(p, "ensure_bucket")
  /\ StartGenerator(p)
  /\ UNCHANGED <<clock, issued, bucket_exists, refused, failures, steps_back>>

(* Mutant: make_bucket is called without a look. *)
MakeAnyway(p) == phase[p] = "ensure_bucket" /\ Goto(p, "make_bucket")

CheckBucket(p) ==
  /\ phase[p] = "ensure_bucket"
  /\ Goto(p, IF bucket_exists THEN "serving" ELSE "make_bucket")

MakeBucket(p) ==
  /\ phase[p] = "make_bucket"
  /\ ~bucket_exists
  /\ bucket_exists' = TRUE
  /\ Goto(p, "serving")
  /\ UNCHANGED refused

(* make_bucket refuses a bucket that exists: StorageClientError ends the start. *)
BucketMadeByAnother(p) ==
  /\ phase[p] = "make_bucket"
  /\ bucket_exists
  /\ refused' = [refused EXCEPT ![p] = @ + 1]
  /\ Goto(p, "down")
  /\ UNCHANGED bucket_exists

EnsureBucket(p) ==
  /\ \/ CheckBucket(p) /\ UNCHANGED <<bucket_exists, refused>>
     \/ MakeBucket(p)
     \/ BucketMadeByAnother(p)
  /\ UNCHANGED <<ids, started_at, failures, steps_back>>

(* A healthcheck that fails, and the end of a running process. *)
Fail(p) ==
  /\ phase[p] # "down"
  /\ failures < MaxFailures
  /\ failures' = failures + 1
  /\ Goto(p, "down")
  /\ UNCHANGED <<ids, bucket_exists, refused, started_at, steps_back>>

----------------------------------------------------------------------------
Serving(g) == phase[g] = "serving"

IdsDrawn == FoldFunction(+, 0, [g \in Generators |-> Len(issued[g])])

CallNextId(g) ==
  /\ Serving(g)
  /\ Now(g) < LastCall
  /\ IdsDrawn < MaxIds
  /\ NextId(g)
  /\ UNCHANGED <<phase, bucket_exists, refused, started_at, failures, steps_back>>

FinishWait(g) ==
  /\ Serving(g)
  /\ WaitForNextMillisecond(g)
  /\ UNCHANGED <<phase, bucket_exists, refused, started_at, failures, steps_back>>

(* The ValueError fails one request of the API; no handler of the extractor
   catches it.                                                              *)
NextIdRaises(g) ==
  /\ Serving(g)
  /\ ClockMovedBackwards(g)
  /\ IF g \in Extractors THEN Goto(g, "down") ELSE UNCHANGED phase
  /\ UNCHANGED <<ids, bucket_exists, refused, started_at, failures, steps_back>>

Tick(h) ==
  /\ \E t \in (clock[h] + 1)..(clock[h] + 2) :
       t <= MaxClock /\ clock' = [clock EXCEPT ![h] = t]
  /\ UNCHANGED <<generator, issued, phase, bucket_exists, refused, started_at, failures,
                 steps_back>>

SetBack(h) ==
  /\ steps_back < MaxStepsBack
  /\ steps_back' = steps_back + 1
  /\ \E t \in started_at[h]..(clock[h] - 1) : clock' = [clock EXCEPT ![h] = t]
  /\ UNCHANGED <<generator, issued, phase, bucket_exists, refused, started_at, failures>>

Next ==
  \/ \E p \in Generators : Start(p) \/ EnsureBucket(p) \/ Fail(p)
  \/ \E g \in Generators : CallNextId(g) \/ FinishWait(g) \/ NextIdRaises(g)
  \/ \E h \in Hosts : Tick(h) \/ SetBack(h)

Spec == Init /\ [][Next]_vars

(* Time goes on, and a thread that watches the clock sees it. *)
FairSpec ==
  /\ Spec
  /\ \A h \in Hosts : WF_vars(Tick(h))
  /\ \A g \in Generators : WF_vars(FinishWait(g))

----------------------------------------------------------------------------
(* table-schema.md: the keys are unique over the whole system.  No id is drawn twice
   for a table, by one process over its restarts or by two.                         *)
PrimaryKeysUnique ==
  \A g, h \in Generators : Table[g] = Table[h] =>
    \A m \in DOMAIN issued[g], n \in DOMAIN issued[h] :
      issued[g][m] = issued[h][n] => g = h /\ m = n

(* Ids sort by the time they were drawn, also where the clock is set back between two
   of them or a millisecond runs out of ids.                                         *)
IdsAscend ==
  \A g \in Generators : \A m, n \in DOMAIN issued[g] : m < n => issued[g][m] < issued[g][n]

(* The processes need not be started one after the other.  One that loses the race for
   the bucket ends, but no process loses it twice, and some process never does.       *)
BucketRaceLostOnce ==
  /\ \A p \in Generators : refused[p] <= 1
  /\ \E p \in Generators : refused[p] = 0

(* A call that found its millisecond used up, and holds the lock, comes back: the clock
   may skip milliseconds and be set back in the meantime.                              *)
NextIdReturns == \A g \in Generators : waiting[g] /\ Serving(g) ~> ~(waiting[g] /\ Serving(g))
=============================================================================
