---------------------------- MODULE ReviewService ----------------------------
(***************************************************************************)
(* The review routes: ReviewService.apply_fix as one transaction of four   *)
(* statements, and RetriggerService.retrigger.                             *)
(*                                                                         *)
(*   idle -> flush -> count -> load -> commit -> done                      *)
(*                                                                         *)
(* The repositories are injected, as the tests inject them.  The list and  *)
(* read routes change nothing and have no action.                          *)
(***************************************************************************)
EXTENDS Stores

CONSTANTS
  Retriggers,           \* POST .../retrigger requests, each made at most once
  ReextractConfigured   \* whether the API's queue client knows the reextract queue
ASSUME RetriggerAssumption == ReextractConfigured \in BOOLEAN

FixPcs == {"idle", "flush", "count", "load", "commit", "done"}
NewFix == [pc |-> "idle", row |-> Absent, loaded_row |-> Absent, verdict |-> Absent,
           loaded |-> Absent]

(* The coroutine of each PATCH request, and the retrigger requests made so far. *)
FixRecords ==
  [pc : FixPcs, row : RowIds \union {Absent}, loaded_row : Rows \union {Absent},
   verdict : FinalStatus \union {Absent}, loaded : TaskStatus \union {Absent}]
ReviewTypeOK ==
  /\ fix \in [Fixes -> FixRecords]
  /\ retriggered \in SUBSET Retriggers

ReviewInit ==
  /\ fix = [v \in Fixes |-> NewFix]
  /\ retriggered = {}

FixAt(v, pc) == fix[v].pc = pc
FixDone(v) == fix' = [fix EXCEPT ![v] = [NewFix EXCEPT !.pc = "done"]]
FixedTask(v) == fix[v].row[1]

----------------------------------------------------------------------------
(* apply_fix of the repository: SELECT the row by task and result id. *)
SelectFix(v) ==
  /\ FixAt(v, "idle")
  /\ \E i \in {i \in RowIds : t_result[i] # Absent} :
       fix' = [fix EXCEPT ![v].pc = "flush", ![v].row = i, ![v].loaded_row = t_result[i]]
  /\ UNCHANGED <<stores, retriggered, notReview>>

(* The new fix_table_data always differs from the loaded one; needs_review is
   written only if the loaded row still asked for a review.                  *)
FlushFix(v) ==
  LET i == fix[v].row IN
  /\ FixAt(v, "flush")
  /\ ~LockedByOther(v, i)
  /\ WriteRow(v, i, [needs_review |-> Flushed(t_result[i].needs_review,
                                              fix[v].loaded_row.needs_review, FALSE),
                     fixed |-> TRUE])
  /\ fix' = [fix EXCEPT ![v].pc = "count"]
  /\ UNCHANGED <<t_task, t_result, t_toc, objects, queues, retriggered, notReview>>

(* count_pending_review_by_task sees committed rows and this fix. *)
CountPending(v) ==
  /\ FixAt(v, "count")
  /\ fix' = [fix EXCEPT
       ![v].pc = "load",
       ![v].verdict = IF PendingReview(v, FixedTask(v)) THEN "PENDING_REVIEW" ELSE "COMPLETED"]
  /\ UNCHANGED <<stores, retriggered, notReview>>

LoadTask(v) ==
  /\ FixAt(v, "load")
  /\ fix' = [fix EXCEPT ![v].pc = "commit", ![v].loaded = t_task[FixedTask(v)]]
  /\ UNCHANGED <<stores, retriggered, notReview>>

CommitFix(v) ==
  LET t == FixedTask(v) IN
  /\ FixAt(v, "commit")
  /\ t_task' = [t_task EXCEPT ![t] = Flushed(t_task[t], fix[v].loaded, fix[v].verdict)]
  /\ CommitRows(v)
  /\ FixDone(v)
  /\ UNCHANGED <<t_toc, objects, queues, retriggered, notReview>>

(* A database error or a crash ends the request; its transaction rolls back. *)
FixFails(v) ==
  /\ Faults \intersect {"database", "crash"} # {}
  /\ fix[v].pc \notin {"idle", "done"}
  /\ Rollback(v)
  /\ FixDone(v)
  /\ UNCHANGED <<t_task, t_toc, objects, queues, retriggered, notReview>>

(* retrigger: the task row must exist (else 404), content_list.json need not.  Without
   the queue's name publish_reextract_task raises before it reaches Redis.          *)
Retrigger(q) ==
  /\ q \notin retriggered
  /\ retriggered' = retriggered \union {q}
  /\ \E t \in Uploads, codes \in (SUBSET Rules) \ {{}} :
       LET message == [task |-> t, codes |-> codes] IN
       \/ /\ TaskPresent(t) /\ ReextractConfigured
          /\ reextract_queue' = Append(reextract_queue, message)
       \/ /\ TaskPresent(t) /\ ReextractConfigured
          /\ "queue" \in Faults
          /\ reextract_queue' \in AfterFailedPush(reextract_queue, message)
       \/ ~(TaskPresent(t) /\ ReextractConfigured) /\ UNCHANGED reextract_queue
  /\ UNCHANGED <<tables, objects, parser_queue, extractor_queue, fix, notReview>>

FixStep(v) == FlushFix(v) \/ CountPending(v) \/ LoadTask(v) \/ CommitFix(v)

ReviewNext ==
  \/ \E v \in Fixes : SelectFix(v) \/ FixStep(v) \/ FixFails(v)
  \/ \E q \in Retriggers : Retrigger(q)
=============================================================================
