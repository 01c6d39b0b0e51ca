--------------------------- MODULE ExtractorWorker ---------------------------
(***************************************************************************)
(* The extractor: the loop of extractor_main.py around ExtractorWorker.    *)
(*                                                                         *)
(*   poll_reextract, poll_extract -> download -> check -> store -> begin   *)
(*     -> delete_toc -> replace_toc -> (upsert -> flush)* -> evaluate      *)
(*     -> commit                                                           *)
(*   download, store, upsert -> mark_failed -> set_failed                  *)
(*   begin .. commit -> cleanup                            database error  *)
(*                                                                         *)
(* begin to commit is one transaction.  A full run (codes = {}) extracts   *)
(* every rule, a re-extraction the rules whose table codes were asked for. *)
(***************************************************************************)
EXTENDS Stores, ConfidenceScorer

CONSTANT ReextractPollBlocks   \* TRUE: BLPOP with timeout 0 waits for ever, as
                               \* Redis does; FALSE: the poll returns at once, as
                               \* the queue client of the tests does
ASSUME PollAssumption == ReextractPollBlocks \in BOOLEAN

ExtractorPcs == {"poll_reextract", "poll_extract", "download", "check", "store", "begin",
                 "delete_toc", "replace_toc", "upsert", "flush", "evaluate", "commit",
                 "cleanup", "mark_failed", "set_failed"}
InTransaction == {"delete_toc", "replace_toc", "upsert", "flush", "evaluate", "commit"}
PollingExtractor ==
  [pc |-> "poll_reextract", task |-> Absent, codes |-> {}, loaded |-> Absent,
   old_toc |-> {}, todo |-> {}, row |-> Absent, loaded_row |-> Absent,
   review |-> FALSE, any_review |-> FALSE, verdict |-> Absent]

(* loaded: the task row; old_toc: the TOC copies the run deletes; todo: rules still
   to extract; row, loaded_row, review: the upsert in hand; any_review: some outcome
   of this run needs review; verdict: the status it will write.                  *)
ExtractorRuns ==
  [pc : ExtractorPcs, task : Uploads \union {Absent}, codes : SUBSET Rules,
   loaded : TaskStatus \union {Absent}, old_toc : SUBSET (Uploads \X Extractors),
   todo : SUBSET Rules, row : RowIds \union {Absent}, loaded_row : Rows \union {Absent},
   review : BOOLEAN, any_review : BOOLEAN, verdict : FinalStatus \union {Absent}]
ExtractorTypeOK == extractor \in [Extractors -> ExtractorRuns]

ExtractorInit == extractor = [x \in Extractors |-> PollingExtractor]

ExtractorAt(x, pc) == extractor[x].pc = pc
ExtractorGoto(x, pc) == extractor' = [extractor EXCEPT ![x].pc = pc]
ExtractorDone(x) == extractor' = [extractor EXCEPT ![x] = PollingExtractor]

(* Mutants: the rules in any order; target_table_codes ignored. *)
AnyRule(todo) == todo
EveryRule(codes) == Rules

(* list_active_by_doc_type orders by id; target_table_codes absent selects all. *)
NextRules(todo) == {r \in todo : \A q \in todo : r <= q}
SelectedRules(codes) == IF codes = {} THEN Rules ELSE codes

----------------------------------------------------------------------------
TakeMessage(x, message) ==
  extractor' = [extractor EXCEPT ![x].pc = "download", ![x].task = message.task,
                                 ![x].codes = message.codes]

(* process_next_reextract_message(timeout_seconds=0).  A failed call kills the
   process, which restarts here, and may have lost the message it popped.     *)
PollReextract(x) ==
  /\ ExtractorAt(x, "poll_reextract")
  /\ \/ /\ reextract_queue # <<>>
        /\ reextract_queue' = Tail(reextract_queue)
        /\ \/ TakeMessage(x, Head(reextract_queue))
           \/ "queue" \in Faults /\ UNCHANGED extractor
     \/ /\ reextract_queue = <<>>
        /\ ~ReextractPollBlocks
        /\ ExtractorGoto(x, "poll_extract")
        /\ UNCHANGED reextract_queue
  /\ UNCHANGED <<tables, objects, parser_queue, extractor_queue, notExtractor>>

(* process_next_message(timeout_seconds=5): a message or a timeout. *)
PollExtract(x) ==
  /\ ExtractorAt(x, "poll_extract")
  /\ \/ /\ extractor_queue # <<>>
        /\ extractor_queue' = Tail(extractor_queue)
        /\ \/ TakeMessage(x, Head(extractor_queue))
           \/ "queue" \in Faults /\ ExtractorDone(x)
     \/ /\ extractor_queue = <<>>
        /\ ExtractorDone(x)
        /\ UNCHANGED extractor_queue
  /\ UNCHANGED <<tables, objects, parser_queue, reextract_queue, notExtractor>>

(* download_bytes and load_content_list. *)
DownloadContentList(x) ==
  /\ ExtractorAt(x, "download")
  /\ \/ /\ ContentList(extractor[x].task) \in objects
        /\ ExtractorGoto(x, "check")
     \/ /\ \/ ContentList(extractor[x].task) \notin objects
           \/ Faults \intersect {"storage", "engine"} # {}
        /\ ExtractorGoto(x, "mark_failed")
  /\ UNCHANGED <<stores, notExtractor>>

(* The first session only asks whether the task row exists, and it does. *)
CheckTask(x) ==
  /\ ExtractorAt(x, "check")
  /\ \/ ExtractorGoto(x, "store")
     \/ "database" \in Faults /\ ExtractorDone(x)
  /\ UNCHANGED <<stores, notExtractor>>

StoreLogicalTables(x) ==
  /\ ExtractorAt(x, "store")
  /\ LET key == LogicalTables(extractor[x].task) IN
     \/ objects' = objects \union {key} /\ ExtractorGoto(x, "begin")
     \/ /\ "storage" \in Faults
        /\ objects' \in AfterFailedPut(key)
        /\ ExtractorGoto(x, "mark_failed")
  /\ UNCHANGED <<tables, queues, notExtractor>>

(* The second session loads the task row; the rules are read later, but are fixed. *)
BeginExtraction(x) ==
  /\ ExtractorAt(x, "begin")
  /\ extractor' = [extractor EXCEPT
       ![x].pc = "delete_toc", ![x].loaded = t_task[extractor[x].task],
       ![x].todo = SelectedRules(extractor[x].codes)]
  /\ UNCHANGED <<stores, notExtractor>>

(* replace_for_task: the DELETE finds the copies it sees committed when it starts. *)
DeleteToc(x) ==
  /\ ExtractorAt(x, "delete_toc")
  /\ extractor' = [extractor EXCEPT
       ![x].pc = "replace_toc", ![x].old_toc = {c \in t_toc : c[1] = extractor[x].task}]
  /\ UNCHANGED <<stores, notExtractor>>

(* It waits for a run that is deleting the same copy, and the new rows follow. *)
ReplaceToc(x) ==
  /\ ExtractorAt(x, "replace_toc")
  /\ \A y \in Extractors \ {x} :
       extractor[y].pc \in InTransaction \ {"delete_toc", "replace_toc"}
         => extractor[y].old_toc \intersect extractor[x].old_toc = {}
  /\ ExtractorGoto(x, IF extractor[x].todo = {} THEN "evaluate" ELSE "upsert")
  /\ UNCHANGED <<stores, notExtractor>>

(* For the next rule: route, build the outcome, normalise, score, and upsert_result's
   SELECT.  Two rows for one rule make scalar_one_or_none raise MultipleResultsFound. *)
SelectResult(x) ==
  /\ ExtractorAt(x, "upsert")
  /\ \E r \in NextRules(extractor[x].todo), review \in {NeedsReview(o) : o \in Outcomes} :
       LET t == extractor[x].task
           existing == VisibleRows(x, t, r) IN
       /\ Cardinality(existing) <= 1
       /\ \E i \in IF existing = {} THEN {<<t, r, x>>} ELSE existing :
            extractor' = [extractor EXCEPT
              ![x].pc = "flush", ![x].todo = @ \ {r}, ![x].row = i,
              ![x].loaded_row = Visible(x, i), ![x].review = review,
              ![x].any_review = @ \/ review]
  /\ UNCHANGED <<stores, notExtractor>>

MultipleResultsFound(x) ==
  /\ ExtractorAt(x, "upsert")
  /\ \E r \in NextRules(extractor[x].todo) :
       Cardinality(VisibleRows(x, extractor[x].task, r)) > 1
  /\ Rollback(x)
  /\ ExtractorGoto(x, "cleanup")
  /\ UNCHANGED <<t_task, t_toc, objects, queues, notExtractor>>

LLMFallbackFails(x) ==
  /\ "llm" \in Faults
  /\ ExtractorAt(x, "upsert")
  /\ Rollback(x)
  /\ ExtractorGoto(x, "mark_failed")
  /\ UNCHANGED <<t_task, t_toc, objects, queues, notExtractor>>

(* upsert_result's flush: an INSERT, or an UPDATE of the columns that differ from
   the row it loaded, once no other transaction holds the row.                   *)
UpsertedRow(x) ==
  LET current == t_result[extractor[x].row]
      loaded == extractor[x].loaded_row IN
  IF loaded = Absent
  THEN [needs_review |-> extractor[x].review, fixed |-> FALSE]
  ELSE [needs_review |-> Flushed(current.needs_review, loaded.needs_review,
                                 extractor[x].review),
        fixed |-> Flushed(current.fixed, loaded.fixed, FALSE)]

(* Mutant: each upsert commits. *)
FlushResultAutocommit(x) ==
  /\ ExtractorAt(x, "flush")
  /\ ~LockedByOther(x, extractor[x].row)
  /\ t_result' = [t_result EXCEPT ![extractor[x].row] = UpsertedRow(x)]
  /\ ExtractorGoto(x, IF extractor[x].todo = {} THEN "evaluate" ELSE "upsert")
  /\ UNCHANGED <<t_task, uncommitted, t_toc, objects, queues, notExtractor>>

FlushResult(x) ==
  /\ ExtractorAt(x, "flush")
  /\ ~LockedByOther(x, extractor[x].row)
  /\ WriteRow(x, extractor[x].row, UpsertedRow(x))
  /\ extractor' = [extractor EXCEPT
       ![x].pc = IF extractor[x].todo = {} THEN "evaluate" ELSE "upsert",
       ![x].row = Absent, ![x].loaded_row = Absent, ![x].review = FALSE]
  /\ UNCHANGED <<t_task, t_result, t_toc, objects, queues, notExtractor>>

(* TaskStatusEvaluator over this run's outcomes, or, for a re-extraction,
   count_pending_review_by_task over all rows of the task.               *)
EvaluateStatus(x) ==
  /\ ExtractorAt(x, "evaluate")
  /\ LET pending == IF extractor[x].codes = {} THEN extractor[x].any_review
                    ELSE PendingReview(x, extractor[x].task) IN
     extractor' = [extractor EXCEPT
       ![x].pc = "commit",
       ![x].verdict = IF pending THEN "PENDING_REVIEW" ELSE "COMPLETED"]
  /\ UNCHANGED <<stores, notExtractor>>

SetExtractedStatus(x, status) ==
  LET t == extractor[x].task IN
  t_task' = [t_task EXCEPT ![t] = Flushed(t_task[t], extractor[x].loaded, status)]

CommitExtraction(x) ==
  /\ ExtractorAt(x, "commit")
  /\ SetExtractedStatus(x, extractor[x].verdict)
  /\ CommitRows(x)
  /\ t_toc' = (t_toc \ extractor[x].old_toc) \union {<<extractor[x].task, x>>}
  /\ ExtractorDone(x)
  /\ UNCHANGED <<objects, queues, notExtractor>>

(* Any SQLAlchemyError of the second session. *)
ExtractionDatabaseError(x) ==
  /\ "database" \in Faults
  /\ extractor[x].pc \in InTransaction \union {"begin"}
  /\ Rollback(x)
  /\ ExtractorGoto(x, "cleanup")
  /\ UNCHANGED <<t_task, t_toc, objects, queues, notExtractor>>

(* _cleanup_logical_tables_artifact; a storage failure is only logged. *)
CleanupLogicalTables(x) ==
  /\ ExtractorAt(x, "cleanup")
  /\ \/ objects' = objects \ {LogicalTables(extractor[x].task)}
     \/ "storage" \in Faults /\ UNCHANGED objects
  /\ ExtractorDone(x)
  /\ UNCHANGED <<tables, queues, notExtractor>>

(* _mark_failed: its own session loads the row, sets FAILED and commits. *)
LoadFailed(x) ==
  /\ ExtractorAt(x, "mark_failed")
  /\ \/ extractor' = [extractor EXCEPT ![x].pc = "set_failed",
                                       ![x].loaded = t_task[extractor[x].task]]
     \/ "database" \in Faults /\ ExtractorDone(x)
  /\ UNCHANGED <<stores, notExtractor>>

SetExtractionFailed(x) ==
  /\ ExtractorAt(x, "set_failed")
  /\ \/ SetExtractedStatus(x, "FAILED")
     \/ "database" \in Faults /\ UNCHANGED t_task
  /\ ExtractorDone(x)
  /\ UNCHANGED <<results, t_toc, objects, queues, notExtractor>>

(* The process dies and restarts: its message and open transaction are gone. *)
ExtractorCrash(x) ==
  /\ "crash" \in Faults
  /\ extractor[x].pc \notin {"poll_reextract", "poll_extract"}
  /\ Rollback(x)
  /\ ExtractorDone(x)
  /\ UNCHANGED <<t_task, t_toc, objects, queues, notExtractor>>

ExtractorStep(x) ==
  \/ PollReextract(x) \/ PollExtract(x) \/ DownloadContentList(x) \/ CheckTask(x)
  \/ StoreLogicalTables(x) \/ BeginExtraction(x) \/ DeleteToc(x) \/ ReplaceToc(x)
  \/ SelectResult(x) \/ MultipleResultsFound(x) \/ LLMFallbackFails(x) \/ FlushResult(x)
  \/ EvaluateStatus(x) \/ CommitExtraction(x) \/ ExtractionDatabaseError(x)
  \/ CleanupLogicalTables(x) \/ LoadFailed(x) \/ SetExtractionFailed(x)

ExtractorNext == \E x \in Extractors : ExtractorStep(x) \/ ExtractorCrash(x)
=============================================================================
