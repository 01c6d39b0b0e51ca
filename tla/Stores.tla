------------------------------- MODULE Stores -------------------------------
(***************************************************************************)
(* What the processes share: the PostgreSQL tables, the object store and   *)
(* the Redis lists.  Every other module of the pipeline EXTENDS this one.  *)
(* The local state of each kind of process is declared here too, so that   *)
(* an action can say what it leaves alone; only its own module reads it.   *)
(*                                                                         *)
(* A task row is known by the upload request that inserted it, which lends *)
(* it its name in place of the snowflake id the request draws.  Rows of    *)
(* t_task are never deleted, objects other than logical_tables.json are    *)
(* never deleted, and a popped message is gone (BLPOP, no acknowledgement).*)
(***************************************************************************)
EXTENDS Naturals, Sequences, FiniteSets

CONSTANTS
  Uploads,       \* POST requests that carry a document
  Fingerprint,   \* [Uploads -> documents]: file_hash, file_size and doc_type
  Rules,         \* ids of the active extraction rules, one table code each
  Extractors,    \* extractor processes
  Fixes,         \* PATCH .../results/{result_id} requests of reviewers
  Faults,        \* which dependencies may fail, see FaultKinds
  Absent         \* no row, no task, no status loaded

FaultKinds == {"database", "storage", "queue", "engine", "llm", "crash"}

ASSUME FingerprintAssumption == DOMAIN Fingerprint = Uploads
ASSUME RulesAssumption == Rules \subseteq Nat /\ IsFiniteSet(Rules)
ASSUME SessionsAssumption == Extractors \intersect Fixes = {} /\ IsFiniteSet(Extractors)
ASSUME FaultsAssumption == Faults \subseteq FaultKinds

VARIABLES
  t_task,           \* status of each task row, Absent where there is none
  t_result,         \* t_extracted_result by row id, Absent where there is none
  uncommitted,      \* row writes of each open transaction on t_result
  t_toc,            \* the copies of a document's TOC in t_document_toc
  objects,          \* keys present in the object store
  parser_queue,     \* Redis lists, oldest message first
  extractor_queue,
  reextract_queue

VARIABLES           \* local to the coroutines and workers of one module each
  request,          \* TaskService
  parser,           \* ParserWorker
  extractor,        \* ExtractorWorker
  fix, retriggered  \* ReviewService

results == <<t_result, uncommitted>>
tables == <<t_task, t_result, uncommitted, t_toc>>
queues == <<parser_queue, extractor_queue, reextract_queue>>
stores == <<t_task, t_result, uncommitted, t_toc, objects, parser_queue,
            extractor_queue, reextract_queue>>

notTaskService == <<parser, extractor, fix, retriggered>>
notParser == <<request, extractor, fix, retriggered>>
notExtractor == <<request, parser, fix, retriggered>>
notReview == <<request, parser, extractor>>
vars == <<stores, request, parser, extractor, fix, retriggered>>

TaskStatus == {"QUEUED", "PARSING", "PARSED", "PENDING_REVIEW", "COMPLETED", "FAILED"}
FinalStatus == {"PENDING_REVIEW", "COMPLETED"}

(* Object keys: tasks/{id}/source/..., content_list.json, logical_tables.json. *)
Source(t) == <<"source", t>>
ContentList(t) == <<"content_list", t>>
LogicalTables(t) == <<"logical_tables", t>>
ObjectKeys == {"source", "content_list", "logical_tables"} \X Uploads

(* A result row is inserted by an extractor that found none for the rule, so
   task, rule and extractor name it in place of the id next_id() draws.      *)
RowIds == Uploads \X Rules \X Extractors
Rows == [needs_review : BOOLEAN, fixed : BOOLEAN]

ASSUME AbsentAssumption == Absent \notin Uploads \union RowIds \union Rows \union TaskStatus

TaskPresent(t) == t_task[t] # Absent
WithFingerprint(f) == {t \in Uploads : TaskPresent(t) /\ Fingerprint[t] = f}
ResultIds(t) == {i \in RowIds : i[1] = t /\ t_result[i] # Absent}
Sessions == Extractors \union Fixes

(***************************************************************************)
(* The session's unit of work: an UPDATE names only the columns whose new  *)
(* value differs from the value the session loaded.  A column set to the   *)
(* value it was loaded with keeps whatever another transaction wrote there.*)
(***************************************************************************)
Flushed(current, loaded, new) == IF new = loaded THEN current ELSE new

(***************************************************************************)
(* READ COMMITTED: a session sees committed rows and its own writes, and a *)
(* written row stays locked to its writer until commit or rollback.        *)
(***************************************************************************)
NoWrites == [i \in RowIds |-> Absent]
Visible(s, i) == IF uncommitted[s][i] = Absent THEN t_result[i] ELSE uncommitted[s][i]
VisibleRows(s, t, r) == {i \in {t} \X {r} \X Extractors : Visible(s, i) # Absent}
LockedByOther(s, i) == \E o \in Sessions \ {s} : uncommitted[o][i] # Absent

(* Mutant: the count does not see the session's own writes. *)
CommittedPendingReview(s, t) ==
  \E i \in {t} \X Rules \X Extractors : t_result[i] # Absent /\ t_result[i].needs_review

PendingReview(s, t) ==
  \E i \in {t} \X Rules \X Extractors : Visible(s, i) # Absent /\ Visible(s, i).needs_review

WriteRow(s, i, row) == uncommitted' = [uncommitted EXCEPT ![s][i] = row]
CommitRows(s) ==
  /\ t_result' = [i \in RowIds |-> Visible(s, i)]
  /\ uncommitted' = [uncommitted EXCEPT ![s] = NoWrites]
Rollback(s) ==
  /\ uncommitted' = [uncommitted EXCEPT ![s] = NoWrites]
  /\ UNCHANGED t_result

(* A call that reports a failure may still have taken effect at the server. *)
AfterFailedPut(key) == {objects, objects \union {key}}
AfterFailedPush(queue, message) == {queue, Append(queue, message)}

StoresInit ==
  /\ t_task = [t \in Uploads |-> Absent]
  /\ t_result = [i \in RowIds |-> Absent]
  /\ uncommitted = [s \in Sessions |-> NoWrites]
  /\ t_toc = {}
  /\ objects = {}
  /\ parser_queue = <<>>
  /\ extractor_queue = <<>>
  /\ reextract_queue = <<>>

(* codes = {} is a full run (target_table_codes absent). *)
ExtractorMessages == [task : Uploads, codes : SUBSET Rules]

StoresTypeOK ==
  /\ t_task \in [Uploads -> TaskStatus \union {Absent}]
  /\ t_result \in [RowIds -> Rows \union {Absent}]
  /\ uncommitted \in [Sessions -> [RowIds -> Rows \union {Absent}]]
  /\ t_toc \in SUBSET (Uploads \X Extractors)
  /\ objects \in SUBSET ObjectKeys
  /\ parser_queue \in Seq(Uploads)
  /\ extractor_queue \in Seq(ExtractorMessages)
  /\ reextract_queue \in Seq(ExtractorMessages)
=============================================================================
