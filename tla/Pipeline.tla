------------------------------ MODULE Pipeline ------------------------------
(***************************************************************************)
(* The whole system: the API, the parser service and the extractor as      *)
(* interleaved processes over the shared stores.                           *)
(***************************************************************************)
EXTENDS TaskService, ParserWorker, ExtractorWorker, ReviewService

Init ==
  /\ StoresInit
  /\ RequestInit
  /\ ParserInit
  /\ ExtractorInit
  /\ ReviewInit

Next == RequestNext \/ ParserNext \/ ExtractorNext \/ ReviewNext

Spec == Init /\ [][Next]_vars

(***************************************************************************)
(* Fairness.  A coroutine or worker that can run is run: the event loops   *)
(* and Redis never hold one back for ever.  Nothing obliges a client to    *)
(* send an upload or a fix.                                                *)
(***************************************************************************)
Fairness ==
  /\ \A r \in Uploads : WF_vars(RequestStep(r))
  /\ \A w \in Parsers : WF_vars(ParserStep(w))
  /\ \A x \in Extractors : WF_vars(ExtractorStep(x))

FairSpec == Spec /\ Fairness

----------------------------------------------------------------------------
(* Type correctness of every store and process. *)
TypeOK ==
  /\ StoresTypeOK
  /\ RequestTypeOK
  /\ ParserTypeOK
  /\ ExtractorTypeOK
  /\ ReviewTypeOK

(* The abstract registry's state, read off the table and the replies. *)
Owner ==
  [f \in {Fingerprint[r] : r \in Uploads} |->
     IF WithFingerprint(f) = {} THEN Absent ELSE CHOOSE t \in WithFingerprint(f) : TRUE]
Answer ==
  [r \in Uploads |->
     IF request[r].reply = "none" THEN "pending"
     ELSE IF request[r].reply \in Successes THEN request[r].task ELSE "refused"]
Registry == INSTANCE UploadRegistry WITH owner <- Owner, answer <- Answer

(* The pipeline implements the upload registry: whatever races, dispatch failures,
   redispatches and crashes happen (task_service.py), a document keeps one task
   and every successful reply for it names that task.                            *)
ImplementsRegistry == Registry!Spec

(* One document, one task: two rows never share a fingerprint, and a request that
   holds or was answered a task holds the row of its own document, also after it
   lost the insert race (create_extract_task, _recover_from_duplicate).          *)
SameDocumentSameTask ==
  /\ \A s, t \in Uploads :
       TaskPresent(s) /\ TaskPresent(t) /\ Fingerprint[s] = Fingerprint[t] => s = t
  /\ \A r \in Uploads : request[r].task # Absent =>
       TaskPresent(request[r].task) /\ Fingerprint[request[r].task] = Fingerprint[r]

(* The claim check of both queues: a queued message's object is already stored, so
   a worker that finds it missing has met a storage failure, not a reordering
   (_dispatch_task uploads before it publishes, ParserWorker likewise).            *)
ClaimCheck ==
  /\ \A i \in DOMAIN parser_queue : Source(parser_queue[i]) \in objects
  /\ \A i \in DOMAIN extractor_queue : ContentList(extractor_queue[i].task) \in objects

(* Between dependency failures and retries no QUEUED task is forgotten: it has a
   parser message in the queue or a live request or parser still working on it
   (_dispatch_task, _persist_dispatch_failure, _handle_existing_task).           *)
Dispatching(t) ==
  \/ \E r \in Uploads : request[r].task = t
                        /\ request[r].pc \in {"refresh", "upload", "publish", "persist_failure"}
  \/ \E i \in DOMAIN parser_queue : parser_queue[i] = t
  \/ \E w \in Parsers : parser[w].task = t /\ parser[w].pc \in {"mark_parsing", "set_parsing"}
QueuedMeansDispatched == \A t \in Uploads : t_task[t] = "QUEUED" => Dispatching(t)

Extracted(t) == \A r \in Rules : \E i \in ResultIds(t) : i[2] = r

(* A final status is only written over committed results of every active rule. *)
FinalMeansExtracted == \A t \in Uploads : t_task[t] \in FinalStatus => Extracted(t)

TocStored(t) == \E c \in t_toc : c[1] = t

(* A full extraction is all or nothing under crashes and failures: a task's result
   rows come with its TOC, its TOC with the rows of every active rule, and a final
   status never precedes them (the single transaction of process_message).       *)
ExtractionIsAtomic ==
  /\ FinalMeansExtracted
  /\ \A t \in Uploads :
       /\ ResultIds(t) # {} => TocStored(t)
       /\ TocStored(t) => Extracted(t)

(* A task is PARSED only until its results are committed. *)
ParsedPrecedesResults ==
  \A t \in Uploads : t_task[t] = "PARSED" => ResultIds(t) = {}

(* No open transaction, and the status of an extracted task tells whether rows still
   wait for a reviewer: PENDING_REVIEW exactly when one does (apply_fix, evaluate).  *)
NoOpenTransaction == \A s \in Sessions : uncommitted[s] = NoWrites
RowsPending(t) == \E i \in ResultIds(t) : t_result[i].needs_review
ReviewStatusHonest ==
  \A t \in Uploads : NoOpenTransaction /\ t_task[t] \in FinalStatus =>
    (t_task[t] = "PENDING_REVIEW" <=> RowsPending(t))

(* A committed result row changes only by the commit of a reviewer's fix of that row
   or of a run that extracted the row's task and rule, so a re-extraction leaves the
   results of the tables it was not asked for alone (upsert_result, apply_fix).      *)
WritesRow(i) ==
  \/ \E v \in Fixes : FixAt(v, "commit") /\ fix[v].row = i
  \/ \E x \in Extractors :
       /\ ExtractorAt(x, "commit")
       /\ extractor[x].task = i[1]
       /\ extractor[x].codes = {} \/ i[2] \in extractor[x].codes
OnlySelectedRowsChange ==
  [][\A i \in RowIds : t_result'[i] # t_result[i] => WritesRow(i)]_vars

(* Transactions on t_extracted_result never wait for each other in a circle: two runs
   over one task take its rows in rule order, and a reviewer holds one row at most.  *)
WaitsFor(s, o) ==
  LET wanted == IF s \in Extractors
                THEN IF ExtractorAt(s, "flush") THEN extractor[s].row ELSE Absent
                ELSE IF FixAt(s, "flush") THEN fix[s].row ELSE Absent
  IN s # o /\ wanted # Absent /\ uncommitted[o][wanted] # Absent
NoDeadlock ==
  \A waiting \in (SUBSET Sessions) \ {{}} :
    \E s \in waiting : \A o \in waiting : ~WaitsFor(s, o)

(* Every upload that reached the service is answered or refused, whatever fails. *)
EveryUploadIsAnswered == \A r \in Uploads : request[r].pc # "idle" ~> request[r].pc = "done"

(* A stored task is eventually extracted or reported FAILED: no interleaving of the
   processes strands it, as long as no message, commit or process is lost.         *)
EveryTaskIsSettled ==
  \A t \in Uploads : <>TaskPresent(t) => <>(Extracted(t) \/ t_task[t] = "FAILED")
=============================================================================
