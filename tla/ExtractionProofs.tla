-------------------------- MODULE ExtractionProofs --------------------------
(***************************************************************************)
(* What transactions on t_extracted_result may rely on, for any number of  *)
(* workers, rules and requests and for every choice of failures, proved on *)
(* top of PipelineInv: the locks a session holds (LocksInv) and what a run *)
(* of the extractor has done when it commits (AtomicInv).                  *)
(***************************************************************************)
EXTENDS PipelineProofs, WellFoundedInduction, FiniteSetTheorems

----------------------------------------------------------------------------
(* The least element of a set of naturals; the largest of a finite one.    *)
Below == OpToRel(<, Nat)

LEMMA Least ==
  ASSUME NEW T \in SUBSET Nat, T # {}
  PROVE  \E n \in T : \A m \in T : n <= m
<1>1. IsWellFoundedOn(Below, Nat)
  BY NatLessThanWellFounded DEF Below
<1>2. \A m, n \in Nat : <<m, n>> \in Below <=> m < n
  BY DEF Below, OpToRel
<1>3. PICK n \in T : \A m \in T : ~(<<m, n>> \in Below)
  BY <1>1, WFMin
<1>4. \A m \in T : ~(m < n)
  BY <1>2, <1>3
<1> QED
  BY <1>4

(* The fewer elements are above one, the larger it is. *)
LEMMA Largest ==
  ASSUME NEW S \in SUBSET Nat, IsFiniteSet(S), S # {}
  PROVE  \E n \in S : \A m \in S : m <= n
<1> DEFINE Above(n) == {m \in S : m > n}
           Counts == {k \in Nat : \E n \in S : k = Cardinality(Above(n))}
<1>1. \A n \in S : IsFiniteSet(Above(n)) /\ Cardinality(Above(n)) \in Nat
  <2> TAKE n \in S
  <2>1. Above(n) \in SUBSET S
    OBVIOUS
  <2> HIDE DEF Above
  <2> QED
    BY <2>1, FS_Subset, FS_CardinalityType
<1>2. Counts \in SUBSET Nat /\ Counts # {}
  <2>1. PICK n \in S : TRUE
    OBVIOUS
  <2>2. Cardinality(Above(n)) \in Counts
    BY <1>1
  <2> QED
    BY <2>2
<1>3. PICK n \in S : \A m \in S : Cardinality(Above(n)) <= Cardinality(Above(m))
  <2>1. PICK k \in Counts : \A j \in Counts : k <= j
    <3> HIDE DEF Counts
    <3> QED
      BY <1>2, Least
  <2>2. PICK n \in S : k = Cardinality(Above(n))
    OBVIOUS
  <2>3. \A m \in S : Cardinality(Above(m)) \in Counts
    BY <1>1
  <2> QED
    BY <2>1, <2>2, <2>3
<1>4. ASSUME NEW m \in S, m > n PROVE FALSE
  <2>0. \A k \in S : k \in Nat
    OBVIOUS
  <2>1. Above(m) \in SUBSET Above(n) /\ m \in Above(n) /\ m \notin Above(m)
    <3>1. \A k \in Above(m) : k \in S /\ k > n
      BY <1>4, <2>0
    <3>2. \A k \in Above(m) : k \in Above(n)
      BY <3>1
    <3>3. m \in Above(n) /\ m \notin Above(m)
      BY <1>4, <2>0
    <3> HIDE DEF Above
    <3> QED
      BY <3>2, <3>3
  <2> HIDE DEF Above
  <2>2. Cardinality(Above(m)) < Cardinality(Above(n))
    <3>1. Cardinality(Above(m)) <= Cardinality(Above(n))
          /\ (Cardinality(Above(m)) = Cardinality(Above(n)) => Above(m) = Above(n))
      BY <1>1, <2>1, FS_Subset
    <3> QED
      BY <1>1, <2>1, <3>1
  <2> QED
    BY <1>1, <1>3, <2>2
<1> QED
  BY <1>4

----------------------------------------------------------------------------
(* The row locks.  A run holds and wants rows of the rules it was asked for only,
   and takes them in rule order: what it holds lies below the row in hand, and
   both lie below every rule it still has to do.                                *)
RunLocks(x) ==
  /\ extractor[x].pc \in InTransaction =>
       extractor[x].todo \subseteq SelectedRules(extractor[x].codes)
  /\ extractor[x].pc = "flush" =>
       /\ extractor[x].row[2] \in SelectedRules(extractor[x].codes)
       /\ \A q \in extractor[x].todo : extractor[x].row[2] < q
  /\ \A i \in RowIds : uncommitted[x][i] # Absent =>
       /\ i[2] \in SelectedRules(extractor[x].codes)
       /\ \A q \in extractor[x].todo : i[2] < q
       /\ extractor[x].pc = "flush" => i[2] < extractor[x].row[2]

(* A reviewer's request holds its one row, from its flush to its end. *)
FixLocks(v) ==
  \A i \in RowIds : uncommitted[v][i] # Absent =>
    i = fix[v].row /\ fix[v].pc \in {"count", "load", "commit"}

LocksInv == (\A x \in Extractors : RunLocks(x)) /\ (\A v \in Fixes : FixLocks(v))

----------------------------------------------------------------------------
(* What each step of a run's transaction does to the run; every other step of an
   extractor leaves it outside a transaction.                                   *)
LEMMA Elsewhere ==
  ASSUME ExtractorTypeOK, NEW x \in Extractors, ExtractorStep(x) \/ ExtractorCrash(x)
  PROVE  \A y \in Extractors : y # x => extractor'[y] = extractor[y]
<1> USE DEF ExtractorTypeOK
<1>1. \A pc : ExtractorGoto(x, pc) => \A y \in Extractors : y # x => extractor'[y] = extractor[y]
  BY DEF ExtractorGoto
<1>2. ExtractorDone(x) => \A y \in Extractors : y # x => extractor'[y] = extractor[y]
  BY DEF ExtractorDone
<1>3. CASE PollReextract(x) \/ PollExtract(x)
  BY <1>1, <1>2, <1>3 DEF PollReextract, PollExtract, TakeMessage
<1>4. CASE DownloadContentList(x) \/ CheckTask(x) \/ StoreLogicalTables(x) \/ ReplaceToc(x)
  BY <1>1, <1>2, <1>4 DEF DownloadContentList, CheckTask, StoreLogicalTables, ReplaceToc
<1>5. CASE BeginExtraction(x) \/ DeleteToc(x) \/ LoadFailed(x) \/ EvaluateStatus(x)
  BY <1>2, <1>5 DEF BeginExtraction, DeleteToc, LoadFailed, EvaluateStatus
<1>6. CASE SelectResult(x)
  BY <1>6 DEF SelectResult
<1>7. CASE FlushResult(x)
  BY <1>7 DEF FlushResult
<1>8. CASE \/ MultipleResultsFound(x) \/ LLMFallbackFails(x) \/ CommitExtraction(x)
           \/ ExtractionDatabaseError(x) \/ CleanupLogicalTables(x) \/ SetExtractionFailed(x)
           \/ ExtractorCrash(x)
  BY <1>1, <1>2, <1>8 DEF MultipleResultsFound, LLMFallbackFails, CommitExtraction,
     ExtractionDatabaseError, CleanupLogicalTables, SetExtractionFailed, ExtractorCrash
<1> QED
  BY <1>3, <1>4, <1>5, <1>6, <1>7, <1>8 DEF ExtractorStep

LEMMA InsideTransaction ==
  ASSUME ExtractorTypeOK, NEW x \in Extractors, ExtractorStep(x) \/ ExtractorCrash(x),
         extractor'[x].pc \in InTransaction
  PROVE  \/ BeginExtraction(x) \/ DeleteToc(x) \/ ReplaceToc(x) \/ SelectResult(x)
         \/ FlushResult(x) \/ EvaluateStatus(x)
<1>1. \A pc : ExtractorGoto(x, pc) => extractor'[x].pc = pc
  BY DEF ExtractorGoto, ExtractorTypeOK, ExtractorRuns
<1>2. ExtractorDone(x) => extractor'[x].pc = "poll_reextract"
  BY DEF ExtractorDone, ExtractorTypeOK, PollingExtractor
<1>3. \A m : TakeMessage(x, m) => extractor'[x].pc = "download"
  BY DEF TakeMessage, ExtractorTypeOK, ExtractorRuns
<1>4. ~(PollReextract(x) \/ PollExtract(x))
  BY <1>1, <1>2, <1>3 DEF PollReextract, PollExtract, ExtractorAt, InTransaction
<1>5. ~(DownloadContentList(x) \/ CheckTask(x) \/ StoreLogicalTables(x))
  BY <1>1, <1>2 DEF DownloadContentList, CheckTask, StoreLogicalTables, InTransaction
<1>6. ~(MultipleResultsFound(x) \/ LLMFallbackFails(x) \/ CommitExtraction(x)
        \/ ExtractionDatabaseError(x) \/ CleanupLogicalTables(x) \/ SetExtractionFailed(x)
        \/ ExtractorCrash(x))
  BY <1>1, <1>2 DEF MultipleResultsFound, LLMFallbackFails, CommitExtraction,
     ExtractionDatabaseError, CleanupLogicalTables, SetExtractionFailed, ExtractorCrash,
     InTransaction
<1>7. ~LoadFailed(x)
  BY <1>2 DEF LoadFailed, ExtractorTypeOK, ExtractorRuns, InTransaction
<1> QED
  BY <1>4, <1>5, <1>6, <1>7 DEF ExtractorStep

LEMMA Begun ==
  ASSUME ExtractorTypeOK, NEW x \in Extractors, BeginExtraction(x)
  PROVE  /\ extractor[x].pc = "begin" /\ extractor'[x].pc = "delete_toc"
         /\ extractor'[x].task = extractor[x].task /\ extractor'[x].codes = extractor[x].codes
         /\ extractor'[x].todo = SelectedRules(extractor[x].codes)
BY DEF BeginExtraction, ExtractorAt, ExtractorTypeOK, ExtractorRuns

LEMMA TocDeleted ==
  ASSUME ExtractorTypeOK, NEW x \in Extractors, DeleteToc(x)
  PROVE  /\ extractor[x].pc = "delete_toc" /\ extractor'[x].pc = "replace_toc"
         /\ extractor'[x].task = extractor[x].task /\ extractor'[x].codes = extractor[x].codes
         /\ extractor'[x].old_toc = {c \in t_toc : c[1] = extractor[x].task}
         /\ extractor'[x].todo = extractor[x].todo
BY DEF DeleteToc, ExtractorAt, ExtractorTypeOK, ExtractorRuns

LEMMA TocReplaced ==
  ASSUME ExtractorTypeOK, NEW x \in Extractors, ReplaceToc(x)
  PROVE  /\ extractor[x].pc = "replace_toc" /\ extractor'[x].pc \in {"evaluate", "upsert"}
         /\ extractor'[x].pc = "evaluate" => extractor[x].todo = {}
         /\ extractor'[x].task = extractor[x].task /\ extractor'[x].codes = extractor[x].codes
         /\ extractor'[x].old_toc = extractor[x].old_toc
         /\ extractor'[x].todo = extractor[x].todo
<1>1. PICK pc \in {"evaluate", "upsert"} :
        ExtractorGoto(x, pc) /\ (pc = "evaluate" => extractor[x].todo = {})
  BY DEF ReplaceToc
<1> QED
  BY <1>1 DEF ReplaceToc, ExtractorGoto, ExtractorAt, ExtractorTypeOK, ExtractorRuns

LEMMA Selected ==
  ASSUME TypeOK, ExtractorInv, NEW x \in Extractors, SelectResult(x)
  PROVE  /\ extractor[x].pc = "upsert" /\ extractor'[x].pc = "flush"
         /\ extractor'[x].task = extractor[x].task /\ extractor'[x].codes = extractor[x].codes
         /\ extractor'[x].old_toc = extractor[x].old_toc
         /\ extractor'[x].row \in RowIds
         /\ extractor'[x].row[2] \in NextRules(extractor[x].todo)
         /\ extractor'[x].todo = extractor[x].todo \ {extractor'[x].row[2]}
<1> USE DEF TypeOK
<1>1. extractor[x] \in ExtractorRuns /\ extractor[x].pc = "upsert"
  BY DEF SelectResult, ExtractorAt, ExtractorTypeOK
<1>2. extractor[x].task \in Uploads
  BY <1>1 DEF ExtractorInv, RunInv, ExtractorRuns
<1>3. PICK r \in NextRules(extractor[x].todo), review \in {NeedsReview(o) : o \in Outcomes} :
        \E i \in IF VisibleRows(x, extractor[x].task, r) = {} THEN {<<extractor[x].task, r, x>>}
                  ELSE VisibleRows(x, extractor[x].task, r) :
          extractor' = [extractor EXCEPT
              ![x].pc = "flush", ![x].todo = @ \ {r}, ![x].row = i,
              ![x].loaded_row = Visible(x, i), ![x].review = review,
              ![x].any_review = @ \/ review]
  BY DEF SelectResult
<1>4. PICK i \in IF VisibleRows(x, extractor[x].task, r) = {} THEN {<<extractor[x].task, r, x>>}
                 ELSE VisibleRows(x, extractor[x].task, r) :
        extractor' = [extractor EXCEPT
              ![x].pc = "flush", ![x].todo = @ \ {r}, ![x].row = i,
              ![x].loaded_row = Visible(x, i), ![x].review = review,
              ![x].any_review = @ \/ review]
  BY <1>3
<1>5. r \in Rules
  BY <1>1 DEF NextRules, ExtractorRuns
<1>6. i \in RowIds /\ i[2] = r
  BY <1>2, <1>5 DEF VisibleRows, RowIds
<1>7. /\ extractor'[x].pc = "flush" /\ extractor'[x].row = i
      /\ extractor'[x].task = extractor[x].task /\ extractor'[x].codes = extractor[x].codes
      /\ extractor'[x].old_toc = extractor[x].old_toc
      /\ extractor'[x].todo = extractor[x].todo \ {r}
  BY <1>4, <1>1 DEF ExtractorTypeOK, ExtractorRuns
<1> QED
  BY <1>1, <1>6, <1>7

LEMMA RowFlushed ==
  ASSUME TypeOK, NEW x \in Extractors, FlushResult(x), extractor[x].row \in RowIds
  PROVE  /\ extractor[x].pc = "flush"
         /\ extractor'[x].pc = IF extractor[x].todo = {} THEN "evaluate" ELSE "upsert"
         /\ extractor'[x].task = extractor[x].task /\ extractor'[x].codes = extractor[x].codes
         /\ extractor'[x].old_toc = extractor[x].old_toc
         /\ extractor'[x].todo = extractor[x].todo
         /\ \A i \in RowIds : i # extractor[x].row => uncommitted'[x][i] = uncommitted[x][i]
         /\ uncommitted'[x][extractor[x].row] = UpsertedRow(x)
<1>1. extractor[x].pc = "flush"
  BY DEF FlushResult, ExtractorAt
<1>2. x \in Sessions
  BY DEF Sessions
<1>3. /\ \A i \in RowIds : i # extractor[x].row => uncommitted'[x][i] = uncommitted[x][i]
      /\ uncommitted'[x][extractor[x].row] = UpsertedRow(x)
  BY <1>2 DEF FlushResult, WriteRow, TypeOK, StoresTypeOK
<1>4. /\ extractor'[x].pc = IF extractor[x].todo = {} THEN "evaluate" ELSE "upsert"
      /\ extractor'[x].task = extractor[x].task /\ extractor'[x].codes = extractor[x].codes
      /\ extractor'[x].old_toc = extractor[x].old_toc
      /\ extractor'[x].todo = extractor[x].todo
  <2> DEFINE pc == IF extractor[x].todo = {} THEN "evaluate" ELSE "upsert"
             c == [extractor[x] EXCEPT !.pc = pc, !.row = Absent, !.loaded_row = Absent,
                                       !.review = FALSE]
  <2>1. extractor'[x] = c
    BY DEF FlushResult, TypeOK, ExtractorTypeOK, ExtractorRuns
  <2>2. c.pc = pc /\ c.task = extractor[x].task /\ c.codes = extractor[x].codes
        /\ c.old_toc = extractor[x].old_toc /\ c.todo = extractor[x].todo
    <3> HIDE DEF pc
    <3> QED
      BY DEF TypeOK, ExtractorTypeOK, ExtractorRuns
  <2> HIDE DEF c
  <2> QED
    BY <2>1, <2>2
<1> QED
  BY <1>1, <1>3, <1>4

LEMMA Evaluated ==
  ASSUME ExtractorTypeOK, NEW x \in Extractors, EvaluateStatus(x)
  PROVE  /\ extractor[x].pc = "evaluate" /\ extractor'[x].pc = "commit"
         /\ extractor'[x].task = extractor[x].task /\ extractor'[x].codes = extractor[x].codes
         /\ extractor'[x].old_toc = extractor[x].old_toc
         /\ extractor'[x].todo = extractor[x].todo
BY DEF EvaluateStatus, ExtractorAt, ExtractorTypeOK, ExtractorRuns

----------------------------------------------------------------------------
(* The steps that leave t_extracted_result, the TOC, the runs and the fixes alone:
   those of the API's upload route, of the parser and of the retrigger route. None
   of them writes a final status.                                                 *)
Quiet ==
  /\ UNCHANGED <<results, t_toc, extractor, fix>>
  /\ \A t \in Uploads : t_task'[t] = t_task[t] \/ t_task'[t] \notin FinalStatus

LEMMA FlushedStatus ==
  ASSUME StoresTypeOK, NEW u \in Uploads, NEW loaded, NEW status, status \notin FinalStatus,
         t_task' = [t_task EXCEPT ![u] = Flushed(t_task[u], loaded, status)]
  PROVE  \A t \in Uploads : t_task'[t] = t_task[t] \/ t_task'[t] \notin FinalStatus
BY DEF StoresTypeOK, Flushed

LEMMA RequestQuiet ==
  ASSUME TypeOK, RequestInv, NEW r \in Uploads,
         FindExisting(r) \/ RequestStep(r) \/ RequestCrash(r)
  PROVE  Quiet /\ UNCHANGED <<extractor_queue, reextract_queue>>
<1> USE DEF TypeOK
<1>1. CASE UNCHANGED stores
  BY <1>1 DEF FindExisting, Touch, InsertTask, RefreshTask, RecoverFromDuplicate, UploadSource,
     PublishParserTask, Requeue, PersistDispatchFailure, RequestCrash, RequestStep, stores,
     results, notTaskService, Quiet
<1>2. CASE InsertTask(r)
  BY <1>2 DEF InsertTask, StoresTypeOK, FinalStatus, results, queues, notTaskService, Quiet
<1>3. CASE UploadSource(r) \/ PublishParserTask(r)
  BY <1>3 DEF UploadSource, PublishParserTask, tables, results, queues, notTaskService, Quiet
<1>4. CASE Requeue(r) \/ PersistDispatchFailure(r)
  <2>1. request[r].task \in Uploads
    BY <1>4 DEF Requeue, PersistDispatchFailure, At, RequestInv, AfterBinding, RequestTypeOK
  <2>2. PICK status \in {"QUEUED", "FAILED"} : SetLoadedTask(r, status) \/ UNCHANGED t_task
    BY <1>4 DEF Requeue, PersistDispatchFailure
  <2>3. status \notin FinalStatus
    BY DEF FinalStatus
  <2>4. \A t \in Uploads : t_task'[t] = t_task[t] \/ t_task'[t] \notin FinalStatus
    BY <2>1, <2>2, <2>3, FlushedStatus DEF SetLoadedTask
  <2> QED
    BY <1>4, <2>4 DEF Requeue, PersistDispatchFailure, results, queues, notTaskService, Quiet
<1> QED
  BY <1>1, <1>2, <1>3, <1>4 DEF RequestStep, FindExisting, Touch, RefreshTask,
     RecoverFromDuplicate, RequestCrash

LEMMA ParserQuiet ==
  ASSUME TypeOK, ParserInv, NEW w \in Parsers, ParserStep(w) \/ ParserCrash(w)
  PROVE  /\ Quiet /\ UNCHANGED reextract_queue
         /\ \/ UNCHANGED extractor_queue
            \/ extractor_queue' = Append(extractor_queue, ExtractorMessage(w))
<1> USE DEF TypeOK
<1>1. CASE UNCHANGED stores
  BY <1>1 DEF ParserStep, ParserCrash, ConsumeParserTask, MarkParsing, MarkParsed, MarkFailed,
     SetParsing, SetParsed, SetFailed, Parse, StoreContentList, PublishExtractorTask, ParserLoad,
     ParserFinish, stores, results, notParser, Quiet
<1>2. CASE ConsumeParserTask(w) \/ StoreContentList(w) \/ PublishExtractorTask(w)
  BY <1>2 DEF ConsumeParserTask, StoreContentList, PublishExtractorTask, AfterFailedPush, tables,
     results, queues, notParser, Quiet
<1>3. CASE SetParsing(w) \/ SetParsed(w) \/ SetFailed(w)
  <2>1. parser[w].task \in Uploads
    BY <1>3 DEF SetParsing, SetParsed, SetFailed, ParserFinish, ParserAt, ParserInv, ParserTypeOK
  <2>2. PICK status \in {"PARSING", "PARSED", "FAILED"} :
          ParserSet(w, status) \/ UNCHANGED t_task
    BY <1>3 DEF SetParsing, SetParsed, SetFailed, ParserFinish
  <2>3. status \notin FinalStatus
    BY DEF FinalStatus
  <2>4. \A t \in Uploads : t_task'[t] = t_task[t] \/ t_task'[t] \notin FinalStatus
    BY <2>1, <2>2, <2>3, FlushedStatus DEF ParserSet
  <2> QED
    BY <1>3, <2>4 DEF SetParsing, SetParsed, SetFailed, ParserFinish, results, queues, notParser,
       Quiet
<1> QED
  BY <1>1, <1>2, <1>3 DEF ParserStep, ParserCrash, MarkParsing, MarkParsed, MarkFailed,
     ParserLoad, Parse

LEMMA RetriggerQuiet ==
  ASSUME NEW q \in Retriggers, Retrigger(q)
  PROVE  Quiet /\ UNCHANGED extractor_queue
BY DEF Retrigger, tables, results, notReview, Quiet

(* A step is quiet, or one of a run or a reviewer's request; others stand by. *)
LEMMA Steps ==
  ASSUME PipelineInv, Next
  PROVE  \/ Quiet
         \/ \E x \in Extractors :
              /\ ExtractorStep(x) \/ ExtractorCrash(x)
              /\ WritesKept(Sessions \ {x}) /\ UNCHANGED fix
         \/ \E v \in Fixes :
              /\ SelectFix(v) \/ FixStep(v) \/ FixFails(v)
              /\ WritesKept(Sessions \ {v}) /\ UNCHANGED <<extractor, t_toc>>
<1> USE DEF PipelineInv
<1>1. CASE RequestNext
  BY <1>1, RequestQuiet DEF RequestNext
<1>2. CASE ParserNext
  BY <1>2, ParserQuiet DEF ParserNext
<1>3. ASSUME NEW x \in Extractors, ExtractorStep(x) \/ ExtractorCrash(x)
      PROVE  WritesKept(Sessions \ {x}) /\ UNCHANGED fix
  <2>1. WritesKept(Sessions \ {x})
    BY <1>3, ExtractorStepInv
  <2>2. UNCHANGED notExtractor
    BY <1>3 DEF ExtractorStep, PollReextract, PollExtract, DownloadContentList, CheckTask,
                StoreLogicalTables, BeginExtraction, DeleteToc, ReplaceToc, SelectResult,
                MultipleResultsFound, LLMFallbackFails, FlushResult, EvaluateStatus,
                CommitExtraction, ExtractionDatabaseError, CleanupLogicalTables, LoadFailed,
                SetExtractionFailed, ExtractorCrash
  <2> QED
    BY <2>1, <2>2 DEF notExtractor
<1>4. ASSUME NEW v \in Fixes, SelectFix(v) \/ FixStep(v) \/ FixFails(v)
      PROVE  WritesKept(Sessions \ {v}) /\ UNCHANGED <<extractor, t_toc>>
  <2>1. WritesKept(Sessions \ {v})
    BY <1>4, FixStepInv
  <2>2. UNCHANGED <<extractor, t_toc>>
    BY <1>4 DEF SelectFix, FixStep, FlushFix, CountPending, LoadTask, CommitFix, FixFails,
                stores, notReview
  <2> QED
    BY <2>1, <2>2
<1>5. CASE ReviewNext
  BY <1>4, <1>5, RetriggerQuiet DEF ReviewNext
<1> QED
  BY <1>1, <1>2, <1>3, <1>5 DEF Next, ExtractorNext

----------------------------------------------------------------------------
(* LocksInv is inductive relative to PipelineInv. *)
LEMMA RunLocksStep ==
  ASSUME PipelineInv, PipelineInv', LocksInv, NEW x \in Extractors,
         ExtractorStep(x) \/ ExtractorCrash(x)
  PROVE  RunLocks(x)'
<1> USE DEF PipelineInv
<1>a. TypeOK /\ ExtractorTypeOK /\ ExtractorInv /\ RunInv(x) /\ RunInv(x)' /\ RunLocks(x)
  BY DEF TypeOK, ExtractorInv, LocksInv
<1>b. Rules \subseteq Nat /\ extractor[x].todo \subseteq Rules
  BY <1>a, RulesAssumption DEF ExtractorTypeOK, ExtractorRuns
<1>c. \A i \in RowIds : i[2] \in Rules
  BY DEF RowIds
<1>1. CASE extractor'[x].pc \notin InTransaction
  BY <1>1, <1>a DEF RunLocks, RunInv, InTransaction
<1>2. CASE BeginExtraction(x)
  <2>1. \A i \in RowIds : uncommitted'[x][i] = Absent
    BY <1>2, <1>a, Begun DEF BeginExtraction, stores, RunInv, InTransaction
  <2> QED
    BY <1>2, <1>a, <2>1, Begun DEF RunLocks
<1>3. CASE DeleteToc(x) \/ ReplaceToc(x) \/ EvaluateStatus(x)
  <2>1. uncommitted' = uncommitted
    BY <1>3 DEF DeleteToc, ReplaceToc, EvaluateStatus, stores
  <2>2. /\ extractor[x].pc \in InTransaction /\ extractor'[x].pc # "flush"
        /\ extractor'[x].todo = extractor[x].todo /\ extractor'[x].codes = extractor[x].codes
    BY <1>3, <1>a, TocDeleted, TocReplaced, Evaluated DEF InTransaction
  <2> QED
    BY <1>a, <2>1, <2>2 DEF RunLocks
<1>4. CASE SelectResult(x)
  <2>1. uncommitted' = uncommitted
    BY <1>4 DEF SelectResult, stores
  <2> DEFINE r == extractor'[x].row[2]
  <2>2. /\ r \in extractor[x].todo /\ r \in Nat
        /\ extractor'[x].todo = extractor[x].todo \ {r}
        /\ extractor'[x].codes = extractor[x].codes
        /\ extractor[x].pc \in InTransaction
    BY <1>4, <1>a, <1>b, Selected DEF NextRules, InTransaction
  <2>3. \A q \in extractor'[x].todo : r < q
    <3>1. \A q \in extractor[x].todo : r <= q
      BY <1>4, <1>a, Selected DEF NextRules
    <3>2. \A q \in extractor[x].todo : q \in Nat
      BY <1>b
    <3>3. \A q \in extractor'[x].todo : q \in extractor[x].todo /\ q # r
      BY <2>2
    <3> HIDE DEF r
    <3> QED
      BY <2>2, <3>1, <3>2, <3>3
  <2>4. \A i \in RowIds : uncommitted'[x][i] # Absent =>
          /\ i[2] \in SelectedRules(extractor[x].codes)
          /\ \A q \in extractor'[x].todo : i[2] < q
          /\ i[2] < r
    BY <1>a, <2>1, <2>2 DEF RunLocks
  <2>5. r \in SelectedRules(extractor[x].codes)
        /\ extractor[x].todo \subseteq SelectedRules(extractor[x].codes)
    BY <1>a, <2>2 DEF RunLocks
  <2> QED
    BY <2>2, <2>3, <2>4, <2>5 DEF RunLocks
<1>5. CASE FlushResult(x)
  <2>1. extractor[x].row \in RowIds /\ extractor[x].pc \in InTransaction
    BY <1>5, <1>a DEF FlushResult, ExtractorAt, RunInv, InTransaction
  <2>2. /\ extractor[x].pc = "flush" /\ extractor'[x].pc # "flush"
        /\ extractor'[x].todo = extractor[x].todo
        /\ extractor'[x].codes = extractor[x].codes
        /\ \A i \in RowIds : i # extractor[x].row => uncommitted'[x][i] = uncommitted[x][i]
    BY <1>5, <1>a, <2>1, RowFlushed
  <2> QED
    BY <1>a, <2>1, <2>2 DEF RunLocks
<1> QED
  BY <1>a, <1>1, <1>2, <1>3, <1>4, <1>5, InsideTransaction

LEMMA FixLocksStep ==
  ASSUME PipelineInv, LocksInv, NEW v \in Fixes, SelectFix(v) \/ FixStep(v) \/ FixFails(v)
  PROVE  FixLocks(v)'
<1> USE DEF PipelineInv
<1>a. ReviewTypeOK /\ StoresTypeOK /\ FixLocks(v) /\ v \in Sessions
  BY DEF TypeOK, LocksInv, Sessions
<1>1. CASE SelectFix(v)
  <2>1. \A i \in RowIds : uncommitted'[v][i] = Absent
    BY <1>1, <1>a DEF SelectFix, FixAt, FixLocks, stores
  <2> QED
    BY <2>1 DEF FixLocks
<1>2. CASE FlushFix(v)
  <2>1. fix'[v].pc = "count" /\ fix'[v].row = fix[v].row
    BY <1>2, <1>a DEF FlushFix, ReviewTypeOK, FixRecords
  <2>2. \A i \in RowIds : i # fix[v].row => uncommitted'[v][i] = Absent
    <3>1. \A i \in RowIds : uncommitted[v][i] = Absent
      BY <1>2, <1>a DEF FlushFix, FixAt, FixLocks
    <3> QED
      BY <1>2, <1>a, <3>1 DEF FlushFix, WriteRow, StoresTypeOK
  <2> QED
    BY <2>1, <2>2 DEF FixLocks
<1>3. CASE CountPending(v) \/ LoadTask(v)
  <2>1. fix'[v].pc \in {"load", "commit"} /\ fix'[v].row = fix[v].row
    BY <1>3, <1>a DEF CountPending, LoadTask, ReviewTypeOK, FixRecords
  <2> QED
    BY <1>3, <1>a, <2>1 DEF CountPending, LoadTask, FixLocks, stores
<1>4. CASE CommitFix(v) \/ FixFails(v)
  <2>1. \A i \in RowIds : uncommitted'[v][i] = Absent
    BY <1>4, <1>a DEF CommitFix, FixFails, CommitRows, Rollback, NoWrites, StoresTypeOK
  <2> QED
    BY <2>1 DEF FixLocks
<1> QED
  BY <1>1, <1>2, <1>3, <1>4 DEF FixStep

LEMMA LocksNext == PipelineInv /\ PipelineInv' /\ LocksInv /\ [Next]_vars => LocksInv'
<1> SUFFICES ASSUME PipelineInv, PipelineInv', LocksInv, [Next]_vars PROVE LocksInv'
  OBVIOUS
<1>a. Sessions = Extractors \union Fixes /\ Extractors \intersect Fixes = {}
  BY SessionsAssumption DEF Sessions
<1>b. ExtractorTypeOK /\ ReviewTypeOK
  BY DEF PipelineInv, TypeOK
(* A session whose record and writes did not change. *)
<1>c. ASSUME NEW x \in Extractors, extractor'[x] = extractor[x],
             uncommitted'[x] = uncommitted[x]
      PROVE  RunLocks(x)'
  BY <1>c DEF LocksInv, RunLocks
<1>d. ASSUME NEW v \in Fixes, fix'[v] = fix[v], uncommitted'[v] = uncommitted[v]
      PROVE  FixLocks(v)'
  BY <1>d DEF LocksInv, FixLocks
<1>1. CASE UNCHANGED vars \/ Quiet
  BY <1>1, <1>c, <1>d DEF vars, stores, results, Quiet, LocksInv
<1>2. ASSUME NEW x \in Extractors, ExtractorStep(x) \/ ExtractorCrash(x),
             WritesKept(Sessions \ {x}), UNCHANGED fix
      PROVE  LocksInv'
  <2>1. \A y \in Extractors : y # x => RunLocks(y)'
    BY <1>2, <1>a, <1>b, <1>c, Elsewhere DEF WritesKept
  <2>2. \A v \in Fixes : FixLocks(v)'
    BY <1>2, <1>a, <1>d DEF WritesKept
  <2> QED
    BY <1>2, <2>1, <2>2, RunLocksStep DEF LocksInv
<1>3. ASSUME NEW v \in Fixes, SelectFix(v) \/ FixStep(v) \/ FixFails(v),
             WritesKept(Sessions \ {v}), UNCHANGED extractor
      PROVE  LocksInv'
  <2>1. \A u \in Fixes : u # v => fix'[u] = fix[u]
    BY <1>3, <1>b DEF SelectFix, FixStep, FlushFix, CountPending, LoadTask, CommitFix, FixFails,
       FixDone, ReviewTypeOK
  <2>2. \A u \in Fixes : u # v => FixLocks(u)'
    BY <1>3, <1>a, <1>d, <2>1 DEF WritesKept
  <2>3. \A x \in Extractors : RunLocks(x)'
    BY <1>3, <1>a, <1>c DEF WritesKept
  <2> QED
    BY <1>3, <2>2, <2>3, FixLocksStep DEF LocksInv
<1> QED
  BY <1>1, <1>2, <1>3, Steps

LEMMA LocksInit == Init => LocksInv
<1> SUFFICES ASSUME Init PROVE LocksInv
  OBVIOUS
<1>1. \A s \in Sessions, i \in RowIds : uncommitted[s][i] = Absent
  BY DEF Init, StoresInit, NoWrites
<1>2. \A x \in Extractors : extractor[x].pc = "poll_reextract"
  BY DEF Init, ExtractorInit, PollingExtractor
<1> QED
  BY <1>1, <1>2 DEF LocksInv, RunLocks, FixLocks, Sessions, InTransaction

(* Every lock is held by a run or a request that is about its row. *)
THEOREM LocksHeld == Spec => []LocksInv
BY LocksInit, LocksNext, Invariance, PTL DEF Spec

----------------------------------------------------------------------------
(* t_extracted_result changes by commits alone. *)
LEMMA OnlyCommits ==
  ASSUME PipelineInv, Next
  PROVE  \/ UNCHANGED t_result
         \/ \E x \in Extractors : CommitExtraction(x)
         \/ \E v \in Fixes : CommitFix(v)
<1>1. ASSUME NEW x \in Extractors, ExtractorStep(x) \/ ExtractorCrash(x)
      PROVE  UNCHANGED t_result \/ CommitExtraction(x)
  BY <1>1 DEF ExtractorStep, PollReextract, PollExtract, DownloadContentList, CheckTask,
              StoreLogicalTables, BeginExtraction, DeleteToc, ReplaceToc, SelectResult,
              MultipleResultsFound, LLMFallbackFails, FlushResult, EvaluateStatus,
              ExtractionDatabaseError, CleanupLogicalTables, LoadFailed,
              SetExtractionFailed, ExtractorCrash, Rollback, stores, tables, results
<1>2. ASSUME NEW v \in Fixes, SelectFix(v) \/ FixStep(v) \/ FixFails(v)
      PROVE  UNCHANGED t_result \/ CommitFix(v)
  BY <1>2 DEF SelectFix, FixStep, FlushFix, CountPending, LoadTask, FixFails, Rollback, stores
<1> QED
  BY <1>1, <1>2, Steps DEF Quiet, results

LEMMA RowChanges ==
  ASSUME PipelineInv, LocksInv, Next, NEW i \in RowIds, t_result'[i] # t_result[i]
  PROVE  WritesRow(i)
<1>1. ASSUME NEW x \in Extractors, CommitExtraction(x)
      PROVE  WritesRow(i)
  <2>1. uncommitted[x][i] # Absent
    BY <1>1 DEF CommitExtraction, CommitRows, Visible
  <2>2. i[1] = extractor[x].task
    BY <2>1 DEF PipelineInv, ExtractorInv, RunInv
  <2>3. i[2] \in SelectedRules(extractor[x].codes)
    BY <2>1 DEF LocksInv, RunLocks
  <2> QED
    BY <1>1, <2>2, <2>3 DEF CommitExtraction, WritesRow, SelectedRules
<1>2. ASSUME NEW v \in Fixes, CommitFix(v)
      PROVE  WritesRow(i)
  <2>1. uncommitted[v][i] # Absent
    BY <1>2 DEF CommitFix, CommitRows, Visible
  <2> QED
    BY <1>2, <2>1 DEF LocksInv, FixLocks, CommitFix, WritesRow
<1> QED
  BY <1>1, <1>2, OnlyCommits

(* Whatever runs, fixes, retriggers, failures and crashes interleave, a commit changes
   no result row but the reviewer's, or those of the rules its run was asked for
   (upsert_result under target_table_codes, apply_fix).                             *)
THEOREM SelectedRowsChange == Spec => OnlySelectedRowsChange
<1>1. PipelineInv /\ LocksInv /\ [Next]_vars =>
        [\A i \in RowIds : t_result'[i] # t_result[i] => WritesRow(i)]_vars
  BY RowChanges
<1> QED
  BY <1>1, Invariance, LocksHeld, PTL DEF Spec, OnlySelectedRowsChange

----------------------------------------------------------------------------
(* Who is waited for holds a row of a lower rule than it wants itself. *)
LEMMA WaitersAscend ==
  ASSUME PipelineInv, LocksInv, NEW s \in Sessions, NEW o \in Sessions, NEW p \in Sessions,
         WaitsFor(s, o), WaitsFor(o, p)
  PROVE  /\ o \in Extractors /\ extractor[o].pc = "flush"
         /\ s \in Extractors => extractor[s].row[2] < extractor[o].row[2]
<1> DEFINE wanted(q) == IF q \in Extractors
                        THEN IF ExtractorAt(q, "flush") THEN extractor[q].row ELSE Absent
                        ELSE IF FixAt(q, "flush") THEN fix[q].row ELSE Absent
<1>1. wanted(s) # Absent /\ wanted(o) # Absent /\ uncommitted[o][wanted(s)] # Absent
  BY DEF WaitsFor
<1>2. wanted(s) \in RowIds
  <2>1. s \in Extractors => extractor[s].row \in RowIds \union {Absent}
    BY DEF PipelineInv, TypeOK, ExtractorTypeOK, ExtractorRuns
  <2>2. s \in Fixes => fix[s].row \in RowIds \union {Absent}
    BY DEF PipelineInv, TypeOK, ReviewTypeOK, FixRecords
  <2> QED
    BY <1>1, <2>1, <2>2 DEF Sessions
<1>3. o \notin Fixes \ Extractors
  BY <1>1, <1>2 DEF LocksInv, FixLocks, FixAt
<1>4. o \in Extractors /\ extractor[o].pc = "flush"
  BY <1>1, <1>3 DEF Sessions, ExtractorAt
<1>5. wanted(s)[2] < extractor[o].row[2]
  BY <1>1, <1>2, <1>4 DEF LocksInv, RunLocks
<1>6. s \in Extractors => wanted(s) = extractor[s].row
  BY <1>1
<1> QED
  BY <1>4, <1>5, <1>6

(* No set of sessions waits within itself: of those waiting runs, take the one that
   wants the row of the highest rule.                                             *)
LEMMA NoCircle == PipelineInv /\ LocksInv => NoDeadlock
<1> SUFFICES ASSUME PipelineInv, LocksInv, NEW waiting \in (SUBSET Sessions) \ {{}}
             PROVE  \E s \in waiting : \A o \in waiting : ~WaitsFor(s, o)
  BY DEF NoDeadlock
<1> SUFFICES ASSUME \A s \in waiting : \E o \in waiting : WaitsFor(s, o)
             PROVE  FALSE
  OBVIOUS
<1> DEFINE runs == {s \in waiting : s \in Extractors /\ extractor[s].pc = "flush"}
           wanted == {r \in Rules : \E s \in runs : r = extractor[s].row[2]}
<1>1. \A s \in waiting : \E o \in runs :
        s \in runs => extractor[s].row[2] < extractor[o].row[2]
  <2> TAKE s \in waiting
  <2>1. PICK o \in waiting : WaitsFor(s, o)
    OBVIOUS
  <2>2. PICK p \in waiting : WaitsFor(o, p)
    OBVIOUS
  <2> QED
    BY <2>1, <2>2, WaitersAscend
<1>2. \A s \in runs : extractor[s].row[2] \in wanted
  <2>1. \A s \in runs : extractor[s].row \in RowIds
    BY DEF PipelineInv, ExtractorInv, RunInv
  <2>2. \A i \in RowIds : i[2] \in Rules
    BY DEF RowIds
  <2> QED
    BY <2>1, <2>2
<1>3. wanted \in SUBSET Nat /\ IsFiniteSet(wanted) /\ wanted # {}
  <2>1. wanted \in SUBSET Rules
    OBVIOUS
  <2>2. wanted # {}
    <3>1. PICK s \in waiting : TRUE
      OBVIOUS
    <3>2. PICK o \in runs : TRUE
      BY <1>1, <3>1
    <3>3. extractor[o].row[2] \in wanted
      BY <1>2, <3>2
    <3> QED
      BY <3>3
  <2> HIDE DEF wanted
  <2> QED
    BY <2>1, <2>2, RulesAssumption, FS_Subset
<1>4. PICK r \in wanted : \A q \in wanted : q <= r
  <2> HIDE DEF wanted
  <2> QED
    BY <1>3, Largest
<1>5. PICK s \in runs : r = extractor[s].row[2]
  OBVIOUS
<1>6. PICK o \in runs : extractor[s].row[2] < extractor[o].row[2]
  BY <1>1, <1>5
<1>7. extractor[o].row[2] \in wanted
  BY <1>2
<1> HIDE DEF wanted, runs
<1>8. r \in Nat /\ extractor[o].row[2] \in Nat /\ r < extractor[o].row[2]
  BY <1>3, <1>4, <1>5, <1>6, <1>7
<1>9. extractor[o].row[2] <= r
  BY <1>4, <1>7
<1> QED
  BY <1>8, <1>9

(* Transactions never wait for each other in a circle, for any number of runs and
   reviewers: rules are taken in id order (list_active_by_doc_type), and a fix is a
   single UPDATE.                                                                  *)
THEOREM DeadlockFree == Spec => []NoDeadlock
BY NoCircle, Invariance, LocksHeld, PTL

----------------------------------------------------------------------------
(* Full extractions.  Without re-extraction, as main.py wires the API (its queue
   client is not given the reextract queue's name), every run is a full one; in its
   transaction every rule it has done with has a row it sees, and what it deletes
   are TOC copies of its own task.  Its commit makes rows, TOC and status visible. *)
NoReextraction == Retriggers = {} \/ ~ReextractConfigured

MessagesAreFull ==
  /\ reextract_queue = <<>>
  /\ \A i \in DOMAIN extractor_queue : extractor_queue[i].codes = {}

HasRow(x, r) ==
  \E i \in RowIds : i[1] = extractor[x].task /\ i[2] = r /\ Visible(x, i) # Absent

RunOutcome(x) ==
  /\ extractor[x].codes = {}
  /\ extractor[x].pc \in InTransaction =>
       /\ \A c \in extractor[x].old_toc :
            extractor[x].pc = "delete_toc" \/ c[1] = extractor[x].task
       /\ \A r \in Rules \ extractor[x].todo :
            (extractor[x].pc = "flush" /\ extractor[x].row[2] = r) \/ HasRow(x, r)
  /\ extractor[x].pc \in {"evaluate", "commit"} => extractor[x].todo = {}

TaskOutcome(t) ==
  /\ t_task[t] \in FinalStatus => Extracted(t)
  /\ TocStored(t) => Extracted(t)
  /\ ResultIds(t) # {} => TocStored(t)

AtomicInv ==
  /\ MessagesAreFull
  /\ \A x \in Extractors : RunOutcome(x)
  /\ \A t \in Uploads : TaskOutcome(t)

LEMMA NextKept ==
  ASSUME PipelineInv, Next
  PROVE  Kept
BY RequestStepInv, ParserStepInv, ExtractorStepInv, FixStepInv, RetriggerInv
   DEF PipelineInv, Next, RequestNext, ParserNext, ExtractorNext, ReviewNext

LEMMA ExtractedStays ==
  ASSUME ResultsKept, NEW t \in Uploads, Extracted(t)
  PROVE  Extracted(t)'
BY DEF ResultsKept, Extracted, ResultIds

(* Another session's step. *)
LEMMA RunStandsBy ==
  ASSUME ResultsKept, NEW x \in Extractors, RunOutcome(x), extractor'[x] = extractor[x],
         uncommitted'[x] = uncommitted[x]
  PROVE  RunOutcome(x)'
<1>1. \A i \in RowIds : Visible(x, i) # Absent => Visible(x, i)' # Absent
  BY DEF Visible, ResultsKept
<1> QED
  BY <1>1 DEF RunOutcome, HasRow

LEMMA MessagesStayFull ==
  ASSUME NoReextraction, PipelineInv, MessagesAreFull, Next
  PROVE  MessagesAreFull'
<1>a. extractor_queue \in Seq(ExtractorMessages)
  BY DEF PipelineInv, TypeOK, StoresTypeOK
<1>b. ASSUME UNCHANGED <<extractor_queue, reextract_queue>>
      PROVE  MessagesAreFull'
  BY <1>b DEF MessagesAreFull
<1>1. CASE RequestNext
  BY <1>1, <1>b, RequestQuiet DEF RequestNext, PipelineInv
<1>2. ASSUME NEW w \in Parsers, ParserStep(w) \/ ParserCrash(w)
      PROVE  MessagesAreFull'
  <2>1. Quiet /\ UNCHANGED reextract_queue
        /\ (UNCHANGED extractor_queue
            \/ extractor_queue' = Append(extractor_queue, ExtractorMessage(w)))
    BY <1>2, ParserQuiet DEF PipelineInv
  <2>2. ExtractorMessage(w).codes = {}
    BY DEF ExtractorMessage
  <2>3. CASE extractor_queue' = Append(extractor_queue, ExtractorMessage(w))
    <3>1. \A i \in DOMAIN extractor_queue' :
            \/ extractor_queue'[i] = ExtractorMessage(w)
            \/ i \in DOMAIN extractor_queue /\ extractor_queue'[i] = extractor_queue[i]
      <4> DEFINE m == ExtractorMessage(w)
      <4> HIDE DEF m
      <4> QED
        BY <1>a, <2>3 DEF m
    <3> QED
      BY <2>1, <2>2, <3>1 DEF MessagesAreFull
  <2> QED
    BY <1>b, <2>1, <2>3
<1>3. ASSUME NEW x \in Extractors, ExtractorStep(x) \/ ExtractorCrash(x)
      PROVE  MessagesAreFull'
  <2>1. CASE PollExtract(x) /\ extractor_queue # <<>>
    <3>1. extractor_queue' = Tail(extractor_queue) /\ UNCHANGED reextract_queue
      BY <2>1 DEF PollExtract
    <3> QED
      BY <1>a, <2>1, <3>1, Popped DEF MessagesAreFull
  <2>2. CASE ~(PollExtract(x) /\ extractor_queue # <<>>)
    <3>1. UNCHANGED <<extractor_queue, reextract_queue>>
      BY <1>3, <2>2 DEF MessagesAreFull, ExtractorStep, PollReextract, PollExtract,
         DownloadContentList, CheckTask, StoreLogicalTables, BeginExtraction, DeleteToc,
         ReplaceToc, SelectResult, MultipleResultsFound, LLMFallbackFails, FlushResult,
         EvaluateStatus, CommitExtraction, ExtractionDatabaseError, CleanupLogicalTables,
         LoadFailed, SetExtractionFailed, ExtractorCrash, stores, queues
    <3> QED
      BY <1>b, <3>1
  <2> QED
    BY <2>1, <2>2
<1>4. ASSUME NEW v \in Fixes, SelectFix(v) \/ FixStep(v) \/ FixFails(v)
      PROVE  MessagesAreFull'
  BY <1>4, <1>b DEF SelectFix, FixStep, FlushFix, CountPending, LoadTask, CommitFix, FixFails,
     stores, queues
<1>5. ASSUME NEW q \in Retriggers, Retrigger(q)
      PROVE  MessagesAreFull'
  BY <1>5, <1>b DEF Retrigger, NoReextraction
<1> QED
  BY <1>1, <1>2, <1>3, <1>4, <1>5 DEF Next, ParserNext, ExtractorNext, ReviewNext

(* Every message is for a full run, and so is every run. *)
LEMMA RunsAreFull ==
  ASSUME PipelineInv, MessagesAreFull, NEW x \in Extractors, extractor[x].codes = {},
         ExtractorStep(x) \/ ExtractorCrash(x)
  PROVE  extractor'[x].codes = {}
<1> USE DEF PipelineInv, TypeOK
<1>1. \A pc : ExtractorGoto(x, pc) => extractor'[x].codes = extractor[x].codes
  BY DEF ExtractorGoto, ExtractorTypeOK, ExtractorRuns
<1>2. ExtractorDone(x) => extractor'[x].codes = {}
  BY DEF ExtractorDone, ExtractorTypeOK, PollingExtractor
<1>3. CASE UNCHANGED extractor
  BY <1>3
<1>4. CASE PollExtract(x)
  <2>1. extractor_queue # <<>> => Head(extractor_queue).codes = {}
    BY Popped DEF MessagesAreFull, StoresTypeOK
  <2>2. \A m : TakeMessage(x, m) => extractor'[x].codes = m.codes
    BY DEF TakeMessage, ExtractorTypeOK, ExtractorRuns
  <2> QED
    BY <1>2, <1>4, <2>1, <2>2 DEF PollExtract
<1>5. CASE \/ BeginExtraction(x) \/ DeleteToc(x) \/ ReplaceToc(x) \/ SelectResult(x)
           \/ EvaluateStatus(x)
  BY <1>5, Begun, TocDeleted, TocReplaced, Selected, Evaluated
<1>6. CASE FlushResult(x)
  BY <1>6, RowFlushed DEF FlushResult, ExtractorAt, ExtractorInv, RunInv
<1>7. CASE LoadFailed(x)
  BY <1>2, <1>7 DEF LoadFailed, ExtractorTypeOK, ExtractorRuns
<1> QED
  BY <1>1, <1>2, <1>3, <1>4, <1>5, <1>6, <1>7
     DEF MessagesAreFull, ExtractorStep, ExtractorCrash, PollReextract, DownloadContentList,
         CheckTask, StoreLogicalTables, MultipleResultsFound, LLMFallbackFails,
         CommitExtraction, ExtractionDatabaseError, CleanupLogicalTables, SetExtractionFailed

LEMMA RunOutcomeStep ==
  ASSUME PipelineInv, MessagesAreFull, NEW x \in Extractors, RunOutcome(x),
         ExtractorStep(x) \/ ExtractorCrash(x)
  PROVE  RunOutcome(x)'
<1> USE DEF PipelineInv
<1>a. TypeOK /\ ExtractorTypeOK /\ ExtractorInv /\ RunInv(x) /\ StoresTypeOK
  BY DEF TypeOK, ExtractorInv
<1>b. extractor'[x].codes = {} /\ extractor[x].codes = {}
  BY RunsAreFull DEF RunOutcome
<1>c. \A i \in RowIds : UNCHANGED <<t_result, uncommitted>> => Visible(x, i)' = Visible(x, i)
  BY DEF Visible
<1>1. CASE extractor'[x].pc \notin InTransaction
  BY <1>1, <1>b DEF RunOutcome, InTransaction
<1>2. CASE BeginExtraction(x)
  <2>1. extractor'[x].pc = "delete_toc"
    BY <1>2, <1>a, Begun
  <2>2. extractor'[x].todo = Rules
    BY <1>2, <1>a, <1>b, Begun DEF SelectedRules
  <2> QED
    BY <1>b, <2>1, <2>2 DEF RunOutcome
<1>3. CASE ReplaceToc(x) \/ EvaluateStatus(x)
  <2>1. UNCHANGED <<t_result, uncommitted>>
    BY <1>3 DEF ReplaceToc, EvaluateStatus, stores
  <2>2. /\ extractor[x].pc \in InTransaction \ {"flush", "delete_toc"}
        /\ extractor'[x].old_toc = extractor[x].old_toc
        /\ extractor'[x].task = extractor[x].task /\ extractor'[x].todo = extractor[x].todo
        /\ extractor'[x].pc \in {"evaluate", "commit"} => extractor[x].todo = {}
    BY <1>3, <1>a, TocReplaced, Evaluated DEF InTransaction, RunOutcome
  <2>3. \A r \in Rules \ extractor[x].todo : HasRow(x, r)'
    BY <1>c, <2>1, <2>2 DEF RunOutcome, HasRow
  <2> QED
    BY <1>b, <2>2, <2>3 DEF RunOutcome
<1>4. CASE SelectResult(x)
  <2>1. UNCHANGED <<t_result, uncommitted>>
    BY <1>4 DEF SelectResult, stores
  <2>2. /\ extractor[x].pc \in InTransaction \ {"flush", "delete_toc"}
        /\ extractor'[x].pc = "flush"
        /\ extractor'[x].old_toc = extractor[x].old_toc
        /\ extractor'[x].task = extractor[x].task
        /\ extractor'[x].todo = extractor[x].todo \ {extractor'[x].row[2]}
    BY <1>4, <1>a, Selected DEF InTransaction
  <2>3. \A r \in Rules \ extractor[x].todo : HasRow(x, r)'
    BY <1>c, <2>1, <2>2 DEF RunOutcome, HasRow
  <2> QED
    BY <1>b, <2>2, <2>3 DEF RunOutcome
<1>5. CASE FlushResult(x)
  <2> DEFINE row == extractor[x].row
  <2>1. /\ extractor[x].pc = "flush" /\ row \in RowIds /\ row[1] = extractor[x].task
        /\ extractor[x].pc \in InTransaction
    BY <1>5, <1>a DEF FlushResult, ExtractorAt, RunInv, InTransaction
  <2>2. /\ extractor'[x].pc = IF extractor[x].todo = {} THEN "evaluate" ELSE "upsert"
        /\ extractor'[x].old_toc = extractor[x].old_toc
        /\ extractor'[x].task = extractor[x].task /\ extractor'[x].todo = extractor[x].todo
        /\ \A i \in RowIds : i # row => uncommitted'[x][i] = uncommitted[x][i]
        /\ uncommitted'[x][row] = UpsertedRow(x)
    BY <1>5, <1>a, <2>1, RowFlushed
  <2>3. UpsertedRow(x) # Absent
    BY <1>a, <2>1, UpsertedIsRow, Unrelated
  <2>4. t_result' = t_result
    BY <1>5 DEF FlushResult
  <2>5. \A i \in RowIds : Visible(x, i) # Absent \/ i = row => Visible(x, i)' # Absent
    BY <2>1, <2>2, <2>3, <2>4 DEF Visible
  <2>6. \A r \in Rules \ extractor[x].todo : HasRow(x, r)'
    <3> TAKE r \in Rules \ extractor[x].todo
    <3>1. row[2] = r \/ HasRow(x, r)
      BY <2>1 DEF RunOutcome
    <3> QED
      BY <2>1, <2>2, <2>5, <3>1 DEF HasRow
  <2> QED
    BY <1>b, <2>1, <2>2, <2>6 DEF RunOutcome
<1>6. CASE DeleteToc(x)
  <2>1. UNCHANGED <<t_result, uncommitted>>
    BY <1>6 DEF DeleteToc, stores
  <2>2. /\ extractor[x].pc \in InTransaction /\ extractor[x].pc # "flush"
        /\ extractor'[x].pc = "replace_toc"
        /\ \A c \in extractor'[x].old_toc : c[1] = extractor'[x].task
        /\ extractor'[x].task = extractor[x].task /\ extractor'[x].todo = extractor[x].todo
    BY <1>6, <1>a, TocDeleted DEF InTransaction
  <2>3. \A r \in Rules \ extractor[x].todo : HasRow(x, r)'
    BY <1>c, <2>1, <2>2 DEF RunOutcome, HasRow
  <2> QED
    BY <1>b, <2>2, <2>3 DEF RunOutcome
<1> QED
  BY <1>a, <1>1, <1>2, <1>3, <1>4, <1>5, <1>6, InsideTransaction

(* A step that commits nothing and writes no final status. *)
LEMMA OutcomeStands ==
  ASSUME NEW t \in Uploads, TaskOutcome(t), UNCHANGED <<t_result, t_toc>>,
         t_task'[t] = t_task[t] \/ t_task'[t] \notin FinalStatus
  PROVE  TaskOutcome(t)'
BY DEF TaskOutcome, Extracted, ResultIds, TocStored

(* A run's commit: for its own task everything becomes visible at once. *)
LEMMA ExtractionCommitted ==
  ASSUME PipelineInv, NEW x \in Extractors, RunOutcome(x), CommitExtraction(x),
         \A t \in Uploads : TaskOutcome(t)
  PROVE  \A t \in Uploads : TaskOutcome(t)'
<1> USE DEF PipelineInv, TypeOK
<1>0. extractor[x].pc = "commit" /\ extractor[x].task \in Uploads
  BY DEF CommitExtraction, ExtractorAt, ExtractorInv, RunInv, ExtractorTypeOK, ExtractorRuns
<1> PICK T \in Uploads : T = extractor[x].task
  BY <1>0
<1>1. extractor[x].pc \in InTransaction /\ extractor[x].todo = {}
  BY <1>0 DEF InTransaction, RunOutcome
<1>2. \A i \in RowIds : t_result'[i] = Visible(x, i)
  BY DEF CommitExtraction, CommitRows
<1>3. Extracted(T)'
  <2>1. \A r \in Rules : \E i \in RowIds : i[1] = T /\ i[2] = r /\ t_result'[i] # Absent
    BY <1>0, <1>1, <1>2 DEF RunOutcome, HasRow
  <2> QED
    BY <2>1 DEF Extracted, ResultIds
<1>4. TocStored(T)'
  <2>1. <<T, x>> \in t_toc' /\ <<T, x>>[1] = T
    BY DEF CommitExtraction
  <2> QED
    BY <2>1 DEF TocStored
<1>5. ASSUME NEW t \in Uploads, t # T
      PROVE  TaskOutcome(t)'
  <2>1. t_task'[t] = t_task[t]
    BY <1>1, <1>5 DEF CommitExtraction, SetExtractedStatus, StoresTypeOK
  <2>2. \A i \in RowIds : i[1] = t => t_result'[i] = t_result[i]
    BY <1>2, <1>5 DEF ExtractorInv, RunInv, Visible
  <2>3. TocStored(t)' <=> TocStored(t)
    <3>1. \A c \in extractor[x].old_toc : c[1] # t
      BY <1>0, <1>1, <1>5 DEF RunOutcome
    <3>2. t_toc' = (t_toc \ extractor[x].old_toc) \union {<<T, x>>}
      BY DEF CommitExtraction
    <3>3. <<T, x>>[1] # t
      BY <1>5
    <3> QED
      BY <3>1, <3>2, <3>3 DEF TocStored
  <2>4. ResultIds(t)' = ResultIds(t)
    BY <2>2 DEF ResultIds
  <2>5. Extracted(t)' <=> Extracted(t)
    BY <2>4 DEF Extracted
  <2> QED
    BY <2>1, <2>3, <2>4, <2>5 DEF TaskOutcome
<1>6. TaskOutcome(T)'
  BY <1>3, <1>4 DEF TaskOutcome
<1> QED
  BY <1>5, <1>6

(* A fix's commit adds no row, and its task has the row it fixed. *)
LEMMA FixCommitted ==
  ASSUME PipelineInv, LocksInv, NEW v \in Fixes, CommitFix(v),
         \A t \in Uploads : TaskOutcome(t)
  PROVE  \A t \in Uploads : TaskOutcome(t)'
<1> USE DEF PipelineInv, TypeOK
<1> DEFINE T == FixedTask(v)
<1>1. fix[v].row \in RowIds /\ t_result[fix[v].row] # Absent /\ T = fix[v].row[1]
  BY DEF CommitFix, FixAt, ReviewInv, FixInv, ReviewTypeOK, FixRecords, FixedTask
<1>2. \A i \in RowIds : t_result'[i] # Absent <=> t_result[i] # Absent
  BY <1>1 DEF CommitFix, CommitRows, Visible, LocksInv, FixLocks
<1>3. \A t \in Uploads : ResultIds(t)' = ResultIds(t)
  BY <1>2 DEF ResultIds
<1>4. \A t \in Uploads : Extracted(t)' <=> Extracted(t)
  BY <1>3 DEF Extracted
<1>5. \A t \in Uploads : TocStored(t)' <=> TocStored(t)
  BY DEF CommitFix, TocStored
<1>6. \A t \in Uploads : t # T => t_task'[t] = t_task[t]
  BY DEF CommitFix, StoresTypeOK
<1>7. T \in Uploads => Extracted(T)
  <2>1. fix[v].row \in ResultIds(T)
    BY <1>1 DEF ResultIds
  <2> QED
    BY <2>1 DEF TaskOutcome
<1> QED
  BY <1>3, <1>4, <1>5, <1>6, <1>7 DEF TaskOutcome

LEMMA AtomicNext ==
  ASSUME NoReextraction
  PROVE  PipelineInv /\ LocksInv /\ AtomicInv /\ [Next]_vars => AtomicInv'
<1> SUFFICES ASSUME PipelineInv, LocksInv, AtomicInv, [Next]_vars PROVE AtomicInv'
  OBVIOUS
<1>a. Sessions = Extractors \union Fixes /\ Extractors \intersect Fixes = {}
  BY SessionsAssumption DEF Sessions
<1>b. ASSUME NEW x \in Extractors, ResultsKept, extractor'[x] = extractor[x],
             uncommitted'[x] = uncommitted[x]
      PROVE  RunOutcome(x)'
  BY <1>b, RunStandsBy DEF AtomicInv
<1>c. ASSUME UNCHANGED <<t_result, t_toc>>,
             \A t \in Uploads : t_task'[t] = t_task[t] \/ t_task'[t] \notin FinalStatus
      PROVE  \A t \in Uploads : TaskOutcome(t)'
  BY <1>c, OutcomeStands DEF AtomicInv
<1>1. CASE UNCHANGED vars
  <2>1. UNCHANGED <<t_task, t_result, t_toc, uncommitted, extractor, extractor_queue,
                    reextract_queue>>
    BY <1>1 DEF vars, stores
  <2>2. ResultsKept
    BY <2>1 DEF ResultsKept
  <2> QED
    BY <1>b, <1>c, <2>1, <2>2 DEF AtomicInv, MessagesAreFull
<1>2. ASSUME Next PROVE AtomicInv'
  <2>1. MessagesAreFull' /\ ResultsKept
    BY <1>2, MessagesStayFull, NextKept DEF AtomicInv, Kept
  <2>2. CASE Quiet
    BY <1>b, <1>c, <2>1, <2>2 DEF Quiet, results, AtomicInv
  <2>3. ASSUME NEW x \in Extractors, ExtractorStep(x) \/ ExtractorCrash(x),
               WritesKept(Sessions \ {x})
        PROVE  AtomicInv'
    <3>1. \A y \in Extractors : RunOutcome(y)'
      <4>1. \A y \in Extractors : y # x => RunOutcome(y)'
        BY <1>a, <1>b, <2>1, <2>3, Elsewhere DEF WritesKept, PipelineInv, TypeOK
      <4> QED
        BY <2>3, <4>1, RunOutcomeStep DEF AtomicInv
    <3>2. \A t \in Uploads : TaskOutcome(t)'
      <4>1. CASE CommitExtraction(x)
        BY <4>1, ExtractionCommitted DEF AtomicInv
      <4>2. CASE SetExtractionFailed(x)
        <5>1. extractor[x].task \in Uploads
          BY <4>2 DEF SetExtractionFailed, ExtractorAt, PipelineInv, TypeOK, ExtractorTypeOK,
                      ExtractorRuns, ExtractorInv, RunInv
        <5>2. "FAILED" \notin FinalStatus
          BY DEF FinalStatus
        <5>3. \A t \in Uploads : t_task'[t] = t_task[t] \/ t_task'[t] \notin FinalStatus
          BY <4>2, <5>1, <5>2, FlushedStatus
             DEF SetExtractionFailed, SetExtractedStatus, PipelineInv, TypeOK
        <5> QED
          BY <1>c, <4>2, <5>3 DEF SetExtractionFailed, results
      <4>3. CASE ~CommitExtraction(x) /\ ~SetExtractionFailed(x)
        <5>1. UNCHANGED <<t_task, t_result, t_toc>>
          BY <2>3, <4>3 DEF ExtractorStep, PollReextract, PollExtract, DownloadContentList,
             CheckTask, StoreLogicalTables, BeginExtraction, DeleteToc,
         ReplaceToc, SelectResult,
             MultipleResultsFound, LLMFallbackFails, FlushResult, EvaluateStatus,
             ExtractionDatabaseError, CleanupLogicalTables, LoadFailed, ExtractorCrash,
             Rollback, stores, tables
        <5> QED
          BY <1>c, <5>1
      <4> QED
        BY <4>1, <4>2, <4>3
    <3> QED
      BY <2>1, <3>1, <3>2 DEF AtomicInv
  <2>4. ASSUME NEW v \in Fixes, SelectFix(v) \/ FixStep(v) \/ FixFails(v),
               WritesKept(Sessions \ {v}), UNCHANGED <<extractor, t_toc>>
        PROVE  AtomicInv'
    <3>1. \A y \in Extractors : RunOutcome(y)'
      BY <1>a, <1>b, <2>1, <2>4 DEF WritesKept
    <3>2. \A t \in Uploads : TaskOutcome(t)'
      <4>1. CASE CommitFix(v)
        BY <4>1, FixCommitted DEF AtomicInv
      <4>2. CASE ~CommitFix(v)
        <5>1. UNCHANGED <<t_task, t_result>>
          BY <2>4, <4>2 DEF SelectFix, FixStep, FlushFix, CountPending, LoadTask, FixFails,
             Rollback, stores
        <5> QED
          BY <1>c, <2>4, <5>1
      <4> QED
        BY <4>1, <4>2
    <3> QED
      BY <2>1, <3>1, <3>2 DEF AtomicInv
  <2> QED
    BY <1>2, <2>2, <2>3, <2>4, Steps
<1> QED
  BY <1>1, <1>2

LEMMA AtomicInit == Init => AtomicInv
<1> SUFFICES ASSUME Init PROVE AtomicInv
  OBVIOUS
<1>1. MessagesAreFull
  BY DEF Init, StoresInit, MessagesAreFull
<1>2. \A x \in Extractors : RunOutcome(x)
  BY DEF Init, ExtractorInit, PollingExtractor, RunOutcome, InTransaction
<1>3. \A t \in Uploads : TaskOutcome(t)
  <2>1. \A t \in Uploads : t_task[t] \notin FinalStatus /\ ~TocStored(t) /\ ResultIds(t) = {}
    BY Unrelated DEF Init, StoresInit, TocStored, ResultIds, FinalStatus, TaskStatus
  <2> QED
    BY <2>1 DEF TaskOutcome
<1> QED
  BY <1>1, <1>2, <1>3 DEF AtomicInv

(* Whatever fails or crashes between two upserts, a task's rows become visible with its
   TOC and for every rule, and a final status never precedes them (process_message's
   single transaction; a reviewer's fix writes over rows that are all there).  It holds
   without re-extraction; a selective run may write a final status over a task whose
   other rules never ran.                                                             *)
THEOREM ExtractionsAtomic ==
  ASSUME NoReextraction
  PROVE  Spec => []ExtractionIsAtomic
<1>1. AtomicInv => ExtractionIsAtomic
  BY DEF AtomicInv, TaskOutcome, ExtractionIsAtomic, FinalMeansExtracted
<1> QED
  BY <1>1, AtomicInit, AtomicNext, Invariance, LocksHeld, PTL DEF Spec

=============================================================================
