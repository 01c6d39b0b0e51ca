---------------------------- MODULE ReviewProofs ----------------------------
(***************************************************************************)
(* The status of an extracted task tells whether a reviewer has work to do *)
(* as long as no two transactions on the results of one task overlap, for  *)
(* any number of runs, retriggers and fixes and every choice of failures.  *)
(* Nothing in the code keeps them apart: two reviewers of one task falsify *)
(* the status (the run ReviewSkew).  What is proved here is that nothing   *)
(* else does.                                                              *)
(***************************************************************************)
EXTENDS ExtractionProofs, IntakeProofs

(* A run from its second session's first read on, a fix from its SELECT on. *)
Working(s, t) ==
  \/ s \in Extractors /\ extractor[s].pc \in InTransaction /\ extractor[s].task = t
  \/ s \in Fixes /\ fix[s].pc \in {"flush", "count", "load", "commit"} /\ FixedTask(s) = t
TransactionsApart ==
  \A t \in Uploads, s, o \in Sessions : Working(s, t) /\ Working(o, t) => s = o

----------------------------------------------------------------------------
(* The invariant, over committed rows alone. *)
Honest(t) == t_task[t] \in FinalStatus => (t_task[t] = "PENDING_REVIEW" <=> RowsPending(t))

(* A final status that a session has loaded is not the other one by now: a write that
   the session skips because it changes nothing would indeed change nothing.          *)
StillLoaded(loaded, t) ==
  loaded \in FinalStatus /\ t_task[t] \in FinalStatus => t_task[t] = loaded

(* What a session has counted is what it will commit. *)
VerdictHolds(s, verdict, t) == verdict = "PENDING_REVIEW" <=> PendingReview(s, t)

FixHonest(v) ==
  /\ fix[v].pc \in {"load", "commit"} => VerdictHolds(v, fix[v].verdict, FixedTask(v))
  /\ fix[v].pc = "commit" => StillLoaded(fix[v].loaded, FixedTask(v))

(* A full run's any_review speaks of the row in hand and of the rows of the rules it
   has done with; the row in hand is the rule's only one, as the run loaded it.      *)
Early == {"poll_reextract", "poll_extract", "download", "check", "store", "begin"}
InHand(x, i) == extractor[x].pc = "flush" /\ i[2] = extractor[x].row[2]
DonePending(x) ==
  \E i \in RowIds :
    /\ i[1] = extractor[x].task /\ i[2] \notin extractor[x].todo /\ ~InHand(x, i)
    /\ Visible(x, i) # Absent /\ Visible(x, i).needs_review

RunFresh(x) == extractor[x].pc \in Early => ~extractor[x].any_review
RunCounts(x) ==
  extractor[x].pc \in InTransaction /\ extractor[x].codes = {} =>
    (extractor[x].any_review <=>
       (extractor[x].pc = "flush" /\ extractor[x].review) \/ DonePending(x))
RunHand(x) ==
  extractor[x].pc = "flush" =>
    /\ extractor[x].loaded_row = t_result[extractor[x].row]
    /\ \A i \in RowIds : i[1] = extractor[x].task /\ InHand(x, i) /\ Visible(x, i) # Absent
                           => i = extractor[x].row
RunVerdict(x) ==
  extractor[x].pc = "commit" => VerdictHolds(x, extractor[x].verdict, extractor[x].task)
RunLoaded(x) ==
  extractor[x].pc \in InTransaction => StillLoaded(extractor[x].loaded, extractor[x].task)
RunDone(x) == extractor[x].pc = "evaluate" => extractor[x].todo = {}
RunHonest(x) ==
  RunFresh(x) /\ RunCounts(x) /\ RunHand(x) /\ RunDone(x) /\ RunVerdict(x) /\ RunLoaded(x)

HonestInv ==
  /\ \A t \in Uploads : Honest(t)
  /\ \A v \in Fixes : FixHonest(v)
  /\ \A x \in Extractors : RunHonest(x)

----------------------------------------------------------------------------
(* What a step may do to a task without a session of the task noticing. *)
Undisturbed(t) ==
  /\ \A i \in RowIds : i[1] = t => t_result'[i] = t_result[i]
  /\ t_task'[t] = t_task[t] \/ t_task'[t] \notin FinalStatus

LEMMA PendingRows ==
  ASSUME NEW s, NEW t \in Uploads
  PROVE  PendingReview(s, t) <=>
           \E i \in RowIds : i[1] = t /\ Visible(s, i) # Absent /\ Visible(s, i).needs_review
BY DEF PendingReview, RowIds

LEMMA PendingNextRows ==
  ASSUME NEW s, NEW t \in Uploads
  PROVE  PendingReview(s, t)' <=>
           \E i \in RowIds :
             i[1] = t /\ Visible(s, i)' # Absent /\ Visible(s, i)'.needs_review
BY DEF PendingReview, RowIds

LEMMA VisibleStays ==
  ASSUME NEW s \in Sessions, NEW t \in Uploads, Undisturbed(t),
         uncommitted'[s] = uncommitted[s]
  PROVE  /\ \A i \in RowIds : i[1] = t => Visible(s, i)' = Visible(s, i)
         /\ PendingReview(s, t)' <=> PendingReview(s, t)
<1>1. \A i \in RowIds : i[1] = t => Visible(s, i)' = Visible(s, i)
  BY DEF Undisturbed, Visible
<1> QED
  BY <1>1, PendingRows, PendingNextRows

LEMMA StatusStays ==
  ASSUME NEW t \in Uploads, Undisturbed(t)
  PROVE  /\ \A loaded : StillLoaded(loaded, t) => StillLoaded(loaded, t)'
         /\ Honest(t) => Honest(t)'
<1>1. RowsPending(t)' <=> RowsPending(t)
  BY DEF Undisturbed, RowsPending, ResultIds
<1> QED
  BY <1>1 DEF Undisturbed, StillLoaded, Honest

(* Sessions that stand by. *)
LEMMA FixStandsBy ==
  ASSUME NEW v \in Fixes, ReviewTypeOK, ReviewInv, FixHonest(v), fix'[v] = fix[v],
         uncommitted'[v] = uncommitted[v],
         \A t \in Uploads : Working(v, t) => Undisturbed(t)
  PROVE  FixHonest(v)'
<1>1. CASE fix[v].pc \notin {"load", "commit"}
  BY <1>1 DEF FixHonest
<1>2. CASE fix[v].pc \in {"load", "commit"}
  <2>1. fix[v].row \in RowIds
    BY <1>2 DEF ReviewInv, FixInv, ReviewTypeOK, FixRecords
  <2>2. PICK t \in Uploads : t = FixedTask(v)
    BY <2>1 DEF RowIds, FixedTask
  <2>3. FixedTask(v)' = t
    BY <2>2 DEF FixedTask
  <2>4. Undisturbed(t) /\ v \in Sessions
    BY <1>2, <2>2 DEF Working, Sessions
  <2>5. VerdictHolds(v, fix[v].verdict, t)' <=> VerdictHolds(v, fix[v].verdict, t)
    BY <2>4, VisibleStays DEF VerdictHolds
  <2>6. StillLoaded(fix[v].loaded, t) => StillLoaded(fix[v].loaded, t)'
    BY <2>4, StatusStays
  <2> QED
    BY <2>2, <2>3, <2>5, <2>6 DEF FixHonest, VerdictHolds, StillLoaded
<1> QED
  BY <1>1, <1>2

LEMMA RunWaits ==
  ASSUME NEW x \in Extractors, ExtractorTypeOK, ExtractorInv, RunHonest(x),
         extractor'[x] = extractor[x], uncommitted'[x] = uncommitted[x],
         \A t \in Uploads : Working(x, t) => Undisturbed(t)
  PROVE  RunHonest(x)'
<1>1. CASE extractor[x].pc \notin InTransaction
  BY <1>1 DEF RunHonest, RunFresh, RunCounts, RunHand, RunDone, RunVerdict, RunLoaded,
     InTransaction
<1>2. CASE extractor[x].pc \in InTransaction
  <2>1. extractor[x].task \in Uploads
    BY <1>2 DEF ExtractorInv, RunInv, ExtractorTypeOK, ExtractorRuns, InTransaction
  <2>2. PICK t \in Uploads : t = extractor[x].task
    BY <2>1
  <2>3. Undisturbed(t) /\ x \in Sessions
    BY <1>2, <2>2 DEF Working, Sessions
  <2>4. /\ \A i \in RowIds : i[1] = t => Visible(x, i)' = Visible(x, i)
        /\ PendingReview(x, t)' <=> PendingReview(x, t)
    BY <2>3, VisibleStays
  <2>5. RunFresh(x)' /\ RunDone(x)' /\ RunVerdict(x)'
    BY <2>2, <2>4 DEF RunHonest, RunFresh, RunDone, RunVerdict, VerdictHolds
  <2>6. RunLoaded(x)'
    BY <2>2, <2>3, StatusStays DEF RunHonest, RunLoaded, StillLoaded
  <2>7. RunCounts(x)'
    <3>1. \A i \in RowIds : InHand(x, i)' <=> InHand(x, i)
      BY DEF InHand
    <3>2. DonePending(x)' <=> DonePending(x)
      BY <2>2, <2>4, <3>1 DEF DonePending
    <3> QED
      BY <3>2 DEF RunHonest, RunCounts
  <2>8. RunHand(x)'
    <3>1. CASE extractor[x].pc # "flush"
      BY <3>1 DEF RunHand
    <3>2. CASE extractor[x].pc = "flush"
      <4>1. extractor[x].row \in RowIds /\ extractor[x].row[1] = t
        BY <2>2, <3>2 DEF ExtractorInv, RunInv
      <4>2. t_result'[extractor[x].row] = t_result[extractor[x].row]
        BY <2>3, <4>1 DEF Undisturbed
      <4> QED
        BY <2>2, <2>4, <3>2, <4>2 DEF RunHonest, RunHand, InHand
    <3> QED
      BY <3>1, <3>2
  <2> QED
    BY <2>5, <2>6, <2>7, <2>8 DEF RunHonest
<1> QED
  BY <1>1, <1>2

----------------------------------------------------------------------------
(* A session's step disturbs no task but its own. *)
LEMMA OnlyOwnRows ==
  ASSUME NEW s \in Sessions, NEW t \in Uploads, CommitRows(s),
         \A i \in RowIds : uncommitted[s][i] # Absent => i[1] # t
  PROVE  \A i \in RowIds : i[1] = t => t_result'[i] = t_result[i]
BY DEF CommitRows, Visible

LEMMA RunDisturbs ==
  ASSUME PipelineInv, NEW x \in Extractors, ExtractorStep(x) \/ ExtractorCrash(x),
         NEW t \in Uploads
  PROVE  (CommitExtraction(x) /\ extractor[x].task = t) \/ Undisturbed(t)
<1> USE DEF PipelineInv, TypeOK
<1>a. x \in Sessions
  BY DEF Sessions
<1>1. CASE CommitExtraction(x)
  <2>1. extractor[x].pc = "commit" /\ extractor[x].task \in Uploads
    BY <1>1 DEF CommitExtraction, ExtractorAt, ExtractorInv, RunInv, ExtractorTypeOK,
                ExtractorRuns
  <2>2. CASE extractor[x].task # t
    <3>1. \A i \in RowIds : uncommitted[x][i] # Absent => i[1] # t
      BY <2>2 DEF ExtractorInv, RunInv
    <3>2. t_task'[t] = t_task[t]
      BY <1>1, <2>1, <2>2 DEF CommitExtraction, SetExtractedStatus, StoresTypeOK
    <3> QED
      BY <1>1, <1>a, <3>1, <3>2, OnlyOwnRows DEF CommitExtraction, Undisturbed
  <2> QED
    BY <1>1, <2>2
<1>2. CASE SetExtractionFailed(x)
  <2>1. extractor[x].task \in Uploads
    BY <1>2 DEF SetExtractionFailed, ExtractorAt, ExtractorInv, RunInv, ExtractorTypeOK,
                ExtractorRuns
  <2>2. "FAILED" \notin FinalStatus
    BY DEF FinalStatus
  <2>3. \A u \in Uploads : t_task'[u] = t_task[u] \/ t_task'[u] \notin FinalStatus
    BY <1>2, <2>1, <2>2, FlushedStatus DEF SetExtractionFailed, SetExtractedStatus
  <2> QED
    BY <1>2, <2>3 DEF SetExtractionFailed, results, Undisturbed
<1>3. CASE ~CommitExtraction(x) /\ ~SetExtractionFailed(x)
  <2>1. UNCHANGED <<t_task, t_result>>
    BY <1>3 DEF ExtractorStep, PollReextract, PollExtract, DownloadContentList,
       CheckTask, StoreLogicalTables, BeginExtraction, DeleteToc, ReplaceToc, SelectResult,
       MultipleResultsFound, LLMFallbackFails, FlushResult, EvaluateStatus,
       ExtractionDatabaseError, CleanupLogicalTables, LoadFailed, ExtractorCrash,
       Rollback, stores, tables
  <2> QED
    BY <2>1 DEF Undisturbed
<1> QED
  BY <1>1, <1>2, <1>3

LEMMA FixDisturbs ==
  ASSUME PipelineInv, LocksInv, NEW v \in Fixes, SelectFix(v) \/ FixStep(v) \/ FixFails(v),
         NEW t \in Uploads
  PROVE  (CommitFix(v) /\ FixedTask(v) = t) \/ Undisturbed(t)
<1> USE DEF PipelineInv, TypeOK
<1>1. CASE CommitFix(v) /\ FixedTask(v) # t
  <2>1. fix[v].row \in RowIds
    BY <1>1 DEF CommitFix, FixAt, ReviewInv, FixInv, ReviewTypeOK, FixRecords
  <2>2. FixedTask(v) \in Uploads
    BY <2>1 DEF FixedTask, RowIds
  <2>3. \A i \in RowIds : uncommitted[v][i] # Absent => i[1] # t
    BY <1>1 DEF LocksInv, FixLocks, FixedTask
  <2>4. t_task'[t] = t_task[t]
    BY <1>1, <2>2 DEF CommitFix, StoresTypeOK
  <2> QED
    BY <1>1, <2>3, <2>4, OnlyOwnRows DEF CommitFix, Undisturbed, Sessions
<1>2. CASE ~CommitFix(v)
  <2>1. UNCHANGED <<t_task, t_result>>
    BY <1>2 DEF SelectFix, FixStep, FlushFix, CountPending, LoadTask, FixFails, Rollback, stores
  <2> QED
    BY <2>1 DEF Undisturbed
<1> QED
  BY <1>1, <1>2

----------------------------------------------------------------------------
(* The reviewer's request. *)
LEMMA FixKeepsCount ==
  ASSUME PipelineInv, NEW v \in Fixes, FixHonest(v), SelectFix(v) \/ FixStep(v) \/ FixFails(v)
  PROVE  FixHonest(v)'
<1> USE DEF PipelineInv, TypeOK
<1>1. CASE SelectFix(v) \/ FlushFix(v)
  <2>1. fix'[v].pc \in {"flush", "count"}
    BY <1>1 DEF SelectFix, FlushFix, ReviewTypeOK, FixRecords
  <2> QED
    BY <2>1 DEF FixHonest
<1>2. CASE CommitFix(v) \/ FixFails(v)
  <2>1. fix'[v].pc = "done"
    BY <1>2 DEF CommitFix, FixFails, FixDone, ReviewTypeOK, FixRecords, NewFix
  <2> QED
    BY <2>1 DEF FixHonest
<1>3. CASE CountPending(v) \/ LoadTask(v)
  <2>1. /\ fix[v].row \in RowIds /\ fix'[v].row = fix[v].row
        /\ UNCHANGED <<t_task, t_result, uncommitted>>
    BY <1>3 DEF CountPending, LoadTask, FixAt, ReviewInv, FixInv, ReviewTypeOK, FixRecords,
                stores
  <2>2. PICK t \in Uploads : t = FixedTask(v) /\ FixedTask(v)' = t
    BY <2>1 DEF FixedTask, RowIds
  <2>3. PendingReview(v, t)' <=> PendingReview(v, t)
    BY <2>1 DEF PendingReview, Visible
  <2>4. CASE CountPending(v)
    <3>1. /\ fix'[v].pc = "load"
          /\ fix'[v].verdict = IF PendingReview(v, t) THEN "PENDING_REVIEW" ELSE "COMPLETED"
      BY <2>2, <2>4 DEF CountPending, ReviewTypeOK, FixRecords
    <3> QED
      BY <2>2, <2>3, <3>1 DEF FixHonest, VerdictHolds
  <2>5. CASE LoadTask(v)
    <3>1. /\ fix[v].pc = "load" /\ fix'[v].pc = "commit"
          /\ fix'[v].verdict = fix[v].verdict /\ fix'[v].loaded = t_task[t]
      BY <2>2, <2>5 DEF LoadTask, FixAt, ReviewTypeOK, FixRecords
    <3> QED
      BY <2>1, <2>2, <2>3, <3>1 DEF FixHonest, VerdictHolds, StillLoaded
  <2> QED
    BY <1>3, <2>4, <2>5
<1> QED
  BY <1>1, <1>2, <1>3 DEF FixStep

(* A commit of a count that held, over a status that still is what was loaded. *)
LEMMA VerdictCommitted ==
  ASSUME StoresTypeOK, NEW s \in Sessions, NEW t \in Uploads, NEW loaded, NEW verdict,
         verdict \in FinalStatus, VerdictHolds(s, verdict, t), StillLoaded(loaded, t),
         CommitRows(s),
         t_task' = [t_task EXCEPT ![t] = Flushed(t_task[t], loaded, verdict)]
  PROVE  Honest(t)'
<1>1. RowsPending(t)' <=> PendingReview(s, t)
  <2>1. \A i \in RowIds : t_result'[i] = Visible(s, i)
    BY DEF CommitRows
  <2>2. RowsPending(t)' <=>
          \E i \in RowIds : i[1] = t /\ t_result'[i] # Absent /\ t_result'[i].needs_review
    BY DEF RowsPending, ResultIds
  <2> QED
    BY <2>1, <2>2, PendingRows
<1>2. t_task'[t] \in FinalStatus => t_task'[t] = verdict
  BY DEF StoresTypeOK, Flushed, StillLoaded
<1> QED
  BY <1>1, <1>2 DEF Honest, VerdictHolds

LEMMA FixCommitsHonestly ==
  ASSUME PipelineInv, NEW v \in Fixes, FixHonest(v), CommitFix(v)
  PROVE  \E t \in Uploads : t = FixedTask(v) /\ Honest(t)'
<1> USE DEF PipelineInv, TypeOK
<1>1. fix[v].row \in RowIds /\ fix[v].verdict \in FinalStatus /\ fix[v].pc = "commit"
  BY DEF CommitFix, FixAt, ReviewInv, FixInv, ReviewTypeOK, FixRecords
<1>2. PICK t \in Uploads : t = FixedTask(v)
  BY <1>1 DEF FixedTask, RowIds
<1>3. Honest(t)'
  BY <1>1, <1>2, VerdictCommitted DEF CommitFix, FixHonest, Sessions
<1> QED
  BY <1>2, <1>3

----------------------------------------------------------------------------
(* The run.  Steps outside the transaction keep any_review FALSE. *)
LEMMA RunEntersFresh ==
  ASSUME TypeOK, ExtractorInv, NEW x \in Extractors, RunFresh(x),
         ExtractorStep(x) \/ ExtractorCrash(x), extractor'[x].pc \notin InTransaction
  PROVE  RunHonest(x)'
<1> USE DEF TypeOK
<1>1. RunFresh(x)'
  <2>1. \A pc : ExtractorGoto(x, pc) => extractor'[x].pc = pc
                                        /\ extractor'[x].any_review = extractor[x].any_review
    BY DEF ExtractorGoto, ExtractorTypeOK, ExtractorRuns
  <2>2. ExtractorDone(x) => extractor'[x].any_review = FALSE
    BY DEF ExtractorDone, ExtractorTypeOK, PollingExtractor
  <2>3. \A m : TakeMessage(x, m) => extractor'[x].any_review = extractor[x].any_review
    BY DEF TakeMessage, ExtractorTypeOK, ExtractorRuns
  <2>4. CASE PollReextract(x) \/ PollExtract(x)
    <3>1. extractor[x].pc \in Early
      BY <2>4 DEF PollReextract, PollExtract, ExtractorAt, Early
    <3>2. extractor'[x].any_review = extractor[x].any_review \/ extractor'[x].any_review = FALSE
      BY <2>1, <2>2, <2>3, <2>4 DEF PollReextract, PollExtract
    <3> QED
      BY <3>1, <3>2 DEF RunFresh
  <2>5. CASE DownloadContentList(x) \/ CheckTask(x) \/ StoreLogicalTables(x)
    <3>1. extractor[x].pc \in Early
      BY <2>5 DEF DownloadContentList, CheckTask, StoreLogicalTables, ExtractorAt, Early
    <3>2. extractor'[x].any_review = extractor[x].any_review \/ extractor'[x].any_review = FALSE
      BY <2>1, <2>2, <2>5 DEF DownloadContentList, CheckTask, StoreLogicalTables
    <3> QED
      BY <3>1, <3>2 DEF RunFresh
  <2>6. CASE LoadFailed(x)
    <3>1. extractor'[x].pc = "set_failed" \/ extractor'[x].any_review = FALSE
      BY <2>2, <2>6 DEF LoadFailed, ExtractorTypeOK, ExtractorRuns
    <3> QED
      BY <3>1 DEF RunFresh, Early
  <2>7. CASE \/ MultipleResultsFound(x) \/ LLMFallbackFails(x) \/ CommitExtraction(x)
             \/ ExtractionDatabaseError(x) \/ CleanupLogicalTables(x) \/ SetExtractionFailed(x)
             \/ ExtractorCrash(x)
    <3>1. extractor'[x].pc \in {"cleanup", "mark_failed"} \/ extractor'[x].any_review = FALSE
      BY <2>1, <2>2, <2>7 DEF MultipleResultsFound, LLMFallbackFails, CommitExtraction,
         ExtractionDatabaseError, CleanupLogicalTables, SetExtractionFailed, ExtractorCrash
    <3> QED
      BY <3>1 DEF RunFresh, Early
  <2>8. ~(BeginExtraction(x) \/ DeleteToc(x) \/ ReplaceToc(x) \/ EvaluateStatus(x))
    BY Begun, TocDeleted, TocReplaced, Evaluated DEF InTransaction
  <2>9. CASE SelectResult(x) \/ FlushResult(x)
    <3>1. extractor'[x].pc \in {"flush", "upsert", "evaluate"}
      BY <2>9, Selected, RowFlushed DEF FlushResult, ExtractorAt, ExtractorInv, RunInv
    <3> QED
      BY <3>1 DEF InTransaction
  <2> QED
    BY <2>4, <2>5, <2>6, <2>7, <2>8, <2>9 DEF ExtractorStep
<1> QED
  BY <1>1 DEF RunHonest, RunCounts, RunHand, RunDone, RunVerdict, RunLoaded, InTransaction

LEMMA RunBegins ==
  ASSUME PipelineInv, PipelineInv', NEW x \in Extractors, RunHonest(x), BeginExtraction(x)
  PROVE  RunHonest(x)'
<1> USE DEF PipelineInv, TypeOK
<1>1. /\ extractor[x].pc = "begin" /\ extractor'[x].pc = "delete_toc"
      /\ extractor'[x].task = extractor[x].task /\ extractor'[x].codes = extractor[x].codes
      /\ extractor'[x].todo = SelectedRules(extractor[x].codes)
  BY Begun
<1>2. /\ extractor'[x].any_review = extractor[x].any_review
      /\ extractor'[x].loaded = t_task[extractor[x].task]
      /\ UNCHANGED <<t_task, t_result, uncommitted>>
  BY DEF BeginExtraction, ExtractorTypeOK, ExtractorRuns, stores
<1>3. ~extractor[x].any_review
  BY <1>1 DEF RunHonest, RunFresh, Early
<1>4. extractor[x].codes = {} => ~DonePending(x)'
  <2>1. extractor[x].codes = {} => extractor'[x].todo = Rules
    BY <1>1 DEF SelectedRules
  <2> QED
    BY <2>1 DEF DonePending, RowIds
<1>5. RunCounts(x)'
  BY <1>1, <1>2, <1>3, <1>4 DEF RunCounts
<1>6. RunLoaded(x)'
  BY <1>1, <1>2 DEF RunLoaded, StillLoaded
<1> QED
  BY <1>1, <1>5, <1>6 DEF RunHonest, RunFresh, RunHand, RunDone, RunVerdict, Early

(* Steps of the transaction that write no row and touch no rule. *)
LEMMA RunProceeds ==
  ASSUME PipelineInv, NEW x \in Extractors, RunHonest(x),
         DeleteToc(x) \/ ReplaceToc(x) \/ EvaluateStatus(x)
  PROVE  RunHonest(x)'
<1> USE DEF PipelineInv, TypeOK
<1>1. /\ extractor[x].pc \in {"delete_toc", "replace_toc", "evaluate"}
      /\ extractor[x].pc = "delete_toc" => extractor'[x].pc = "replace_toc"
      /\ extractor[x].pc = "replace_toc" => extractor'[x].pc \in {"evaluate", "upsert"}
      /\ extractor[x].pc = "evaluate" => extractor'[x].pc = "commit"
      /\ extractor'[x].task = extractor[x].task /\ extractor'[x].codes = extractor[x].codes
      /\ extractor'[x].todo = extractor[x].todo
  BY TocDeleted, TocReplaced, Evaluated
<1>2. /\ extractor'[x].any_review = extractor[x].any_review
      /\ extractor'[x].loaded = extractor[x].loaded
      /\ UNCHANGED <<t_task, t_result, uncommitted>>
  BY DEF DeleteToc, ReplaceToc, ExtractorGoto, EvaluateStatus, ExtractorTypeOK, ExtractorRuns,
     stores
<1>3. DonePending(x)' <=> DonePending(x)
  BY <1>1, <1>2 DEF DonePending, InHand, Visible
<1>4. RunCounts(x)'
  BY <1>1, <1>2, <1>3 DEF RunHonest, RunCounts, InTransaction
<1>5. RunLoaded(x)'
  BY <1>1, <1>2 DEF RunHonest, RunLoaded, StillLoaded, InTransaction
<1>7. RunDone(x)'
  <2>1. ReplaceToc(x) \/ DeleteToc(x) => RunDone(x)'
    BY TocDeleted, TocReplaced DEF RunDone
  <2>2. EvaluateStatus(x) => RunDone(x)'
    BY Evaluated DEF RunDone
  <2> QED
    BY <2>1, <2>2
<1>6. RunVerdict(x)'
  <2>1. CASE DeleteToc(x) \/ ReplaceToc(x)
    BY <2>1, TocDeleted, TocReplaced DEF RunVerdict
  <2>2. CASE EvaluateStatus(x)
    <3>1. extractor[x].pc = "evaluate"
      BY <2>2, Evaluated
    <3>2. PICK t \in Uploads : t = extractor[x].task
      BY <3>1 DEF ExtractorInv, RunInv, ExtractorTypeOK, ExtractorRuns
    <3>3. PendingReview(x, t)' <=> PendingReview(x, t)
      BY <1>2 DEF PendingReview, Visible
    <3>4. CASE extractor[x].codes = {}
      <4>1. extractor'[x].verdict =
              IF extractor[x].any_review THEN "PENDING_REVIEW" ELSE "COMPLETED"
        BY <2>2, <3>4 DEF EvaluateStatus, ExtractorTypeOK, ExtractorRuns
      <4>2. extractor[x].any_review <=> DonePending(x)
        BY <3>1, <3>4 DEF RunHonest, RunCounts, InTransaction
      <4>3. extractor[x].todo = {}
        BY <3>1 DEF RunHonest, RunDone
      <4>4. DonePending(x) <=> PendingReview(x, t)
        BY <3>1, <3>2, <4>3, PendingRows DEF DonePending, InHand
      <4> QED
        BY <1>1, <3>2, <3>3, <4>1, <4>2, <4>4 DEF RunVerdict, VerdictHolds
    <3>5. CASE extractor[x].codes # {}
      <4>1. extractor'[x].verdict =
              IF PendingReview(x, t) THEN "PENDING_REVIEW" ELSE "COMPLETED"
        BY <2>2, <3>2, <3>5 DEF EvaluateStatus, ExtractorTypeOK, ExtractorRuns
      <4> QED
        BY <1>1, <3>2, <3>3, <4>1 DEF RunVerdict, VerdictHolds
    <3> QED
      BY <3>4, <3>5
  <2> QED
    BY <2>1, <2>2
<1> QED
  BY <1>1, <1>4, <1>5, <1>6, <1>7 DEF RunHonest, RunFresh, RunHand, Early

(* The SELECT finds the only row of its rule, committed, or none. *)
LEMMA RowSelected ==
  ASSUME PipelineInv, NEW x \in Extractors, SelectResult(x)
  PROVE  \E i \in RowIds, review \in BOOLEAN :
           /\ i[1] = extractor[x].task /\ i[2] \in extractor[x].todo
           /\ \A j \in RowIds :
                j[1] = extractor[x].task /\ j[2] = i[2] /\ Visible(x, j) # Absent => j = i
           /\ extractor'[x].row = i /\ extractor'[x].loaded_row = t_result[i]
           /\ extractor'[x].review = review
           /\ extractor'[x].any_review = (extractor[x].any_review \/ review)
           /\ extractor'[x].loaded = extractor[x].loaded
<1> USE DEF PipelineInv, TypeOK
<1>1. extractor[x] \in ExtractorRuns /\ extractor[x].pc = "upsert"
  BY DEF SelectResult, ExtractorAt, ExtractorTypeOK
<1>2. PICK t \in Uploads : t = extractor[x].task
  BY <1>1 DEF ExtractorInv, RunInv, ExtractorRuns
<1>3. PICK r \in NextRules(extractor[x].todo), review \in {NeedsReview(o) : o \in Outcomes} :
        /\ Cardinality(VisibleRows(x, t, r)) <= 1
        /\ \E i \in IF VisibleRows(x, t, r) = {} THEN {<<t, r, x>>} ELSE VisibleRows(x, t, r) :
             extractor' = [extractor EXCEPT
               ![x].pc = "flush", ![x].todo = @ \ {r}, ![x].row = i,
               ![x].loaded_row = Visible(x, i), ![x].review = review,
               ![x].any_review = @ \/ review]
  BY <1>2 DEF SelectResult
<1>4. PICK i \in IF VisibleRows(x, t, r) = {} THEN {<<t, r, x>>} ELSE VisibleRows(x, t, r) :
        extractor' = [extractor EXCEPT
          ![x].pc = "flush", ![x].todo = @ \ {r}, ![x].row = i,
          ![x].loaded_row = Visible(x, i), ![x].review = review,
          ![x].any_review = @ \/ review]
  BY <1>3
<1>5. r \in extractor[x].todo /\ r \in Rules
  BY <1>1 DEF NextRules, ExtractorRuns
<1>6. i \in RowIds /\ i[1] = t /\ i[2] = r
  BY <1>5 DEF VisibleRows, RowIds
<1>7. review \in BOOLEAN
  <2>1. \A o \in Outcomes : NeedsReview(o) \in BOOLEAN
    BY DEF NeedsReview, Score, ReviewThreshold
  <2> QED
    BY <2>1
<1>8. \A j \in RowIds : j[1] = t /\ j[2] = r /\ Visible(x, j) # Absent => j = i
  <2>1. IsFiniteSet(VisibleRows(x, t, r))
    <3> DEFINE f == [j \in VisibleRows(x, t, r) |-> j[3]]
    <3>1. f \in Injection(VisibleRows(x, t, r), Extractors)
      <4>1. \A j \in VisibleRows(x, t, r) : j = <<t, r, j[3]>> /\ j[3] \in Extractors
        BY DEF VisibleRows
      <4>2. f \in [VisibleRows(x, t, r) -> Extractors]
        BY <4>1
      <4>3. \A j, k \in VisibleRows(x, t, r) : f[j] = f[k] => j = k
        BY <4>1
      <4> QED
        BY <4>2, <4>3 DEF Injection, IsInjective
    <3> QED
      BY <3>1, SessionsAssumption, FS_Injection
  <2>2. ASSUME NEW j \in VisibleRows(x, t, r)
        PROVE  j = i
    <3> DEFINE others == VisibleRows(x, t, r) \ {j}
    <3>1. IsFiniteSet(others) /\ Cardinality(others) = Cardinality(VisibleRows(x, t, r)) - 1
      BY <2>1, <2>2, FS_RemoveElement
    <3>2. Cardinality(others) = 0
      BY <1>3, <2>1, <3>1, FS_CardinalityType
    <3>3. others = {} /\ i \in VisibleRows(x, t, r)
      BY <1>4, <2>2, <3>1, <3>2, FS_EmptySet
    <3> QED
      BY <3>3
  <2> QED
    BY <2>2 DEF VisibleRows, RowIds
<1>9. uncommitted[x][i] = Absent
  BY <1>5, <1>6 DEF ExtractorInv, RunInv
<1>10. /\ extractor'[x].row = i /\ extractor'[x].loaded_row = Visible(x, i)
       /\ extractor'[x].review = review
       /\ extractor'[x].any_review = (extractor[x].any_review \/ review)
       /\ extractor'[x].loaded = extractor[x].loaded
  BY <1>4, <1>1 DEF ExtractorTypeOK, ExtractorRuns
<1> QED
  BY <1>2, <1>5, <1>6, <1>7, <1>8, <1>9, <1>10 DEF Visible

LEMMA RunSelects ==
  ASSUME PipelineInv, NEW x \in Extractors, RunHonest(x), SelectResult(x)
  PROVE  RunHonest(x)'
<1> USE DEF PipelineInv, TypeOK
<1>1. /\ extractor[x].pc = "upsert" /\ extractor'[x].pc = "flush"
      /\ extractor'[x].task = extractor[x].task /\ extractor'[x].codes = extractor[x].codes
      /\ extractor'[x].todo = extractor[x].todo \ {extractor'[x].row[2]}
  BY Selected
<1>2. PICK i \in RowIds, review \in BOOLEAN :
        /\ i[1] = extractor[x].task /\ i[2] \in extractor[x].todo
        /\ \A j \in RowIds :
             j[1] = extractor[x].task /\ j[2] = i[2] /\ Visible(x, j) # Absent => j = i
        /\ extractor'[x].row = i /\ extractor'[x].loaded_row = t_result[i]
        /\ extractor'[x].review = review
        /\ extractor'[x].any_review = (extractor[x].any_review \/ review)
        /\ extractor'[x].loaded = extractor[x].loaded
  BY RowSelected
<1>3. /\ UNCHANGED <<t_task, t_result>>
      /\ \A j \in RowIds : Visible(x, j)' = Visible(x, j)
  BY DEF SelectResult, stores, Visible
<1>4. \A j \in RowIds : InHand(x, j)' <=> j[2] = i[2]
  BY <1>1, <1>2 DEF InHand
<1>5. RunHand(x)'
  BY <1>1, <1>2, <1>3, <1>4 DEF RunHand
<1>6. RunCounts(x)'
  <2>1. DonePending(x)' <=> DonePending(x)
    <3>1. \A j \in RowIds : (j[2] \notin extractor'[x].todo /\ ~InHand(x, j)')
                              <=> (j[2] \notin extractor[x].todo /\ ~InHand(x, j))
      BY <1>1, <1>2, <1>4 DEF InHand
    <3> QED
      BY <1>1, <1>3, <3>1 DEF DonePending
  <2> QED
    BY <1>1, <1>2, <2>1 DEF RunHonest, RunCounts, InTransaction
<1>7. RunLoaded(x)'
  BY <1>1, <1>2, <1>3 DEF RunHonest, RunLoaded, StillLoaded, InTransaction
<1> QED
  BY <1>1, <1>5, <1>6, <1>7 DEF RunHonest, RunFresh, RunDone, RunVerdict, Early

LEMMA RunFlushes ==
  ASSUME PipelineInv, NEW x \in Extractors, RunHonest(x), FlushResult(x)
  PROVE  RunHonest(x)'
<1> USE DEF PipelineInv, TypeOK
<1>0. extractor[x].row \in RowIds
  BY DEF FlushResult, ExtractorAt, ExtractorInv, RunInv
<1> PICK row \in RowIds : row = extractor[x].row
  BY <1>0
<1>1. /\ extractor[x].pc = "flush" /\ row[1] = extractor[x].task
      /\ row[2] \notin extractor[x].todo
  BY DEF FlushResult, ExtractorAt, ExtractorInv, RunInv
<1>2. /\ extractor'[x].pc = IF extractor[x].todo = {} THEN "evaluate" ELSE "upsert"
      /\ extractor'[x].task = extractor[x].task /\ extractor'[x].codes = extractor[x].codes
      /\ extractor'[x].todo = extractor[x].todo
      /\ \A i \in RowIds : i # row => uncommitted'[x][i] = uncommitted[x][i]
      /\ uncommitted'[x][row] = UpsertedRow(x)
  BY <1>1, RowFlushed
<1>3. /\ extractor'[x].any_review = extractor[x].any_review
      /\ extractor'[x].loaded = extractor[x].loaded
      /\ UNCHANGED <<t_task, t_result>>
  <2> DEFINE pc == IF extractor[x].todo = {} THEN "evaluate" ELSE "upsert"
             c == [extractor[x] EXCEPT !.pc = pc, !.row = Absent, !.loaded_row = Absent,
                                       !.review = FALSE]
  <2>1. extractor'[x] = c
    BY DEF FlushResult, ExtractorTypeOK, ExtractorRuns
  <2>2. c.any_review = extractor[x].any_review /\ c.loaded = extractor[x].loaded
    <3> HIDE DEF pc
    <3> QED
      BY DEF ExtractorTypeOK, ExtractorRuns
  <2>3. UNCHANGED <<t_task, t_result>>
    BY DEF FlushResult
  <2> HIDE DEF c
  <2> QED
    BY <2>1, <2>2, <2>3
<1>4. UpsertedRow(x) # Absent
  BY <1>1, UpsertedIsRow, Unrelated DEF ExtractorInv
<1>5. UpsertedRow(x).needs_review = extractor[x].review
  BY <1>1 DEF RunHonest, RunHand, UpsertedRow, Flushed
<1>6. \A i \in RowIds : Visible(x, i)' = IF i = row THEN UpsertedRow(x) ELSE Visible(x, i)
  BY <1>2, <1>3, <1>4 DEF Visible
<1>7. \A i \in RowIds : ~InHand(x, i)'
  BY <1>2 DEF InHand
<1>8. DonePending(x)' <=> extractor[x].review \/ DonePending(x)
  <2>1. ASSUME extractor[x].review PROVE DonePending(x)'
    <3>1. /\ row[1] = extractor'[x].task /\ row[2] \notin extractor'[x].todo
          /\ ~InHand(x, row)' /\ Visible(x, row)' # Absent /\ Visible(x, row)'.needs_review
      BY <1>1, <1>2, <1>4, <1>5, <1>6, <1>7, <2>1
    <3> QED
      BY <3>1 DEF DonePending
  <2>2. ASSUME DonePending(x) PROVE DonePending(x)'
    <3>1. PICK i \in RowIds :
            /\ i[1] = extractor[x].task /\ i[2] \notin extractor[x].todo /\ ~InHand(x, i)
            /\ Visible(x, i) # Absent /\ Visible(x, i).needs_review
      BY <2>2 DEF DonePending
    <3>2. i # row
      BY <1>1, <3>1 DEF InHand
    <3> QED
      BY <1>2, <1>6, <1>7, <3>1, <3>2 DEF DonePending
  <2>3. ASSUME DonePending(x)' PROVE extractor[x].review \/ DonePending(x)
    <3>1. PICK i \in RowIds :
            /\ i[1] = extractor[x].task /\ i[2] \notin extractor[x].todo
            /\ Visible(x, i)' # Absent /\ Visible(x, i)'.needs_review
      BY <1>2, <2>3 DEF DonePending
    <3>2. CASE i = row
      BY <1>5, <1>6, <3>1, <3>2
    <3>3. CASE i # row
      <4>1. ~InHand(x, i)
        BY <1>1, <1>6, <3>1, <3>3 DEF RunHonest, RunHand
      <4> QED
        BY <1>6, <3>1, <3>3, <4>1 DEF DonePending
    <3> QED
      BY <3>2, <3>3
  <2> QED
    BY <2>1, <2>2, <2>3
<1>9. RunCounts(x)'
  BY <1>1, <1>2, <1>3, <1>8 DEF RunHonest, RunCounts, InTransaction
<1>10. RunLoaded(x)'
  BY <1>1, <1>2, <1>3 DEF RunHonest, RunLoaded, StillLoaded, InTransaction
<1>11. RunDone(x)'
  BY <1>2 DEF RunDone
<1> QED
  BY <1>2, <1>9, <1>10, <1>11 DEF RunHonest, RunFresh, RunHand, RunVerdict, Early

LEMMA RunCommitsHonestly ==
  ASSUME PipelineInv, NEW x \in Extractors, RunHonest(x), CommitExtraction(x)
  PROVE  \E t \in Uploads : t = extractor[x].task /\ Honest(t)'
<1> USE DEF PipelineInv, TypeOK
<1>1. /\ extractor[x].pc = "commit" /\ extractor[x].task \in Uploads
      /\ extractor[x].verdict \in FinalStatus
  BY DEF CommitExtraction, ExtractorAt, ExtractorInv, RunInv, ExtractorTypeOK, ExtractorRuns
<1>2. PICK t \in Uploads : t = extractor[x].task
  BY <1>1
<1>3. VerdictHolds(x, extractor[x].verdict, t) /\ StillLoaded(extractor[x].loaded, t)
  BY <1>1, <1>2 DEF RunHonest, RunVerdict, RunLoaded, InTransaction
<1>4. Honest(t)'
  BY <1>1, <1>2, <1>3, VerdictCommitted DEF CommitExtraction, SetExtractedStatus, Sessions
<1> QED
  BY <1>2, <1>4

LEMMA RunHonestStep ==
  ASSUME PipelineInv, PipelineInv', NEW x \in Extractors, RunHonest(x),
         ExtractorStep(x) \/ ExtractorCrash(x)
  PROVE  RunHonest(x)'
<1>1. CASE extractor'[x].pc \notin InTransaction
  BY <1>1, RunEntersFresh DEF RunHonest, PipelineInv
<1>2. CASE extractor'[x].pc \in InTransaction
  <2>1. \/ BeginExtraction(x) \/ DeleteToc(x) \/ ReplaceToc(x) \/ SelectResult(x)
        \/ FlushResult(x) \/ EvaluateStatus(x)
    BY <1>2, InsideTransaction DEF PipelineInv, TypeOK
  <2> QED
    BY <2>1, RunBegins, RunProceeds, RunSelects, RunFlushes
<1> QED
  BY <1>1, <1>2

----------------------------------------------------------------------------
(* While transactions stay apart, a session's step leaves what the others know alone:
   it disturbs its own task at most, and none of them works on that one.             *)
LEMMA HonestNext ==
  PipelineInv /\ PipelineInv' /\ LocksInv /\ TransactionsApart /\ HonestInv /\ [Next]_vars
    => HonestInv'
<1> SUFFICES ASSUME PipelineInv, PipelineInv', LocksInv, TransactionsApart, HonestInv,
                    [Next]_vars
             PROVE  HonestInv'
  OBVIOUS
<1>a. Sessions = Extractors \union Fixes /\ Extractors \intersect Fixes = {}
  BY SessionsAssumption DEF Sessions
<1>b. ReviewTypeOK /\ ReviewInv /\ ExtractorTypeOK /\ ExtractorInv
  BY DEF PipelineInv, TypeOK
<1>c. ASSUME NEW v \in Fixes, fix'[v] = fix[v], uncommitted'[v] = uncommitted[v],
             \A t \in Uploads : Working(v, t) => Undisturbed(t)
      PROVE  FixHonest(v)'
  BY <1>b, <1>c, FixStandsBy DEF HonestInv
<1>d. ASSUME NEW x \in Extractors, extractor'[x] = extractor[x],
             uncommitted'[x] = uncommitted[x],
             \A t \in Uploads : Working(x, t) => Undisturbed(t)
      PROVE  RunHonest(x)'
  BY <1>b, <1>d, RunWaits DEF HonestInv
<1>1. CASE UNCHANGED vars \/ Quiet
  <2>1. \A t \in Uploads : Undisturbed(t)
    BY <1>1 DEF vars, stores, Quiet, results, Undisturbed
  <2>2. UNCHANGED <<uncommitted, extractor, fix>>
    BY <1>1 DEF vars, stores, Quiet, results
  <2> QED
    BY <1>c, <1>d, <2>1, <2>2, StatusStays DEF HonestInv
<1>2. ASSUME NEW x \in Extractors, ExtractorStep(x) \/ ExtractorCrash(x),
             WritesKept(Sessions \ {x}), UNCHANGED fix
      PROVE  HonestInv'
  <2>1. ASSUME NEW t \in Uploads
        PROVE  Working(x, t) \/ Undisturbed(t)
    <3>1. CASE CommitExtraction(x) /\ extractor[x].task = t
      BY <3>1 DEF CommitExtraction, ExtractorAt, Working, InTransaction
    <3> QED
      BY <1>2, <3>1, RunDisturbs
  <2>2. ASSUME NEW o \in Sessions, o # x, NEW t \in Uploads, Working(o, t)
        PROVE  Undisturbed(t)
    BY <1>a, <2>1, <2>2 DEF TransactionsApart
  <2>3. \A v \in Fixes : FixHonest(v)'
    BY <1>2, <1>a, <1>c, <2>2 DEF WritesKept
  <2>4. \A y \in Extractors : y # x => RunHonest(y)'
    BY <1>2, <1>a, <1>b, <1>d, <2>2, Elsewhere DEF WritesKept
  <2>5. RunHonest(x)'
    BY <1>2, RunHonestStep DEF HonestInv
  <2>6. \A t \in Uploads : Honest(t)'
    <3> TAKE t \in Uploads
    <3>1. CASE CommitExtraction(x) /\ extractor[x].task = t
      <4>1. \E u \in Uploads : u = extractor[x].task /\ Honest(u)'
        BY <3>1, RunCommitsHonestly DEF HonestInv
      <4> QED
        BY <3>1, <4>1
    <3>2. CASE Undisturbed(t)
      BY <3>2, StatusStays DEF HonestInv
    <3> QED
      BY <1>2, <3>1, <3>2, RunDisturbs
  <2> QED
    BY <2>3, <2>4, <2>5, <2>6 DEF HonestInv
<1>3. ASSUME NEW v \in Fixes, SelectFix(v) \/ FixStep(v) \/ FixFails(v),
             WritesKept(Sessions \ {v}), UNCHANGED extractor
      PROVE  HonestInv'
  <2>1. ASSUME NEW t \in Uploads
        PROVE  Working(v, t) \/ Undisturbed(t)
    <3>1. CASE CommitFix(v) /\ FixedTask(v) = t
      BY <3>1 DEF CommitFix, FixAt, Working
    <3> QED
      BY <1>3, <3>1, FixDisturbs
  <2>2. ASSUME NEW o \in Sessions, o # v, NEW t \in Uploads, Working(o, t)
        PROVE  Undisturbed(t)
    BY <1>a, <2>1, <2>2 DEF TransactionsApart
  <2>3. \A x \in Extractors : RunHonest(x)'
    BY <1>3, <1>a, <1>d, <2>2 DEF WritesKept
  <2>4. \A u \in Fixes : u # v => FixHonest(u)'
    <3>1. \A u \in Fixes : u # v => fix'[u] = fix[u]
      BY <1>3, <1>b DEF SelectFix, FixStep, FlushFix, CountPending, LoadTask, CommitFix,
         FixFails, FixDone, ReviewTypeOK
    <3> QED
      BY <1>3, <1>a, <1>c, <2>2, <3>1 DEF WritesKept
  <2>5. FixHonest(v)'
    BY <1>3, FixKeepsCount DEF HonestInv
  <2>6. \A t \in Uploads : Honest(t)'
    <3> TAKE t \in Uploads
    <3>1. CASE CommitFix(v) /\ FixedTask(v) = t
      <4>1. \E u \in Uploads : u = FixedTask(v) /\ Honest(u)'
        BY <3>1, FixCommitsHonestly DEF HonestInv
      <4> QED
        BY <3>1, <4>1
    <3>2. CASE Undisturbed(t)
      BY <3>2, StatusStays DEF HonestInv
    <3> QED
      BY <1>3, <3>1, <3>2, FixDisturbs
  <2> QED
    BY <2>3, <2>4, <2>5, <2>6 DEF HonestInv
<1> QED
  BY <1>1, <1>2, <1>3, Steps

LEMMA HonestInit == Init => HonestInv
<1> SUFFICES ASSUME Init PROVE HonestInv
  OBVIOUS
<1>1. \A t \in Uploads : Honest(t)
  BY Unrelated DEF Init, StoresInit, Honest, FinalStatus, TaskStatus
<1>2. \A v \in Fixes : FixHonest(v)
  BY DEF Init, ReviewInit, NewFix, FixHonest
<1>3. \A x \in Extractors : RunHonest(x)
  BY DEF Init, ExtractorInit, PollingExtractor, InTransaction, RunHonest, RunFresh, RunCounts,
     RunHand, RunDone, RunVerdict, RunLoaded
<1> QED
  BY <1>1, <1>2, <1>3 DEF HonestInv

(* A final status is PENDING_REVIEW exactly when a committed row waits for a reviewer, as
   long as nobody works on the results of a task before the transaction in hand has ended
   (evaluate over a run's outcomes, apply_fix's and a re-extraction's
   count_pending_review_by_task; failures, crashes and the parser's late writes included). *)
THEOREM ReviewStatusKept == Spec /\ []TransactionsApart => []ReviewStatusHonest
<1>1. HonestInv => ReviewStatusHonest
  BY DEF HonestInv, Honest, ReviewStatusHonest
<1> QED
  BY <1>1, HonestInit, HonestNext, Invariance, LocksHeld, PTL DEF Spec

----------------------------------------------------------------------------
(* Runs keep apart by themselves, from each other and from reviewers, where a document
   is uploaded once and nothing is re-extracted: the work on a task is then in one place
   at a time, on its way from the request through the queues and workers to its rows,
   and rows are what a reviewer needs to begin.  No failure puts it in two places: a push
   that is reported to have failed is not repeated, and a popped message never comes back. *)
BeforePublish == {"idle", "insert", "refresh", "recover", "touch", "upload", "publish"}
Parsing == {"mark_parsing", "set_parsing", "parse", "store", "publish"}
Extracting == {"download", "check", "store", "begin"} \union InTransaction

Waiting(t) == request[t].pc \in BeforePublish
ParsedBy(w, t) == parser[w].task = t /\ parser[w].pc \in Parsing
InExtractorQueue(t) == \E i \in DOMAIN extractor_queue : extractor_queue[i].task = t
ExtractedBy(x, t) == extractor[x].task = t /\ extractor[x].pc \in Extracting
AtParser(t) == \E w \in Parsers : ParsedBy(w, t)
AtExtractor(t) == \E x \in Extractors : ExtractedBy(x, t)
HasRows(t) == \E i \in RowIds : i[1] = t /\ t_result[i] # Absent

OnePlace(t) ==
  /\ Waiting(t) => ~InQueue(t)
  /\ Waiting(t) \/ InQueue(t) => ~AtParser(t)
  /\ Waiting(t) \/ InQueue(t) \/ AtParser(t) => ~InExtractorQueue(t)
  /\ Waiting(t) \/ InQueue(t) \/ AtParser(t) \/ InExtractorQueue(t) => ~AtExtractor(t)
  /\ Waiting(t) \/ InQueue(t) \/ AtParser(t) \/ InExtractorQueue(t) \/ AtExtractor(t)
       => ~HasRows(t)

OnceInQueue(t) ==
  \A i, j \in DOMAIN parser_queue : parser_queue[i] = t /\ parser_queue[j] = t => i = j
OnceInExtractorQueue(t) ==
  \A i, j \in DOMAIN extractor_queue :
    extractor_queue[i].task = t /\ extractor_queue[j].task = t => i = j
OneParser(t) == \A v, w \in Parsers : ParsedBy(v, t) /\ ParsedBy(w, t) => v = w
OneRun(t) == \A x, y \in Extractors : ExtractedBy(x, t) /\ ExtractedBy(y, t) => x = y

PathInv(t) ==
  OnePlace(t) /\ OnceInQueue(t) /\ OnceInExtractorQueue(t) /\ OneParser(t) /\ OneRun(t)

(* The parts of a task's path that a step leaves as they are, or empties. *)
RequestStill(t) == Waiting(t)' => Waiting(t)
QueueStill(t) == (InQueue(t)' => InQueue(t)) /\ (OnceInQueue(t) => OnceInQueue(t)')
ParsersStill(t) == \A w \in Parsers : ParsedBy(w, t)' => ParsedBy(w, t)
ExtractorQueueStill(t) ==
  /\ InExtractorQueue(t)' => InExtractorQueue(t)
  /\ OnceInExtractorQueue(t) => OnceInExtractorQueue(t)'
RunsStill(t) == \A x \in Extractors : ExtractedBy(x, t)' => ExtractedBy(x, t)
RowsStill(t) == HasRows(t)' => HasRows(t)

LEMMA PathStill ==
  ASSUME NEW t \in Uploads, PathInv(t), RequestStill(t), QueueStill(t), ParsersStill(t),
         ExtractorQueueStill(t), RunsStill(t), RowsStill(t)
  PROVE  PathInv(t)'
<1>1. OneParser(t)' /\ (AtParser(t)' => AtParser(t))
  BY DEF PathInv, ParsersStill, OneParser, AtParser
<1>2. OneRun(t)' /\ (AtExtractor(t)' => AtExtractor(t))
  BY DEF PathInv, RunsStill, OneRun, AtExtractor
<1>3. OnePlace(t)'
  BY <1>1, <1>2 DEF PathInv, OnePlace, RequestStill, QueueStill, ExtractorQueueStill, RowsStill
<1> QED
  BY <1>1, <1>2, <1>3 DEF PathInv, QueueStill, ExtractorQueueStill

(* What has not been touched is still. *)
LEMMA Untouched ==
  ASSUME NEW t \in Uploads
  PROVE  /\ UNCHANGED request => RequestStill(t)
         /\ UNCHANGED parser_queue => QueueStill(t)
         /\ UNCHANGED parser => ParsersStill(t)
         /\ UNCHANGED extractor_queue => ExtractorQueueStill(t)
         /\ UNCHANGED extractor => RunsStill(t)
         /\ UNCHANGED t_result => RowsStill(t)
<1>1. UNCHANGED request => RequestStill(t)
  BY DEF RequestStill, Waiting
<1>2. UNCHANGED parser_queue => QueueStill(t)
  BY DEF QueueStill, InQueue, OnceInQueue
<1>3. UNCHANGED parser => ParsersStill(t)
  BY DEF ParsersStill, ParsedBy
<1>4. UNCHANGED extractor_queue => ExtractorQueueStill(t)
  BY DEF ExtractorQueueStill, InExtractorQueue, OnceInExtractorQueue
<1>5. UNCHANGED extractor => RunsStill(t)
  BY DEF RunsStill, ExtractedBy
<1>6. UNCHANGED t_result => RowsStill(t)
  BY DEF RowsStill, HasRows
<1> QED
  BY <1>1, <1>2, <1>3, <1>4, <1>5, <1>6

LEMMA Pushed ==
  ASSUME NEW S, NEW q \in Seq(S), NEW e \in S
  PROVE  LET longer == Append(q, e)
             last == Len(q) + 1
         IN  /\ DOMAIN longer = 1..last /\ DOMAIN q = 1..Len(q) /\ Len(q) \in Nat
             /\ \A i \in DOMAIN longer : \/ i \in DOMAIN q /\ longer[i] = q[i]
                                         \/ i = last /\ longer[i] = e
OBVIOUS

(* The request: it may move the work to the queue, once. *)
LEMMA RequestPath ==
  ASSUME UploadedOnce, PipelineInv, NEW r \in Uploads,
         FindExisting(r) \/ RequestStep(r) \/ RequestCrash(r),
         NEW t \in Uploads, PathInv(t)
  PROVE  PathInv(t)'
<1> USE DEF PipelineInv, TypeOK
<1>1. \A q \in Uploads : q # r => request'[q] = request[q]
  BY OtherRequests
<1>2. UNCHANGED <<t_result, extractor, extractor_queue, parser>>
  <2>1. UNCHANGED <<t_result, extractor, extractor_queue>>
    BY RequestQuiet DEF Quiet, results
  <2>2. UNCHANGED parser
    BY QueueGrows DEF RequestCrash, notTaskService
  <2> QED
    BY <2>1, <2>2
<1>3. request[r].pc \notin BeforePublish => request'[r].pc \notin BeforePublish
  <2>1. /\ \A pc : Goto(r, pc) => request'[r].pc = pc
        /\ \A u, pc : Bind(r, u, pc) => request'[r].pc = pc
        /\ \A reply : Reply(r, reply) => request'[r].pc = "done"
    BY DEF Goto, Bind, Reply, RequestTypeOK
  <2> QED
    BY <2>1 DEF BeforePublish, FindExisting, RequestStep, RequestCrash, Touch, InsertTask,
       RefreshTask, RecoverFromDuplicate, UploadSource, PublishParserTask, Requeue,
       PersistDispatchFailure, At
<1>4. RequestStill(t)
  BY <1>1, <1>3 DEF RequestStill, Waiting
<1>5. CASE parser_queue' = parser_queue
  BY <1>2, <1>4, <1>5, PathStill, Untouched
<1>6. CASE parser_queue' # parser_queue
  <2>1. PublishParserTask(r)
    BY <1>6 DEF FindExisting, RequestStep, RequestCrash, Touch, InsertTask, RefreshTask,
       RecoverFromDuplicate, UploadSource, Requeue, PersistDispatchFailure, stores, queues
  <2>2. request[r].pc = "publish" /\ request[r].task = r
    BY <2>1, OwnTask DEF PublishParserTask, At, RequestInv, AfterBinding
  <2>3. parser_queue' = Append(parser_queue, r) /\ request'[r].pc \in {"done", "persist_failure"}
    BY <1>6, <2>1, <2>2 DEF PublishParserTask, AfterFailedPush, Reply, Goto, RequestTypeOK
  <2>4. parser_queue \in Seq(Uploads)
    BY DEF StoresTypeOK
  <2>5. \A i \in DOMAIN parser_queue' :
          \/ i \in DOMAIN parser_queue /\ parser_queue'[i] = parser_queue[i]
          \/ i = Len(parser_queue) + 1 /\ parser_queue'[i] = r
    BY <2>3, <2>4, Pushed
  <2>6. CASE t # r
    <3>1. QueueStill(t)
      BY <2>5, <2>6 DEF QueueStill, InQueue, OnceInQueue
    <3> QED
      BY <1>2, <1>4, <3>1, PathStill, Untouched
  <2>7. CASE t = r
    <3>1. Waiting(t) /\ ~Waiting(t)'
      BY <2>2, <2>3, <2>7 DEF Waiting, BeforePublish
    <3>2. /\ ~InQueue(t) /\ ~AtParser(t) /\ ~InExtractorQueue(t) /\ ~AtExtractor(t)
          /\ ~HasRows(t)
      BY <3>1 DEF PathInv, OnePlace
    <3>3. OnceInQueue(t)'
      BY <2>5, <3>2 DEF InQueue, OnceInQueue
    <3>4. /\ ~AtParser(t)' /\ ~InExtractorQueue(t)' /\ ~AtExtractor(t)' /\ ~HasRows(t)'
          /\ OnceInExtractorQueue(t)' /\ OneParser(t)' /\ OneRun(t)'
      BY <1>2, <3>2 DEF PathInv, AtParser, ParsedBy, InExtractorQueue, AtExtractor, ExtractedBy,
         HasRows, OnceInExtractorQueue, OneParser, OneRun
    <3> QED
      BY <3>1, <3>3, <3>4 DEF PathInv, OnePlace
  <2> QED
    BY <2>6, <2>7
<1> QED
  BY <1>5, <1>6

(* A message taken from a queue is in it no more. *)
LEMMA TakenOnce ==
  ASSUME NEW S, NEW q \in Seq(S), q # <<>>
  PROVE  /\ 1 \in DOMAIN q /\ Head(q) = q[1]
         /\ \A i \in DOMAIN Tail(q) :
              i + 1 \in DOMAIN q /\ Tail(q)[i] = q[i + 1] /\ i + 1 # 1
         /\ \A i, j \in DOMAIN Tail(q) : i + 1 = j + 1 => i = j
OBVIOUS

(* The parser: it takes the work from one queue and may move it to the other. *)
LEMMA ParserMovesOn ==
  ASSUME ParserTypeOK, NEW w \in Parsers, ParserStep(w) \/ ParserCrash(w),
         ~ConsumeParserTask(w), NEW t \in Uploads
  PROVE  /\ ParsersStill(t)
         /\ PublishExtractorTask(w) => ~ParsedBy(w, t)'
<1>1. /\ \A pc : ParserGoto(w, pc) => /\ \A v \in Parsers : v # w => parser'[v] = parser[v]
                                      /\ parser'[w].pc = pc /\ parser'[w].task = parser[w].task
      /\ ParserDone(w) => /\ \A v \in Parsers : v # w => parser'[v] = parser[v]
                          /\ parser'[w].pc = "idle"
  BY DEF ParserGoto, ParserDone, ParserTypeOK, IdleParser
<1>2. \A pc, status : parser' = [parser EXCEPT ![w].pc = pc, ![w].loaded = status] =>
        /\ \A v \in Parsers : v # w => parser'[v] = parser[v]
        /\ parser'[w].pc = pc /\ parser'[w].task = parser[w].task
  BY DEF ParserTypeOK
<1>3. ASSUME NEW pc, parser'[w].pc = pc, pc \notin Parsing,
             \A v \in Parsers : v # w => parser'[v] = parser[v]
      PROVE  ParsersStill(t) /\ ~ParsedBy(w, t)'
  BY <1>3 DEF ParsersStill, ParsedBy
<1>4. ASSUME parser[w].pc \in Parsing, parser'[w].task = parser[w].task,
             \A v \in Parsers : v # w => parser'[v] = parser[v]
      PROVE  ParsersStill(t)
  BY <1>4 DEF ParsersStill, ParsedBy
<1>5. CASE PublishExtractorTask(w)
  <2>1. ParserGoto(w, "mark_parsed") \/ ParserGoto(w, "mark_failed")
    BY <1>5 DEF PublishExtractorTask
  <2> QED
    BY <1>1, <1>3, <2>1 DEF Parsing
<1>6. CASE SetParsed(w) \/ SetFailed(w) \/ ParserCrash(w)
  BY <1>1, <1>3, <1>6
     DEF SetParsed, SetFailed, ParserFinish, ParserCrash, Parsing, PublishExtractorTask, ParserAt
<1>7. CASE SetParsing(w) \/ Parse(w) \/ StoreContentList(w)
  <2>1. parser[w].pc \in Parsing /\ parser[w].pc # "publish"
    BY <1>7 DEF SetParsing, Parse, StoreContentList, ParserAt, Parsing
  <2>2. ParserDone(w) \/ \E pc : ParserGoto(w, pc)
    BY <1>7 DEF SetParsing, Parse, StoreContentList
  <2>3. ParsersStill(t)
    BY <1>1, <1>3, <1>4, <2>1, <2>2 DEF Parsing
  <2> QED
    BY <2>1, <2>3 DEF PublishExtractorTask, ParserAt
<1>8. CASE MarkParsing(w) \/ MarkParsed(w) \/ MarkFailed(w)
  <2>1. parser[w].pc \in {"mark_parsing", "mark_parsed", "mark_failed"}
    BY <1>8 DEF MarkParsing, MarkParsed, MarkFailed, ParserLoad, ParserAt
  <2>2. \/ ParserDone(w)
        \/ \E pc : /\ parser[w].pc # "mark_parsing" => pc \in {"set_parsed", "set_failed"}
                   /\ parser' = [parser EXCEPT ![w].pc = pc,
                                               ![w].loaded = t_task[parser[w].task]]
    BY <1>8 DEF MarkParsing, MarkParsed, MarkFailed, ParserLoad, ParserAt
  <2>3. ParsersStill(t)
    BY <1>1, <1>2, <1>3, <1>4, <2>1, <2>2 DEF Parsing
  <2> QED
    BY <2>1, <2>3 DEF PublishExtractorTask, ParserAt
<1> QED
  BY <1>5, <1>6, <1>7, <1>8 DEF ParserStep

LEMMA ParserPath ==
  ASSUME PipelineInv, NEW w \in Parsers, ParserStep(w) \/ ParserCrash(w),
         NEW t \in Uploads, PathInv(t)
  PROVE  PathInv(t)'
<1> USE DEF PipelineInv, TypeOK
<1>1. UNCHANGED <<request, t_result, extractor>>
  BY OthersLeaveRequests, ParserQuiet DEF ParserNext, Quiet, results
<1>2. CASE ConsumeParserTask(w)
  <2>1. /\ parser_queue \in Seq(Uploads) /\ parser_queue # <<>>
        /\ parser_queue' = Tail(parser_queue) /\ UNCHANGED extractor_queue
        /\ \/ parser' = [parser EXCEPT ![w].pc = "mark_parsing", ![w].task = Head(parser_queue)]
           \/ UNCHANGED parser
    BY <1>2 DEF ConsumeParserTask, StoresTypeOK
  <2>2. /\ 1 \in DOMAIN parser_queue /\ Head(parser_queue) = parser_queue[1]
        /\ \A i \in DOMAIN parser_queue' :
             i + 1 \in DOMAIN parser_queue /\ parser_queue'[i] = parser_queue[i + 1]
             /\ i + 1 # 1
        /\ \A i, j \in DOMAIN parser_queue' : i + 1 = j + 1 => i = j
    BY <2>1, TakenOnce
  <2>3. QueueStill(t)
    BY <2>2 DEF QueueStill, InQueue, OnceInQueue
  <2>4. CASE ParsersStill(t)
    BY <1>1, <2>1, <2>3, <2>4, PathStill, Untouched
  <2>5. CASE ~ParsersStill(t)
    <3>1. parser' = [parser EXCEPT ![w].pc = "mark_parsing", ![w].task = Head(parser_queue)]
      BY <2>1, <2>5, Untouched
    <3>2. /\ \A v \in Parsers : v # w => parser'[v] = parser[v]
          /\ parser'[w].task = Head(parser_queue)
      BY <3>1 DEF ParserTypeOK
    <3>3. Head(parser_queue) = t
      BY <2>5, <3>2 DEF ParsersStill, ParsedBy
    <3>4. InQueue(t) /\ OnceInQueue(t)
      BY <2>2, <3>3 DEF InQueue, PathInv
    <3>5. ~InQueue(t)'
      BY <2>2, <3>3, <3>4 DEF InQueue, OnceInQueue
    <3>6. /\ ~Waiting(t) /\ ~AtParser(t) /\ ~InExtractorQueue(t) /\ ~AtExtractor(t)
          /\ ~HasRows(t)
      BY <3>4 DEF PathInv, OnePlace
    <3>7. OneParser(t)'
      BY <3>2, <3>6 DEF OneParser, AtParser, ParsedBy
    <3>8. /\ ~Waiting(t)' /\ ~InExtractorQueue(t)' /\ ~AtExtractor(t)' /\ ~HasRows(t)'
          /\ OnceInExtractorQueue(t)' /\ OneRun(t)'
      BY <1>1, <2>1, <3>6 DEF PathInv, Waiting, InExtractorQueue, AtExtractor, ExtractedBy,
         HasRows, OnceInExtractorQueue, OneRun
    <3>9. OnceInQueue(t)'
      BY <2>3, <3>4 DEF QueueStill
    <3> QED
      BY <3>5, <3>7, <3>8, <3>9 DEF PathInv, OnePlace
  <2> QED
    BY <2>4, <2>5
<1>3. CASE ~ConsumeParserTask(w)
  <2>1. UNCHANGED parser_queue
    BY <1>3 DEF ParserStep, ParserCrash, MarkParsing, SetParsing, Parse, StoreContentList,
       PublishExtractorTask, MarkParsed, SetParsed, MarkFailed, SetFailed, ParserLoad,
       ParserFinish, stores, queues
  <2>2. ParsersStill(t)
    BY <1>3, ParserMovesOn
  <2>3. CASE UNCHANGED extractor_queue
    BY <1>1, <2>1, <2>2, <2>3, PathStill, Untouched
  <2>4. CASE ~UNCHANGED extractor_queue
    <3>1. PublishExtractorTask(w) /\ extractor_queue' = Append(extractor_queue, ExtractorMessage(w))
      <4>1. PublishExtractorTask(w)
        BY <1>3, <2>4 DEF ParserStep, ParserCrash, MarkParsing, SetParsing, Parse,
           StoreContentList, MarkParsed, SetParsed, MarkFailed, SetFailed, ParserLoad,
           ParserFinish, stores, queues
      <4> QED
        BY <2>4, <4>1, ParserQuiet
    <3>2. parser[w].pc = "publish" /\ parser[w].task \in Uploads
      BY <3>1 DEF PublishExtractorTask, ParserAt, ParserInv, ParserTypeOK
    <3>3. extractor_queue \in Seq(ExtractorMessages) /\ ExtractorMessage(w) \in ExtractorMessages
          /\ ExtractorMessage(w).task = parser[w].task
      BY <3>2 DEF StoresTypeOK, ExtractorMessage, ExtractorMessages
    <3>4. \A i \in DOMAIN extractor_queue' :
            \/ i \in DOMAIN extractor_queue /\ extractor_queue'[i] = extractor_queue[i]
            \/ /\ i = Len(extractor_queue) + 1 /\ extractor_queue'[i].task = parser[w].task
               /\ extractor_queue'[i] = ExtractorMessage(w)
      <4> DEFINE m == ExtractorMessage(w)
      <4>1. m \in ExtractorMessages /\ extractor_queue' = Append(extractor_queue, m)
            /\ m.task = parser[w].task
        BY <3>1, <3>3
      <4> HIDE DEF m
      <4>2. \A i \in DOMAIN extractor_queue' :
              \/ i \in DOMAIN extractor_queue /\ extractor_queue'[i] = extractor_queue[i]
              \/ i = Len(extractor_queue) + 1 /\ extractor_queue'[i] = m
        BY <3>3, <4>1, Pushed
      <4> QED
        BY <4>1, <4>2 DEF m
    <3>5. CASE parser[w].task # t
      <4>1. ExtractorQueueStill(t)
        BY <3>4, <3>5 DEF ExtractorQueueStill, InExtractorQueue, OnceInExtractorQueue
      <4> QED
        BY <1>1, <2>1, <2>2, <4>1, PathStill, Untouched
    <3>6. CASE parser[w].task = t
      <4>1. ParsedBy(w, t) /\ ~ParsedBy(w, t)'
        BY <1>3, <3>1, <3>2, <3>6, ParserMovesOn DEF ParsedBy, Parsing
      <4>2. AtParser(t) /\ ~AtParser(t)' /\ OneParser(t)'
        BY <2>2, <4>1 DEF PathInv, AtParser, OneParser, ParsersStill
      <4>3. /\ ~Waiting(t) /\ ~InQueue(t) /\ ~InExtractorQueue(t) /\ ~AtExtractor(t)
            /\ ~HasRows(t)
        BY <4>2 DEF PathInv, OnePlace
      <4>4. OnceInExtractorQueue(t)'
        BY <3>4, <4>3 DEF InExtractorQueue, OnceInExtractorQueue
      <4>5. /\ ~Waiting(t)' /\ ~InQueue(t)' /\ ~AtExtractor(t)' /\ ~HasRows(t)'
            /\ OnceInQueue(t)' /\ OneRun(t)'
        BY <1>1, <2>1, <4>3 DEF PathInv, Waiting, InQueue, AtExtractor, ExtractedBy, HasRows,
           OnceInQueue, OneRun
      <4> QED
        BY <4>2, <4>4, <4>5 DEF PathInv, OnePlace
    <3> QED
      BY <3>5, <3>6
  <2> QED
    BY <2>3, <2>4
<1> QED
  BY <1>2, <1>3

(* The extractor: it takes the work from its queue, and its commit makes rows of it. *)
LEMMA RunMovesOn ==
  ASSUME PipelineInv, MessagesAreFull, NEW x \in Extractors,
         ExtractorStep(x) \/ ExtractorCrash(x),
         ~(PollExtract(x) /\ extractor_queue # <<>>), NEW t \in Uploads
  PROVE  /\ RunsStill(t)
         /\ CommitExtraction(x) => ~ExtractedBy(x, t)'
<1> USE DEF PipelineInv, TypeOK
<1>0. \A y \in Extractors : y # x => extractor'[y] = extractor[y]
  BY Elsewhere
<1>1. /\ \A pc : ExtractorGoto(x, pc) =>
            extractor'[x].pc = pc /\ extractor'[x].task = extractor[x].task
      /\ ExtractorDone(x) => extractor'[x].pc = "poll_reextract"
  BY DEF ExtractorGoto, ExtractorDone, ExtractorTypeOK, ExtractorRuns, PollingExtractor
<1>2. ASSUME extractor'[x].pc \notin Extracting
      PROVE  RunsStill(t) /\ ~ExtractedBy(x, t)'
  BY <1>0, <1>2 DEF RunsStill, ExtractedBy
<1>3. ASSUME extractor[x].pc \in Extracting, extractor'[x].task = extractor[x].task
      PROVE  RunsStill(t)
  BY <1>0, <1>3 DEF RunsStill, ExtractedBy
<1>4. CASE PollReextract(x) \/ PollExtract(x)
  <2>1. extractor'[x].pc \in {"poll_reextract", "poll_extract"}
    BY <1>1, <1>4 DEF PollReextract, PollExtract, MessagesAreFull
  <2>2. ~CommitExtraction(x)
    BY <1>4 DEF PollReextract, PollExtract, CommitExtraction, ExtractorAt
  <2> QED
    BY <1>2, <2>1, <2>2 DEF Extracting, InTransaction
<1>5. CASE DownloadContentList(x) \/ CheckTask(x) \/ StoreLogicalTables(x)
  <2>1. extractor[x].pc \in Extracting /\ extractor[x].pc # "commit"
    BY <1>5 DEF DownloadContentList, CheckTask, StoreLogicalTables, ExtractorAt, Extracting
  <2>2. extractor'[x].task = extractor[x].task \/ extractor'[x].pc \notin Extracting
    BY <1>1, <1>5
       DEF DownloadContentList, CheckTask, StoreLogicalTables, Extracting, InTransaction
  <2> QED
    BY <1>2, <1>3, <2>1, <2>2 DEF CommitExtraction, ExtractorAt
<1>6. CASE \/ BeginExtraction(x) \/ DeleteToc(x) \/ ReplaceToc(x) \/ SelectResult(x)
           \/ FlushResult(x) \/ EvaluateStatus(x)
  <2>1. /\ extractor[x].pc \in {"begin", "delete_toc", "replace_toc", "upsert", "flush", "evaluate"}
        /\ extractor'[x].task = extractor[x].task
    BY <1>6, Begun, TocDeleted, TocReplaced, Selected, RowFlushed, Evaluated
       DEF FlushResult, ExtractorAt, ExtractorInv, RunInv
  <2> QED
    BY <1>3, <2>1 DEF CommitExtraction, ExtractorAt, Extracting, InTransaction
<1>7. CASE \/ MultipleResultsFound(x) \/ LLMFallbackFails(x) \/ CommitExtraction(x)
           \/ ExtractionDatabaseError(x) \/ CleanupLogicalTables(x) \/ SetExtractionFailed(x)
           \/ ExtractorCrash(x)
  <2>1. extractor'[x].pc \in {"cleanup", "mark_failed", "poll_reextract"}
    BY <1>1, <1>7 DEF MultipleResultsFound, LLMFallbackFails, CommitExtraction,
       ExtractionDatabaseError, CleanupLogicalTables, SetExtractionFailed, ExtractorCrash
  <2> QED
    BY <1>2, <2>1 DEF Extracting, InTransaction
<1>8. CASE LoadFailed(x)
  <2>1. extractor'[x].pc \in {"set_failed", "poll_reextract"}
    BY <1>1, <1>8 DEF LoadFailed, ExtractorTypeOK, ExtractorRuns
  <2> QED
    BY <1>2, <2>1 DEF Extracting, InTransaction
<1> QED
  BY <1>4, <1>5, <1>6, <1>7, <1>8 DEF ExtractorStep

LEMMA RunPath ==
  ASSUME PipelineInv, MessagesAreFull, NEW x \in Extractors,
         ExtractorStep(x) \/ ExtractorCrash(x), NEW t \in Uploads, PathInv(t)
  PROVE  PathInv(t)'
<1> USE DEF PipelineInv, TypeOK
<1>1. UNCHANGED <<request, parser, parser_queue>>
  BY OthersQueueNothing DEF ExtractorNext
<1>2. CASE PollExtract(x) /\ extractor_queue # <<>>
  <2>1. /\ extractor_queue \in Seq(ExtractorMessages) /\ extractor_queue' = Tail(extractor_queue)
        /\ UNCHANGED t_result
        /\ TakeMessage(x, Head(extractor_queue)) \/ ExtractorDone(x)
    BY <1>2 DEF PollExtract, StoresTypeOK, tables
  <2>2. /\ 1 \in DOMAIN extractor_queue /\ Head(extractor_queue) = extractor_queue[1]
        /\ \A i \in DOMAIN extractor_queue' :
             i + 1 \in DOMAIN extractor_queue /\ extractor_queue'[i] = extractor_queue[i + 1]
             /\ i + 1 # 1
        /\ \A i, j \in DOMAIN extractor_queue' : i + 1 = j + 1 => i = j
    BY <1>2, <2>1, TakenOnce
  <2>3. ExtractorQueueStill(t)
    BY <2>2 DEF ExtractorQueueStill, InExtractorQueue, OnceInExtractorQueue
  <2>4. CASE RunsStill(t)
    BY <1>1, <2>1, <2>3, <2>4, PathStill, Untouched
  <2>5. CASE ~RunsStill(t)
    <3>1. \A y \in Extractors : y # x => extractor'[y] = extractor[y]
      BY Elsewhere
    <3>2. extractor'[x].task = Head(extractor_queue).task \/ extractor'[x].pc = "poll_reextract"
      BY <2>1 DEF TakeMessage, ExtractorDone, ExtractorTypeOK, ExtractorRuns, PollingExtractor
    <3>3. Head(extractor_queue).task = t
      BY <2>5, <3>1, <3>2 DEF RunsStill, ExtractedBy, Extracting, InTransaction
    <3>4. InExtractorQueue(t) /\ OnceInExtractorQueue(t)
      BY <2>2, <3>3 DEF InExtractorQueue, PathInv
    <3>5. ~InExtractorQueue(t)'
      BY <2>2, <3>3, <3>4 DEF InExtractorQueue, OnceInExtractorQueue
    <3>6. ~Waiting(t) /\ ~InQueue(t) /\ ~AtParser(t) /\ ~AtExtractor(t) /\ ~HasRows(t)
      BY <3>4 DEF PathInv, OnePlace
    <3>7. OneRun(t)'
      BY <3>1, <3>6 DEF OneRun, AtExtractor, ExtractedBy
    <3>8. /\ ~Waiting(t)' /\ ~InQueue(t)' /\ ~AtParser(t)' /\ ~HasRows(t)'
          /\ OnceInQueue(t)' /\ OneParser(t)'
      BY <1>1, <2>1, <3>6 DEF PathInv, Waiting, InQueue, AtParser, ParsedBy, HasRows,
         OnceInQueue, OneParser
    <3>9. OnceInExtractorQueue(t)'
      BY <2>3, <3>4 DEF ExtractorQueueStill
    <3> QED
      BY <3>5, <3>7, <3>8, <3>9 DEF PathInv, OnePlace
  <2> QED
    BY <2>4, <2>5
<1>3. CASE ~(PollExtract(x) /\ extractor_queue # <<>>)
  <2>1. UNCHANGED extractor_queue
    BY <1>3 DEF ExtractorStep, PollReextract, PollExtract, DownloadContentList, CheckTask,
       StoreLogicalTables, BeginExtraction, DeleteToc, ReplaceToc, SelectResult,
       MultipleResultsFound, LLMFallbackFails, FlushResult, EvaluateStatus, CommitExtraction,
       ExtractionDatabaseError, CleanupLogicalTables, LoadFailed, SetExtractionFailed,
       ExtractorCrash, stores, queues
  <2>2. RunsStill(t)
    BY <1>3, RunMovesOn
  <2>3. CASE RowsStill(t)
    BY <1>1, <2>1, <2>2, <2>3, PathStill, Untouched
  <2>4. CASE ~RowsStill(t)
    <3>1. CommitExtraction(x) /\ extractor[x].task = t
      <4>1. CASE Undisturbed(t)
        BY <2>4, <4>1 DEF Undisturbed, RowsStill, HasRows
      <4> QED
        BY <4>1, RunDisturbs
    <3>2. ExtractedBy(x, t) /\ ~ExtractedBy(x, t)'
      BY <1>3, <3>1, RunMovesOn
         DEF ExtractedBy, CommitExtraction, ExtractorAt, Extracting, InTransaction
    <3>3. AtExtractor(t) /\ ~AtExtractor(t)' /\ OneRun(t)'
      BY <2>2, <3>2 DEF PathInv, AtExtractor, OneRun, RunsStill
    <3>4. ~Waiting(t) /\ ~InQueue(t) /\ ~AtParser(t) /\ ~InExtractorQueue(t)
      BY <3>3 DEF PathInv, OnePlace
    <3>5. /\ ~Waiting(t)' /\ ~InQueue(t)' /\ ~AtParser(t)' /\ ~InExtractorQueue(t)'
          /\ OnceInQueue(t)' /\ OnceInExtractorQueue(t)' /\ OneParser(t)'
      BY <1>1, <2>1, <3>4 DEF PathInv, Waiting, InQueue, AtParser, ParsedBy, InExtractorQueue,
         OnceInQueue, OnceInExtractorQueue, OneParser
    <3> QED
      BY <3>3, <3>5 DEF PathInv, OnePlace
  <2> QED
    BY <2>3, <2>4
<1> QED
  BY <1>2, <1>3

(* The reviewer: a fix adds no row, and a retrigger goes to the other queue. *)
LEMMA ReviewPath ==
  ASSUME PipelineInv, LocksInv, ReviewNext, NEW t \in Uploads, PathInv(t)
  PROVE  PathInv(t)'
<1>1. UNCHANGED <<request, parser, parser_queue>>
  BY OthersQueueNothing
<1>2. UNCHANGED <<extractor, extractor_queue>>
  BY DEF ReviewNext, SelectFix, FixStep, FlushFix, CountPending, LoadTask, CommitFix, FixFails,
     Retrigger, notReview, stores, queues
<1>3. RowsStill(t)
  <2>1. CASE UNCHANGED t_result
    BY <2>1, Untouched
  <2>2. ASSUME NEW v \in Fixes, CommitFix(v)
        PROVE  RowsStill(t)
    <3>1. fix[v].row \in RowIds /\ t_result[fix[v].row] # Absent
      BY <2>2 DEF CommitFix, FixAt, PipelineInv, ReviewInv, FixInv, TypeOK, ReviewTypeOK,
                  FixRecords
    <3>2. \A i \in RowIds : t_result'[i] # Absent => t_result[i] # Absent
      BY <2>2, <3>1 DEF CommitFix, CommitRows, Visible, LocksInv, FixLocks
    <3> QED
      BY <3>2 DEF RowsStill, HasRows
  <2>3. UNCHANGED t_result \/ \E v \in Fixes : CommitFix(v)
    BY DEF ReviewNext, SelectFix, FixStep, FlushFix, CountPending, LoadTask, FixFails, Retrigger,
       Rollback, stores, tables
  <2> QED
    BY <2>1, <2>2, <2>3
<1> QED
  BY <1>1, <1>2, <1>3, PathStill, Untouched

LEMMA PathNext ==
  ASSUME UploadedOnce
  PROVE  /\ PipelineInv /\ LocksInv /\ AtomicInv /\ [Next]_vars
         /\ \A t \in Uploads : PathInv(t)
         => \A t \in Uploads : PathInv(t)'
<1> SUFFICES ASSUME PipelineInv, LocksInv, AtomicInv, [Next]_vars, NEW t \in Uploads, PathInv(t)
             PROVE  PathInv(t)'
  OBVIOUS
<1>1. CASE RequestNext
  BY <1>1, RequestPath DEF RequestNext
<1>2. CASE ParserNext
  BY <1>2, ParserPath DEF ParserNext
<1>3. CASE ExtractorNext
  BY <1>3, RunPath DEF ExtractorNext, AtomicInv
<1>4. CASE ReviewNext
  BY <1>4, ReviewPath
<1>5. CASE UNCHANGED vars
  BY <1>5, PathStill, Untouched DEF vars, stores
<1> QED
  BY <1>1, <1>2, <1>3, <1>4, <1>5 DEF Next

LEMMA PathInit == Init => \A t \in Uploads : PathInv(t)
<1> SUFFICES ASSUME Init, NEW t \in Uploads PROVE PathInv(t)
  OBVIOUS
<1>1. ~InQueue(t) /\ ~InExtractorQueue(t) /\ ~HasRows(t)
  BY DEF Init, StoresInit, InQueue, InExtractorQueue, HasRows
<1>2. \A w \in Parsers : ~ParsedBy(w, t)
  BY DEF Init, ParserInit, IdleParser, ParsedBy, Parsing
<1>3. \A x \in Extractors : ~ExtractedBy(x, t)
  BY DEF Init, ExtractorInit, PollingExtractor, ExtractedBy, Extracting, InTransaction
<1> QED
  BY <1>1, <1>2, <1>3 DEF PathInv, OnePlace, OnceInQueue, OnceInExtractorQueue, OneParser, OneRun,
     AtParser, AtExtractor, InQueue, InExtractorQueue

(* Fixes of one task follow one another. *)
ReviewersApart ==
  \A t \in Uploads, u, v \in Fixes : Working(u, t) /\ Working(v, t) => u = v

(* Where a document is uploaded once and nothing is re-extracted, transactions on one task
   overlap only if two reviewers' do: the queues hand a task to one worker at a time, and
   the rows a reviewer fixes are there when the run that wrote them has ended.            *)
THEOREM RunsKeepApart ==
  ASSUME UploadedOnce, NoReextraction
  PROVE  Spec /\ []ReviewersApart => []TransactionsApart
<1> DEFINE Path == \A t \in Uploads : PathInv(t)
<1>1. PipelineInv /\ Path /\ ReviewersApart => TransactionsApart
  <2> SUFFICES ASSUME PipelineInv, Path, ReviewersApart, NEW t \in Uploads,
                      NEW s \in Sessions, NEW o \in Sessions, Working(s, t), Working(o, t)
               PROVE  s = o
    BY DEF TransactionsApart
  <2>a. Sessions = Extractors \union Fixes
    BY DEF Sessions
  <2>1. \A x \in Extractors : Working(x, t) => ExtractedBy(x, t)
    BY SessionsAssumption DEF Working, ExtractedBy, Extracting
  <2>2. \A v \in Fixes : Working(v, t) => HasRows(t)
    <3> TAKE v \in Fixes
    <3> HAVE Working(v, t)
    <3>1. fix[v].row \in RowIds /\ t_result[fix[v].row] # Absent /\ fix[v].row[1] = t
      BY SessionsAssumption
         DEF Working, PipelineInv, ReviewInv, FixInv, TypeOK, ReviewTypeOK, FixRecords, FixedTask
    <3> QED
      BY <3>1 DEF HasRows
  <2>3. AtExtractor(t) => ~HasRows(t)
    BY DEF PathInv, OnePlace
  <2>4. CASE s \in Extractors /\ o \in Extractors
    BY <2>1, <2>4 DEF PathInv, OneRun
  <2>5. CASE s \in Fixes /\ o \in Fixes
    BY <2>5 DEF ReviewersApart
  <2>6. CASE (s \in Extractors /\ o \in Fixes) \/ (s \in Fixes /\ o \in Extractors)
    BY <2>1, <2>2, <2>3, <2>6 DEF AtExtractor
  <2> QED
    BY <2>a, <2>4, <2>5, <2>6
<1>2. Init => Path
  BY PathInit
<1>3. PipelineInv /\ LocksInv /\ AtomicInv /\ Path /\ [Next]_vars => Path'
  BY PathNext
<1> HIDE DEF Path
<1> QED
  BY <1>1, <1>2, <1>3, Invariance, LocksHeld, AtomicInit, AtomicNext, PTL DEF Spec

(* So two reviewers of one task are all that can falsify its status there. *)
COROLLARY ReviewersKeepStatus ==
  ASSUME UploadedOnce, NoReextraction
  PROVE  Spec /\ []ReviewersApart => []ReviewStatusHonest
BY RunsKeepApart, ReviewStatusKept, PTL

=============================================================================
