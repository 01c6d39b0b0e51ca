---------------------------- MODULE IntakeProofs ----------------------------
(***************************************************************************)
(* What the upload route promises.                                         *)
(*                                                                         *)
(* The pipeline implements UploadRegistry: its initial state maps to the   *)
(* registry's, the INSERT of a task row to a claim, a successful reply to  *)
(* a grant, any other reply to a refusal, and every other step to a        *)
(* stutter, whatever fails and however requests and workers interleave.    *)
(*                                                                         *)
(* No QUEUED task is forgotten while no commit or process is lost, and     *)
(* either nobody takes messages from the parser queue or every document is *)
(* uploaded once.  The second hypothesis is what the code needs: with a    *)
(* parser running, the QUEUED that _handle_existing_task writes after it   *)
(* has published can overwrite what the parser made of the message (the    *)
(* run RequeueRace).                                                       *)
(***************************************************************************)
EXTENDS PipelineProofs

(* A request is replied to when and only when it is done, and a success names the
   task it found or inserted.                                                     *)
AnswerInv ==
  \A r \in Uploads :
    /\ request[r].pc = "done" <=> request[r].reply # "none"
    /\ request[r].reply \in Successes => request[r].task # Absent

----------------------------------------------------------------------------
(* What a step of the upload route does to its request: it moves on without a reply,
   or it replies, once, and with a success only while it holds a task.             *)
MovesOn(r) ==
  /\ request[r].pc # "done" /\ request'[r].pc # "done"
  /\ request'[r].reply = request[r].reply

RepliesTo(r) ==
  /\ request[r].pc # "done" /\ request'[r].pc = "done"
  /\ request'[r].task = request[r].task
  /\ request'[r].reply \in Replies
  /\ request'[r].reply \in Successes => request[r].pc \in AfterBinding

LEMMA Moving ==
  ASSUME RequestTypeOK, NEW r \in Uploads, request[r].pc # "done"
  PROVE  /\ \A pc : Goto(r, pc) /\ pc # "done" => MovesOn(r)
         /\ \A t, pc : Bind(r, t, pc) /\ pc # "done" => MovesOn(r)
         /\ \A reply \in Replies :
              Reply(r, reply) /\ (reply \in Successes => request[r].pc \in AfterBinding)
                => RepliesTo(r)
<1>1. \A pc : Goto(r, pc) /\ pc # "done" => MovesOn(r)
  BY DEF Goto, RequestTypeOK, MovesOn
<1>2. \A t, pc : Bind(r, t, pc) /\ pc # "done" => MovesOn(r)
  BY DEF Bind, RequestTypeOK, MovesOn
<1>3. \A reply \in Replies :
        Reply(r, reply) /\ (reply \in Successes => request[r].pc \in AfterBinding)
          => RepliesTo(r)
  BY DEF Reply, RequestTypeOK, RepliesTo
<1> QED
  BY <1>1, <1>2, <1>3

LEMMA OtherRequests ==
  ASSUME RequestTypeOK, NEW r \in Uploads,
         FindExisting(r) \/ RequestStep(r) \/ RequestCrash(r)
  PROVE  \A q \in Uploads : q # r => request'[q] = request[q]
<1> USE DEF RequestTypeOK
<1>1. /\ \A pc : Goto(r, pc) => \A q \in Uploads : q # r => request'[q] = request[q]
      /\ \A t, pc : Bind(r, t, pc) => \A q \in Uploads : q # r => request'[q] = request[q]
      /\ \A reply : Reply(r, reply) => \A q \in Uploads : q # r => request'[q] = request[q]
  BY DEF Goto, Bind, Reply
<1>2. CASE InsertTask(r)
  BY <1>1, <1>2 DEF InsertTask
<1> QED
  BY <1>1, <1>2 DEF FindExisting, RequestStep, Touch, RefreshTask, RecoverFromDuplicate,
     UploadSource, PublishParserTask, Requeue, PersistDispatchFailure, RequestCrash

LEMMA RequestMoves ==
  ASSUME RequestTypeOK, NEW r \in Uploads,
         FindExisting(r) \/ RequestStep(r) \/ RequestCrash(r)
  PROVE  MovesOn(r) \/ RepliesTo(r)
<1>a. {"accepted", "deduplicated", "failed", "unavailable", "lost"} \subseteq Replies
      /\ "failed" \notin Successes /\ "unavailable" \notin Successes /\ "lost" \notin Successes
  BY DEF Replies, Successes
<1>b. {"touch", "upload", "publish", "requeue"} \subseteq AfterBinding
  BY DEF AfterBinding
<1>1. CASE FindExisting(r) \/ RefreshTask(r) \/ RecoverFromDuplicate(r)
  <2>1. request[r].pc # "done"
    BY <1>1 DEF FindExisting, RefreshTask, RecoverFromDuplicate, At
  <2> QED
    BY <1>1, <1>a, <2>1, Moving DEF FindExisting, RefreshTask, RecoverFromDuplicate
<1>2. CASE InsertTask(r)
  <2>1. request[r].pc # "done"
    BY <1>2 DEF InsertTask, At
  <2>2. CASE request' = [request EXCEPT ![r].pc = "refresh", ![r].task = r,
                                        ![r].loaded = "QUEUED"]
    BY <2>1, <2>2 DEF RequestTypeOK, MovesOn
  <2> QED
    BY <1>2, <1>a, <2>1, <2>2, Moving DEF InsertTask
<1>3. CASE Touch(r) \/ Requeue(r) \/ UploadSource(r)
  <2>1. request[r].pc # "done" /\ request[r].pc \in AfterBinding
    BY <1>3, <1>b DEF Touch, Requeue, UploadSource, At
  <2> QED
    BY <1>3, <1>a, <2>1, Moving DEF Touch, Requeue, UploadSource
<1>4. CASE PublishParserTask(r)
  <2>1. request[r].pc # "done" /\ request[r].pc \in AfterBinding
    BY <1>4, <1>b DEF PublishParserTask, At
  <2> QED
    BY <1>4, <1>a, <2>1, Moving DEF PublishParserTask
<1>5. CASE PersistDispatchFailure(r) \/ RequestCrash(r)
  <2>1. request[r].pc # "done"
    BY <1>5 DEF PersistDispatchFailure, RequestCrash, At
  <2> QED
    BY <1>5, <1>a, <2>1, Moving DEF PersistDispatchFailure, RequestCrash
<1> QED
  BY <1>1, <1>2, <1>3, <1>4, <1>5 DEF RequestStep

(* The other components. *)
LEMMA OthersLeaveRequests ==
  ASSUME ParserNext \/ ExtractorNext \/ ReviewNext
  PROVE  UNCHANGED request
<1>1. CASE ParserNext
  BY <1>1 DEF ParserNext, ParserStep, ParserCrash, ConsumeParserTask, MarkParsing, SetParsing,
     Parse, StoreContentList, PublishExtractorTask, MarkParsed, SetParsed, MarkFailed, SetFailed,
     ParserLoad, ParserFinish, notParser
<1>2. CASE ExtractorNext
  <2> SUFFICES ASSUME NEW x \in Extractors, ExtractorStep(x) \/ ExtractorCrash(x)
               PROVE  UNCHANGED notExtractor
    BY <1>2 DEF ExtractorNext, notExtractor
  <2>1. CASE PollReextract(x) \/ PollExtract(x) \/ DownloadContentList(x) \/ CheckTask(x)
    BY <2>1 DEF PollReextract, PollExtract, DownloadContentList, CheckTask
  <2>2. CASE StoreLogicalTables(x) \/ BeginExtraction(x) \/ DeleteToc(x) \/ ReplaceToc(x)
             \/ SelectResult(x)
    BY <2>2 DEF StoreLogicalTables, BeginExtraction, DeleteToc, ReplaceToc, SelectResult
  <2>3. CASE MultipleResultsFound(x) \/ LLMFallbackFails(x) \/ FlushResult(x)
             \/ EvaluateStatus(x) \/ CommitExtraction(x)
    BY <2>3 DEF MultipleResultsFound, LLMFallbackFails, FlushResult, EvaluateStatus,
       CommitExtraction
  <2>4. CASE ExtractionDatabaseError(x) \/ CleanupLogicalTables(x) \/ LoadFailed(x)
             \/ SetExtractionFailed(x) \/ ExtractorCrash(x)
    BY <2>4 DEF ExtractionDatabaseError, CleanupLogicalTables, LoadFailed,
       SetExtractionFailed, ExtractorCrash
  <2> QED
    BY <2>1, <2>2, <2>3, <2>4 DEF ExtractorStep
<1>3. CASE ReviewNext
  BY <1>3 DEF ReviewNext, SelectFix, FixStep, FlushFix, CountPending, LoadTask, CommitFix,
     FixFails, Retrigger, notReview
<1> QED
  BY <1>1, <1>2, <1>3

----------------------------------------------------------------------------
LEMMA AnswerNext == PipelineInv /\ AnswerInv /\ [Next]_vars => AnswerInv'
<1> SUFFICES ASSUME PipelineInv, AnswerInv, [Next]_vars PROVE AnswerInv'
  OBVIOUS
<1>1. CASE UNCHANGED request
  BY <1>1 DEF AnswerInv
<1>2. ASSUME NEW r \in Uploads, FindExisting(r) \/ RequestStep(r) \/ RequestCrash(r)
      PROVE  AnswerInv'
  <2>1. \A q \in Uploads : q # r => request'[q] = request[q]
    BY <1>2, OtherRequests DEF PipelineInv, TypeOK
  <2>2. CASE MovesOn(r)
    <3>1. request'[r].pc # "done" /\ request'[r].reply = "none"
      BY <2>2 DEF MovesOn, AnswerInv
    <3>2. "none" \notin Successes
      BY DEF Successes
    <3> QED
      BY <2>1, <3>1, <3>2 DEF AnswerInv
  <2>3. CASE RepliesTo(r)
    <3>1. request'[r].reply # "none"
      BY <2>3 DEF RepliesTo, Replies, Successes
    <3>2. request'[r].reply \in Successes => request'[r].task # Absent
      BY <2>3 DEF RepliesTo, PipelineInv, RequestInv
    <3> QED
      BY <2>1, <2>3, <3>1, <3>2 DEF AnswerInv, RepliesTo
  <2> QED
    BY <1>2, <2>2, <2>3, RequestMoves DEF PipelineInv, TypeOK
<1>3. ASSUME ParserNext \/ ExtractorNext \/ ReviewNext
      PROVE  UNCHANGED request
  BY <1>3, OthersLeaveRequests
<1> QED
  BY <1>1, <1>2, <1>3 DEF Next, RequestNext, vars

LEMMA AnswerInit == Init => AnswerInv
BY Unrelated DEF Init, RequestInit, AnswerInv, Successes

LEMMA Answered == Spec => []AnswerInv
BY AnswerInit, AnswerNext, Invariance, PTL DEF Spec

----------------------------------------------------------------------------
(* The refinement mapping. *)
LEMMA OwnerIsUnique ==
  ASSUME StoresInv, NEW t \in Uploads, TaskPresent(t)
  PROVE  Owner[Fingerprint[t]] = t
<1>1. \A s \in WithFingerprint(Fingerprint[t]) : s = t
  BY DEF WithFingerprint, StoresInv
<1>2. t \in WithFingerprint(Fingerprint[t])
  BY DEF WithFingerprint
<1>3. (CHOOSE s \in WithFingerprint(Fingerprint[t]) : TRUE) = t
  BY <1>1, <1>2
<1>4. Fingerprint[t] \in {Fingerprint[r] : r \in Uploads}
  OBVIOUS
<1> QED
  BY <1>2, <1>3, <1>4 DEF Owner

LEMMA OwnerStays ==
  ASSUME SameTasks
  PROVE  UNCHANGED Owner
<1>1. \A f : WithFingerprint(f)' = WithFingerprint(f)
  BY DEF SameTasks, WithFingerprint
<1> DEFINE Documents == {Fingerprint[q] : q \in Uploads}
<1>2. ASSUME NEW f \in Documents PROVE Owner'[f] = Owner[f]
  <2>1. WithFingerprint(f)' = WithFingerprint(f)
    BY <1>1
  <2> QED
    BY <2>1 DEF Owner
<1>3. Owner = [f \in Documents |-> Owner[f]] /\ Owner' = [f \in Documents |-> Owner'[f]]
  BY DEF Owner
<1> QED
  BY <1>2, <1>3

(* No other row is there when the unique index lets a row in. *)
LEMMA OwnerClaims ==
  ASSUME StoresTypeOK, StoresInv, StoresInv', NEW r \in Uploads, UniqueIndexAllows(r),
         t_task' = [t_task EXCEPT ![r] = "QUEUED"]
  PROVE  /\ Owner[Fingerprint[r]] = Absent
         /\ Owner' = [Owner EXCEPT ![Fingerprint[r]] = r]
<1> DEFINE Documents == {Fingerprint[q] : q \in Uploads}
<1>1. Fingerprint[r] \in Documents
  OBVIOUS
<1>2. Owner[Fingerprint[r]] = Absent
  BY <1>1 DEF Owner, UniqueIndexAllows
<1>3. \A t \in Uploads : TaskPresent(t)' <=> TaskPresent(t) \/ t = r
  BY Unrelated DEF StoresTypeOK, TaskPresent, TaskStatus
<1>4. Owner'[Fingerprint[r]] = r
  <2>1. TaskPresent(r)'
    BY <1>3
  <2>2. \A s \in WithFingerprint(Fingerprint[r])' : s = r
    BY <2>1 DEF WithFingerprint, StoresInv
  <2>3. r \in WithFingerprint(Fingerprint[r])'
    BY <2>1 DEF WithFingerprint
  <2>4. (CHOOSE s \in WithFingerprint(Fingerprint[r])' : TRUE) = r
    BY <2>2, <2>3
  <2> QED
    BY <1>1, <2>3, <2>4 DEF Owner
<1>5. ASSUME NEW f \in Documents, f # Fingerprint[r]
      PROVE  Owner'[f] = Owner[f]
  <2>1. WithFingerprint(f)' = WithFingerprint(f)
    BY <1>3, <1>5 DEF WithFingerprint
  <2> QED
    BY <2>1 DEF Owner
<1>6. Owner = [f \in Documents |-> Owner[f]] /\ Owner' = [f \in Documents |-> Owner'[f]]
  BY DEF Owner
<1> QED
  BY <1>1, <1>2, <1>4, <1>5, <1>6

(* The reply of one request, and none. *)
LEMMA AnswersOne ==
  ASSUME NEW r \in Uploads, RepliesTo(r), AnswerInv,
         \A q \in Uploads : q # r => request'[q] = request[q]
  PROVE  /\ Answer[r] = "pending"
         /\ Answer' = [Answer EXCEPT ![r] = IF request'[r].reply \in Successes
                                           THEN request[r].task ELSE "refused"]
<1>1. request[r].reply = "none" /\ request'[r].reply # "none"
      /\ request'[r].task = request[r].task
  BY DEF RepliesTo, AnswerInv, Replies, Successes
<1>2. Answer[r] = "pending"
  BY <1>1 DEF Answer
<1>3. Answer'[r] = IF request'[r].reply \in Successes THEN request[r].task ELSE "refused"
  BY <1>1 DEF Answer
<1>4. \A q \in Uploads : q # r => Answer'[q] = Answer[q]
  BY DEF Answer
<1>5. Answer = [q \in Uploads |-> Answer[q]] /\ Answer' = [q \in Uploads |-> Answer'[q]]
  BY DEF Answer
<1> QED
  BY <1>2, <1>3, <1>4, <1>5

LEMMA AnswersStay ==
  ASSUME \A q \in Uploads : request'[q].reply = request[q].reply /\
                            (request[q].reply # "none" => request'[q].task = request[q].task)
  PROVE  UNCHANGED Answer
<1>1. \A q \in Uploads : Answer'[q] = Answer[q]
  BY DEF Answer
<1>2. Answer = [q \in Uploads |-> Answer[q]] /\ Answer' = [q \in Uploads |-> Answer'[q]]
  BY DEF Answer
<1> QED
  BY <1>1, <1>2

(* Only a new document's INSERT adds a row; every other write is a set_status. *)
Inserts(r) ==
  /\ UniqueIndexAllows(r)
  /\ t_task' = [t_task EXCEPT ![r] = "QUEUED"]
  /\ MovesOn(r)

LEMMA RequestTasks ==
  ASSUME PipelineInv, NEW r \in Uploads, FindExisting(r) \/ RequestStep(r) \/ RequestCrash(r)
  PROVE  SameTasks \/ Inserts(r)
<1> USE DEF PipelineInv, TypeOK
<1>1. CASE UNCHANGED t_task
  BY <1>1 DEF SameTasks, TaskPresent
<1>2. CASE Requeue(r) \/ PersistDispatchFailure(r)
  <2>1. request[r].task \in Uploads /\ TaskPresent(request[r].task)
    BY <1>2 DEF Requeue, PersistDispatchFailure, At, RequestInv, AfterBinding, RequestTypeOK
  <2>2. "QUEUED" \in TaskStatus /\ "FAILED" \in TaskStatus
    BY DEF TaskStatus
  <2> QED
    BY <1>1, <1>2, <2>1, <2>2, SetStatus
       DEF Requeue, PersistDispatchFailure, SetLoadedTask, StoresTypeOK
<1>3. CASE InsertTask(r) /\ ~UNCHANGED t_task
  <2>1. /\ UniqueIndexAllows(r) /\ t_task' = [t_task EXCEPT ![r] = "QUEUED"]
        /\ request' = [request EXCEPT ![r].pc = "refresh", ![r].task = r, ![r].loaded = "QUEUED"]
        /\ request[r].pc = "insert"
    BY <1>3 DEF InsertTask, At
  <2>2. MovesOn(r)
    BY <2>1 DEF MovesOn, RequestTypeOK
  <2> QED
    BY <2>1, <2>2 DEF Inserts
<1> QED
  BY <1>1, <1>2, <1>3 DEF FindExisting, RequestStep, Touch, RefreshTask, RecoverFromDuplicate,
     UploadSource, PublishParserTask, RequestCrash, stores, tables

LEMMA OtherTasks ==
  ASSUME PipelineInv, ParserNext \/ ExtractorNext \/ ReviewNext
  PROVE  SameTasks
<1> USE DEF PipelineInv, TypeOK
<1>a. {"PARSING", "PARSED", "FAILED"} \union FinalStatus \subseteq TaskStatus
  BY DEF TaskStatus, FinalStatus
<1>b. UNCHANGED t_task => SameTasks
  BY DEF SameTasks, TaskPresent
<1>1. ASSUME NEW w \in Parsers, ParserStep(w) \/ ParserCrash(w)
      PROVE  SameTasks
  <2>1. CASE SetParsing(w) \/ SetParsed(w) \/ SetFailed(w)
    <3>1. parser[w].task \in Uploads /\ TaskPresent(parser[w].task)
      BY <2>1 DEF SetParsing, SetParsed, SetFailed, ParserFinish, ParserAt, ParserInv,
                  ParserTypeOK
    <3> QED
      BY <1>a, <1>b, <2>1, <3>1, SetStatus
         DEF SetParsing, SetParsed, SetFailed, ParserFinish, ParserSet, StoresTypeOK
  <2> QED
    BY <1>1, <1>b, <2>1 DEF ParserStep, ParserCrash, ConsumeParserTask, MarkParsing, Parse,
       StoreContentList, PublishExtractorTask, MarkParsed, MarkFailed, ParserLoad, stores, tables
<1>2. ASSUME NEW x \in Extractors, ExtractorStep(x) \/ ExtractorCrash(x)
      PROVE  SameTasks
  <2>1. CASE CommitExtraction(x) \/ SetExtractionFailed(x)
    <3>1. extractor[x].task \in Uploads /\ TaskPresent(extractor[x].task)
      BY <2>1 DEF CommitExtraction, SetExtractionFailed, ExtractorAt, ExtractorInv, RunInv,
                  ExtractorTypeOK, ExtractorRuns
    <3>2. CommitExtraction(x) => extractor[x].verdict \in FinalStatus
      BY DEF CommitExtraction, ExtractorAt, ExtractorInv, RunInv, ExtractorTypeOK, ExtractorRuns
    <3>3. UNCHANGED t_task \/ \E status \in TaskStatus : SetExtractedStatus(x, status)
      BY <1>a, <2>1, <3>2 DEF CommitExtraction, SetExtractionFailed
    <3> QED
      BY <1>b, <3>1, <3>3, SetStatus DEF SetExtractedStatus, StoresTypeOK
  <2> QED
    BY <1>2, <1>b, <2>1 DEF ExtractorStep, ExtractorCrash, PollReextract, PollExtract,
       DownloadContentList, CheckTask, StoreLogicalTables, BeginExtraction, DeleteToc,
       ReplaceToc, SelectResult, MultipleResultsFound, LLMFallbackFails, FlushResult,
       EvaluateStatus, ExtractionDatabaseError, CleanupLogicalTables, LoadFailed, stores,
       tables
<1>3. CASE ReviewNext
  <2>1. ASSUME NEW v \in Fixes, CommitFix(v)
        PROVE  SameTasks
    <3>1. fix[v].row \in RowIds /\ t_result[fix[v].row] # Absent
          /\ fix[v].verdict \in FinalStatus
      BY <2>1 DEF CommitFix, FixAt, ReviewInv, FixInv, ReviewTypeOK, FixRecords
    <3>2. FixedTask(v) \in Uploads /\ TaskPresent(FixedTask(v))
      BY <3>1 DEF FixedTask, StoresInv, RowIds
    <3> QED
      BY <1>a, <2>1, <3>1, <3>2, SetStatus DEF CommitFix, StoresTypeOK
  <2> QED
    BY <1>3, <1>b, <2>1 DEF ReviewNext, SelectFix, FixStep, FlushFix, CountPending, LoadTask,
       FixFails, Retrigger, stores, tables
<1> QED
  BY <1>1, <1>2, <1>3 DEF ParserNext, ExtractorNext

----------------------------------------------------------------------------
(* A step of the upload route is a claim, a grant, a refusal or a stutter. *)
LEMMA RequestRefines ==
  ASSUME PipelineInv, PipelineInv', AnswerInv, NEW r \in Uploads,
         FindExisting(r) \/ RequestStep(r) \/ RequestCrash(r)
  PROVE  [Registry!Next]_<<Owner, Answer>>
<1> USE DEF PipelineInv, TypeOK
<1>a. \A q \in Uploads : q # r => request'[q] = request[q]
  BY OtherRequests
<1>b. MovesOn(r) => Answer[r] = "pending" /\ UNCHANGED Answer
  <2> SUFFICES ASSUME MovesOn(r) PROVE Answer[r] = "pending" /\ UNCHANGED Answer
    OBVIOUS
  <2>1. request[r].reply = "none" /\ request'[r].reply = "none"
    BY DEF MovesOn, AnswerInv
  <2>2. Answer[r] = "pending"
    BY <2>1 DEF Answer
  <2>3. UNCHANGED Answer
    BY <1>a, <2>1, AnswersStay
  <2> QED
    BY <2>2, <2>3
<1>1. CASE Inserts(r)
  <2>1. Owner[Fingerprint[r]] = Absent /\ Owner' = [Owner EXCEPT ![Fingerprint[r]] = r]
    BY <1>1, OwnerClaims DEF Inserts
  <2>2. Answer[r] = "pending" /\ UNCHANGED Answer
    BY <1>1, <1>b DEF Inserts
  <2> QED
    BY <2>1, <2>2 DEF Registry!Next, Registry!Claim
<1>2. CASE SameTasks /\ MovesOn(r)
  BY <1>2, <1>b, OwnerStays
<1>3. CASE SameTasks /\ RepliesTo(r)
  <2>1. UNCHANGED Owner
    BY <1>3, OwnerStays
  <2>2. /\ Answer[r] = "pending"
        /\ Answer' = [Answer EXCEPT ![r] = IF request'[r].reply \in Successes
                                          THEN request[r].task ELSE "refused"]
    BY <1>a, <1>3, AnswersOne
  <2>3. CASE request'[r].reply \in Successes
    <3>1. /\ request[r].task \in Uploads /\ TaskPresent(request[r].task)
          /\ Fingerprint[request[r].task] = Fingerprint[r]
      BY <1>3, <2>3 DEF RepliesTo, RequestInv, RequestTypeOK
    <3>2. Owner[Fingerprint[r]] = request[r].task /\ request[r].task # Absent
      BY <3>1, OwnerIsUnique, Unrelated
    <3> QED
      BY <2>1, <2>2, <2>3, <3>2 DEF Registry!Next, Registry!Grant
  <2>4. CASE request'[r].reply \notin Successes
    BY <2>1, <2>2, <2>4 DEF Registry!Next, Registry!Refuse
  <2> QED
    BY <2>3, <2>4
<1> QED
  BY <1>1, <1>2, <1>3, RequestMoves, RequestTasks

LEMMA StepRefines ==
  PipelineInv /\ PipelineInv' /\ AnswerInv /\ [Next]_vars => [Registry!Next]_<<Owner, Answer>>
<1> SUFFICES ASSUME PipelineInv, PipelineInv', AnswerInv, [Next]_vars
             PROVE  [Registry!Next]_<<Owner, Answer>>
  OBVIOUS
<1>1. CASE RequestNext
  BY <1>1, RequestRefines DEF RequestNext
<1>2. CASE ParserNext \/ ExtractorNext \/ ReviewNext
  <2>1. UNCHANGED Owner
    BY <1>2, OtherTasks, OwnerStays
  <2>2. UNCHANGED Answer
    BY <1>2, OthersLeaveRequests, AnswersStay
  <2> QED
    BY <2>1, <2>2
<1>3. CASE UNCHANGED vars
  <2>1. SameTasks /\ UNCHANGED request
    BY <1>3 DEF vars, stores, SameTasks, TaskPresent
  <2> QED
    BY <2>1, OwnerStays, AnswersStay
<1> QED
  BY <1>1, <1>2, <1>3 DEF Next

LEMMA InitRefines == Init => Registry!Init
<1> SUFFICES ASSUME Init PROVE Registry!Init
  OBVIOUS
<1>1. \A f : WithFingerprint(f) = {}
  BY DEF Init, StoresInit, WithFingerprint, TaskPresent
<1>2. Owner = [f \in {Fingerprint[r] : r \in Uploads} |-> Absent]
  BY <1>1 DEF Owner
<1>3. Answer = [r \in Uploads |-> "pending"]
  BY DEF Init, RequestInit, Answer
<1> QED
  BY <1>2, <1>3 DEF Registry!Init, Registry!Documents

(* The upload route keeps its promise in every instance: a document is claimed once and
   for good, and every upload of it that is answered with a task is answered with the
   claimant's (create_extract_task and what it calls), whatever the dependencies, the
   parser, the extractor and the reviewers do meanwhile.                             *)
THEOREM RegistryImplemented == Spec => ImplementsRegistry
<1>1. Spec => Registry!Init /\ [][Registry!Next]_<<Owner, Answer>>
  BY InitRefines, StepRefines, Invariance, Answered, PTL DEF Spec
<1> QED
  BY <1>1 DEF ImplementsRegistry, Registry!Spec

----------------------------------------------------------------------------
NothingLost == Faults \intersect {"database", "crash"} = {}

UploadedOnce == \A q, r \in Uploads : Fingerprint[q] = Fingerprint[r] => q = r
MessagesLast == Parsers = {} \/ ("queue" \notin Faults /\ UploadedOnce)

(* Who still has to bring a QUEUED task on: the queue; the request that inserted it
   and whose session therefore holds QUEUED; a parser that has not marked it yet.   *)
InQueue(t) == \E i \in DOMAIN parser_queue : parser_queue[i] = t
Fresh(t) ==
  /\ request[t].task = t /\ request[t].loaded = "QUEUED"
  /\ request[t].pc \in {"refresh", "upload", "publish", "persist_failure"}
Taken(t) ==
  \E w \in Parsers : parser[w].task = t /\ parser[w].pc \in {"mark_parsing", "set_parsing"}

(* A request about to write QUEUED has a message of its task in the queue, and a
   parser that loaded another status than QUEUED will not find QUEUED there.     *)
DispatchInv ==
  /\ \A t \in Uploads : t_task[t] = "QUEUED" => InQueue(t) \/ Fresh(t) \/ Taken(t)
  /\ \A r \in Uploads :
       request[r].pc = "requeue" => request[r].task # r /\ InQueue(request[r].task)
  /\ \A w \in Parsers :
       parser[w].pc = "set_parsing" /\ parser[w].loaded # "QUEUED"
         => t_task[parser[w].task] # "QUEUED"

----------------------------------------------------------------------------
(* Steps that make no task QUEUED. *)
NothingQueued == \A t \in Uploads : t_task'[t] = "QUEUED" => t_task[t] = "QUEUED"

LEMMA OtherStatus ==
  ASSUME StoresTypeOK, NEW t \in Uploads, NEW loaded, NEW status, status # "QUEUED",
         t_task' = [t_task EXCEPT ![t] = Flushed(t_task[t], loaded, status)]
  PROVE  NothingQueued
BY DEF StoresTypeOK, Flushed, NothingQueued

LEMMA ParserQueuesNothing ==
  ASSUME TypeOK, ParserInv, NEW w \in Parsers, ParserStep(w) \/ ParserCrash(w)
  PROVE  NothingQueued
<1>1. CASE UNCHANGED t_task
  BY <1>1 DEF NothingQueued
<1>2. CASE SetParsing(w) \/ SetParsed(w) \/ SetFailed(w)
  <2>1. parser[w].task \in Uploads
    BY <1>2 DEF SetParsing, SetParsed, SetFailed, ParserFinish, ParserAt, ParserInv, TypeOK,
                ParserTypeOK
  <2>2. UNCHANGED t_task \/ \E status \in {"PARSING", "PARSED", "FAILED"} : ParserSet(w, status)
    BY <1>2 DEF SetParsing, SetParsed, SetFailed, ParserFinish
  <2> QED
    BY <1>1, <2>1, <2>2, OtherStatus DEF ParserSet, TypeOK
<1> QED
  BY <1>1, <1>2 DEF ParserStep, ParserCrash, ConsumeParserTask, MarkParsing, Parse,
     StoreContentList, PublishExtractorTask, MarkParsed, MarkFailed, ParserLoad, stores, tables

(* The extractor and the reviewers, who do not touch the parser queue either. *)
LEMMA OthersQueueNothing ==
  ASSUME PipelineInv, ExtractorNext \/ ReviewNext
  PROVE  NothingQueued /\ UNCHANGED <<parser_queue, request, parser>>
<1> USE DEF PipelineInv, TypeOK
<1>a. UNCHANGED t_task => NothingQueued
  BY DEF NothingQueued
<1>b. \A status \in FinalStatus : status # "QUEUED"
  BY DEF FinalStatus
<1>1. UNCHANGED <<parser_queue, request, parser>>
  <2>1. ASSUME NEW x \in Extractors, ExtractorStep(x) \/ ExtractorCrash(x)
        PROVE  UNCHANGED parser_queue
    BY <2>1 DEF ExtractorStep, ExtractorCrash, PollReextract, PollExtract, DownloadContentList,
       CheckTask, StoreLogicalTables, BeginExtraction, DeleteToc, ReplaceToc, SelectResult,
       MultipleResultsFound, LLMFallbackFails, FlushResult, EvaluateStatus, CommitExtraction,
       ExtractionDatabaseError, CleanupLogicalTables, LoadFailed, SetExtractionFailed, stores,
       queues
  <2>2. ASSUME NEW x \in Extractors, ExtractorStep(x) \/ ExtractorCrash(x)
        PROVE  UNCHANGED <<request, parser>>
    BY <2>2 DEF ExtractorStep, ExtractorCrash, PollReextract, PollExtract, DownloadContentList,
       CheckTask, StoreLogicalTables, BeginExtraction, DeleteToc, ReplaceToc, SelectResult,
       MultipleResultsFound, LLMFallbackFails, FlushResult, EvaluateStatus, CommitExtraction,
       ExtractionDatabaseError, CleanupLogicalTables, LoadFailed, SetExtractionFailed,
       notExtractor
  <2>3. CASE ReviewNext
    BY <2>3 DEF ReviewNext, SelectFix, FixStep, FlushFix, CountPending, LoadTask, CommitFix,
       FixFails, Retrigger, notReview, stores, queues
  <2> QED
    BY <2>1, <2>2, <2>3 DEF ExtractorNext
<1>2. ASSUME NEW x \in Extractors, ExtractorStep(x) \/ ExtractorCrash(x)
      PROVE  NothingQueued
  <2>1. CASE CommitExtraction(x) \/ SetExtractionFailed(x)
    <3>1. extractor[x].task \in Uploads
      BY <2>1 DEF CommitExtraction, SetExtractionFailed, ExtractorAt, ExtractorInv, RunInv,
                  ExtractorTypeOK, ExtractorRuns
    <3>2. CommitExtraction(x) => extractor[x].verdict \in FinalStatus
      BY DEF CommitExtraction, ExtractorAt, ExtractorInv, RunInv, ExtractorTypeOK, ExtractorRuns
    <3>3. UNCHANGED t_task \/ \E status : status # "QUEUED" /\ SetExtractedStatus(x, status)
      BY <1>b, <2>1, <3>2 DEF CommitExtraction, SetExtractionFailed
    <3> QED
      BY <1>a, <3>1, <3>3, OtherStatus DEF SetExtractedStatus
  <2> QED
    BY <1>2, <1>a, <2>1 DEF ExtractorStep, ExtractorCrash, PollReextract, PollExtract,
       DownloadContentList, CheckTask, StoreLogicalTables, BeginExtraction, DeleteToc,
       ReplaceToc, SelectResult, MultipleResultsFound, LLMFallbackFails, FlushResult,
       EvaluateStatus, ExtractionDatabaseError, CleanupLogicalTables, LoadFailed, stores,
       tables
<1>3. ASSUME NEW v \in Fixes, CommitFix(v)
      PROVE  NothingQueued
  <2>1. fix[v].row \in RowIds /\ fix[v].verdict \in FinalStatus
    BY <1>3 DEF CommitFix, FixAt, ReviewInv, FixInv, ReviewTypeOK, FixRecords
  <2>2. FixedTask(v) \in Uploads
    BY <2>1 DEF FixedTask, RowIds
  <2> QED
    BY <1>b, <1>3, <2>1, <2>2, OtherStatus DEF CommitFix
<1>4. ASSUME ReviewNext
      PROVE  NothingQueued
  BY <1>3, <1>4, <1>a DEF ReviewNext, SelectFix, FixStep, FlushFix, CountPending, LoadTask,
     FixFails, Retrigger, stores, tables
<1> QED
  BY <1>1, <1>2, <1>4 DEF ExtractorNext

----------------------------------------------------------------------------
(* Without a second upload of its document, a request only ever holds the task it
   inserted.                                                                       *)
LEMMA OwnTask ==
  ASSUME UploadedOnce, PipelineInv, NEW r \in Uploads
  PROVE  request[r].task # Absent => request[r].task = r
BY DEF UploadedOnce, PipelineInv, TypeOK, RequestTypeOK, RequestInv

(* Whoever sets a task QUEUED, it is no task a parser holds. *)
LEMMA RequestSpares ==
  ASSUME MessagesLast, PipelineInv, DispatchInv, NEW r \in Uploads,
         FindExisting(r) \/ RequestStep(r), NEW w \in Parsers, parser[w].pc # "idle"
  PROVE  t_task'[parser[w].task] = "QUEUED" => t_task[parser[w].task] = "QUEUED"
<1> USE DEF PipelineInv, TypeOK
<1>1. parser[w].task \in Uploads /\ TaskPresent(parser[w].task)
  BY DEF ParserInv, ParserTypeOK
<1>2. CASE UNCHANGED t_task
  BY <1>2
<1>3. CASE InsertTask(r)
  BY <1>1, <1>2, <1>3 DEF InsertTask, UniqueIndexAllows, WithFingerprint, StoresTypeOK
<1>4. CASE Requeue(r)
  BY <1>4, OwnTask DEF MessagesLast, Requeue, At, DispatchInv, RequestInv, AfterBinding
<1>5. CASE PersistDispatchFailure(r)
  <2>1. request[r].task \in Uploads
    BY <1>5 DEF PersistDispatchFailure, At, RequestInv, AfterBinding, RequestTypeOK
  <2>2. CASE SetLoadedTask(r, "FAILED")
    BY <1>1, <2>1, <2>2, OtherStatus DEF SetLoadedTask, NothingQueued
  <2> QED
    BY <1>2, <1>5, <2>2 DEF PersistDispatchFailure
<1> QED
  BY <1>2, <1>3, <1>4, <1>5 DEF FindExisting, RequestStep, Touch, RefreshTask,
     RecoverFromDuplicate, UploadSource, PublishParserTask, stores, tables

(* What a step of the upload route leaves of the queue, and adds to it. *)
LEMMA QueueGrows ==
  ASSUME PipelineInv, NEW r \in Uploads, FindExisting(r) \/ RequestStep(r)
  PROVE  /\ UNCHANGED parser
         /\ \A t \in Uploads : InQueue(t) => InQueue(t)'
         /\ PublishParserTask(r) /\ request'[r].pc # "persist_failure"
              => \A t \in Uploads : request[r].task = t => InQueue(t)'
<1> USE DEF PipelineInv, TypeOK
<1>1. UNCHANGED parser
  BY DEF FindExisting, RequestStep, Touch, InsertTask, RefreshTask, RecoverFromDuplicate,
     UploadSource, PublishParserTask, Requeue, PersistDispatchFailure, notTaskService
<1>2. ASSUME NEW t, parser_queue' = Append(parser_queue, t)
      PROVE  InQueue(t)' /\ \A s \in Uploads : InQueue(s) => InQueue(s)'
  <2>1. parser_queue \in Seq(Uploads)
    BY DEF StoresTypeOK
  <2>2. /\ DOMAIN parser_queue' = 1..(Len(parser_queue) + 1)
        /\ DOMAIN parser_queue = 1..Len(parser_queue) /\ Len(parser_queue) \in Nat
        /\ \A i \in DOMAIN parser_queue : parser_queue'[i] = parser_queue[i]
        /\ parser_queue'[Len(parser_queue) + 1] = t
    BY <1>2, <2>1
  <2> QED
    BY <2>2 DEF InQueue
<1>3. UNCHANGED parser_queue => \A t \in Uploads : InQueue(t) => InQueue(t)'
  BY DEF InQueue
<1>4. CASE PublishParserTask(r)
  <2>1. \/ parser_queue' = Append(parser_queue, request[r].task)
        \/ parser_queue' = parser_queue /\ Goto(r, "persist_failure")
    BY <1>4 DEF PublishParserTask, AfterFailedPush
  <2>2. Goto(r, "persist_failure") => request'[r].pc = "persist_failure"
    BY DEF Goto, RequestTypeOK
  <2>3. request[r].task \in Uploads
    BY <1>4 DEF PublishParserTask, At, RequestInv, AfterBinding, RequestTypeOK
  <2> QED
    BY <1>1, <1>2, <1>3, <2>1, <2>2, <2>3
<1>5. CASE ~PublishParserTask(r)
  <2>1. UNCHANGED parser_queue
    BY <1>5 DEF FindExisting, RequestStep, Touch, InsertTask, RefreshTask, RecoverFromDuplicate,
       UploadSource, Requeue, PersistDispatchFailure, stores, queues
  <2> QED
    BY <1>1, <1>3, <1>5, <2>1
<1> QED
  BY <1>4, <1>5

(* A step of the upload route, as far as the invariant is concerned: what is QUEUED
   was so, or is in the queue; the request's own task is not forgotten; and a request
   about to write QUEUED has published.                                            *)
LEMMA RequestFrameD ==
  ASSUME MessagesLast, PipelineInv, DispatchInv, NEW r \in Uploads,
         FindExisting(r) \/ RequestStep(r),
         \A t \in Uploads : t # r /\ t_task'[t] = "QUEUED" => t_task[t] = "QUEUED" \/ InQueue(t)',
         t_task'[r] = "QUEUED" =>
           InQueue(r)' \/ Fresh(r)' \/ (t_task[r] = "QUEUED" /\ ~Fresh(r)),
         request'[r].pc = "requeue" =>
           \E t \in Uploads : request'[r].task = t /\ t # r /\ InQueue(t)'
  PROVE  DispatchInv'
<1> USE DEF PipelineInv, TypeOK
<1>1. \A q \in Uploads : q # r => request'[q] = request[q]
  BY OtherRequests
<1>2. UNCHANGED parser /\ \A t \in Uploads : InQueue(t) => InQueue(t)'
  BY QueueGrows
<1>3. \A t \in Uploads : Taken(t) => Taken(t)'
  BY <1>2 DEF Taken
<1>4. \A t \in Uploads : t # r /\ Fresh(t) => Fresh(t)'
  BY <1>1 DEF Fresh
<1>5. \A t \in Uploads : t_task'[t] = "QUEUED" => InQueue(t)' \/ Fresh(t)' \/ Taken(t)'
  BY <1>2, <1>3, <1>4 DEF DispatchInv
<1>6. ASSUME NEW q \in Uploads, request'[q].pc = "requeue"
      PROVE  request'[q].task # q /\ InQueue(request[q].task)'
  <2>1. CASE q = r
    BY <1>6, <2>1 DEF InQueue
  <2>2. CASE q # r
    <3>1. request[q].pc = "requeue" /\ request'[q].task = request[q].task
      BY <1>1, <1>6, <2>2
    <3>2. request[q].task \in Uploads /\ request[q].task # q /\ InQueue(request[q].task)
      BY <3>1 DEF DispatchInv, RequestInv, AfterBinding, RequestTypeOK
    <3>3. PICK t \in Uploads : t = request[q].task
      BY <3>2
    <3>4. InQueue(t)'
      BY <1>2, <3>2, <3>3
    <3> QED
      BY <3>1, <3>2, <3>3, <3>4 DEF InQueue
  <2> QED
    BY <2>1, <2>2
<1>7. ASSUME NEW w \in Parsers, parser'[w].pc = "set_parsing", parser'[w].loaded # "QUEUED"
      PROVE  t_task'[parser'[w].task] # "QUEUED"
  <2>1. parser[w].pc = "set_parsing" /\ t_task[parser[w].task] # "QUEUED"
    BY <1>2, <1>7 DEF DispatchInv
  <2> QED
    BY <1>2, <2>1, RequestSpares
<1> QED
  BY <1>5, <1>6, <1>7 DEF DispatchInv

LEMMA RequestDispatch ==
  ASSUME NothingLost, MessagesLast, PipelineInv, DispatchInv, NEW r \in Uploads,
         FindExisting(r) \/ RequestStep(r)
  PROVE  DispatchInv'
<1> USE DEF PipelineInv, TypeOK
<1>a. "database" \notin Faults
  BY DEF NothingLost
<1>b. ASSUME UNCHANGED t_task, ~Fresh(r), request'[r].pc # "requeue"
      PROVE  DispatchInv'
  BY <1>b, RequestFrameD
<1>c. \A pc : Goto(r, pc) => /\ request'[r].pc = pc
                             /\ request'[r].task = request[r].task
                             /\ request'[r].loaded = request[r].loaded
  BY DEF Goto, RequestTypeOK
<1>d. \A t, pc : Bind(r, t, pc) =>
        request'[r].pc = pc /\ request'[r].task = t /\ request'[r].loaded = t_task[t]
  BY DEF Bind, RequestTypeOK
<1>e. \A reply : Reply(r, reply) => /\ request'[r].pc = "done"
                                    /\ request'[r].task = request[r].task
                                    /\ request'[r].loaded = request[r].loaded
  BY DEF Reply, RequestTypeOK
<1>1. CASE FindExisting(r)
  BY <1>1, <1>b, <1>c, <1>d, <1>e DEF FindExisting, At, Fresh, stores, tables
<1>2. CASE Touch(r)
  BY <1>2, <1>b, <1>c, <1>d, <1>e DEF Touch, At, Fresh, stores, tables
<1>3. CASE RecoverFromDuplicate(r)
  BY <1>3, <1>b, <1>c, <1>d, <1>e DEF RecoverFromDuplicate, At, Fresh, stores, tables
<1>4. CASE RefreshTask(r)
  <2>1. Bind(r, request[r].task, "upload") /\ UNCHANGED t_task
    BY <1>4, <1>a DEF RefreshTask, stores, tables
  <2>2. request'[r].pc = "upload" /\ request'[r].task = request[r].task
        /\ request'[r].loaded = t_task[request[r].task]
    BY <1>c, <1>d, <1>e, <2>1
  <2>3. t_task'[r] = "QUEUED" /\ Fresh(r) => Fresh(r)'
    BY <2>1, <2>2 DEF Fresh
  <2> QED
    BY <2>1, <2>2, <2>3, RequestFrameD
<1>5. CASE InsertTask(r)
  <2>1. CASE t_task' = [t_task EXCEPT ![r] = "QUEUED"]
             /\ request' = [request EXCEPT ![r].pc = "refresh", ![r].task = r,
                                           ![r].loaded = "QUEUED"]
    <3>1. Fresh(r)' /\ request'[r].pc = "refresh"
      BY <2>1 DEF Fresh, RequestTypeOK
    <3>2. \A t \in Uploads : t # r => t_task'[t] = t_task[t]
      BY <2>1 DEF StoresTypeOK
    <3> QED
      BY <3>1, <3>2, RequestFrameD
  <2>2. CASE Goto(r, "recover") /\ UNCHANGED t_task
    BY <1>5, <2>2, <1>b, <1>c, <1>d, <1>e DEF InsertTask, At, Fresh
  <2> QED
    BY <1>5, <1>a, <2>1, <2>2 DEF InsertTask
<1>6. CASE UploadSource(r)
  <2>1. \E pc \in {"publish", "persist_failure"} : Goto(r, pc)
    BY <1>6 DEF UploadSource
  <2>2. Fresh(r) => Fresh(r)'
    BY <1>c, <1>d, <1>e, <2>1 DEF Fresh
  <2>3. UNCHANGED t_task /\ request'[r].pc # "requeue"
    BY <1>6, <1>c, <1>d, <1>e, <2>1 DEF UploadSource, tables
  <2> QED
    BY <2>2, <2>3, RequestFrameD
<1>7. CASE PublishParserTask(r)
  <2>1. UNCHANGED t_task /\ request[r].task \in Uploads
    BY <1>7 DEF PublishParserTask, tables, At, RequestInv, AfterBinding, RequestTypeOK
  <2>2. \/ request'[r].pc = "persist_failure"
        \/ request'[r].pc = "done" /\ request[r].task = r
        \/ request'[r].pc = "requeue" /\ request[r].task # r
    BY <1>7, <1>c, <1>d, <1>e DEF PublishParserTask
  <2>3. request'[r].task = request[r].task /\ request'[r].loaded = request[r].loaded
    BY <1>7, <1>c, <1>d, <1>e DEF PublishParserTask
  <2>4. CASE request'[r].pc = "persist_failure"
    <3>1. Fresh(r) => Fresh(r)'
      BY <2>3, <2>4 DEF Fresh
    <3> QED
      BY <2>1, <2>4, <3>1, RequestFrameD
  <2>5. CASE request'[r].pc # "persist_failure"
    <3>1. \A t \in Uploads : request[r].task = t => InQueue(t)'
      BY <1>7, <2>5, QueueGrows
    <3>2. Fresh(r) => InQueue(r)'
      BY <3>1 DEF Fresh
    <3> QED
      BY <2>1, <2>2, <2>3, <3>1, <3>2, RequestFrameD
  <2> QED
    BY <2>4, <2>5
<1>8. CASE Requeue(r)
  <2>1. SetLoadedTask(r, "QUEUED") /\ request'[r].pc = "done" /\ request[r].pc = "requeue"
    BY <1>8, <1>a, <1>c, <1>d, <1>e DEF Requeue, At
  <2>2. request[r].task \in Uploads /\ request[r].task # r /\ InQueue(request[r].task)
    BY <2>1 DEF DispatchInv, RequestInv, AfterBinding, RequestTypeOK
  <2>3. \A t \in Uploads : InQueue(t) => InQueue(t)'
    BY QueueGrows
  <2>4. \A t \in Uploads : t # request[r].task => t_task'[t] = t_task[t]
    BY <2>1, <2>2 DEF SetLoadedTask, StoresTypeOK
  <2>5. ~Fresh(r)
    BY <2>1 DEF Fresh
  <2> QED
    BY <2>1, <2>2, <2>3, <2>4, <2>5, RequestFrameD
<1>9. CASE PersistDispatchFailure(r)
  <2>1. SetLoadedTask(r, "FAILED") /\ request'[r].pc = "done"
    BY <1>9, <1>a, <1>c, <1>d, <1>e DEF PersistDispatchFailure
  <2>2. request[r].task \in Uploads
    BY <1>9 DEF PersistDispatchFailure, At, RequestInv, AfterBinding, RequestTypeOK
  <2>3. NothingQueued
    BY <2>1, <2>2, OtherStatus DEF SetLoadedTask
  <2>4. Fresh(r) => t_task'[r] = "FAILED"
    BY <2>1 DEF Fresh, SetLoadedTask, Flushed, StoresTypeOK
  <2> QED
    BY <2>1, <2>3, <2>4, RequestFrameD DEF NothingQueued
<1> QED
  BY <1>1, <1>2, <1>3, <1>4, <1>5, <1>6, <1>7, <1>8, <1>9 DEF RequestStep

----------------------------------------------------------------------------
(* A parser's step: nothing becomes QUEUED, and the task it drops is QUEUED no more. *)
LEMMA ParserFrameD ==
  ASSUME MessagesLast, PipelineInv, DispatchInv, NEW w \in Parsers, ParserStep(w),
         \A v \in Parsers : v # w => parser'[v] = parser[v],
         \A t \in Uploads : InQueue(t) /\ t_task'[t] = "QUEUED" => InQueue(t)' \/ Taken(t)',
         parser[w].pc \in {"mark_parsing", "set_parsing"} =>
           \/ t_task'[parser[w].task] # "QUEUED"
           \/ /\ parser'[w].task = parser[w].task
              /\ parser'[w].pc \in {"mark_parsing", "set_parsing"},
         parser'[w].pc = "set_parsing" =>
           parser'[w].loaded = t_task'[parser'[w].task]
  PROVE  DispatchInv'
<1> USE DEF PipelineInv, TypeOK
<1>1. UNCHANGED request
  BY OthersLeaveRequests DEF ParserNext
<1>2. NothingQueued
  BY ParserQueuesNothing
<1>3. ASSUME NEW t \in Uploads, t_task'[t] = "QUEUED"
      PROVE  InQueue(t)' \/ Fresh(t)' \/ Taken(t)'
  <2>1. InQueue(t) \/ Fresh(t) \/ Taken(t)
    BY <1>2, <1>3 DEF NothingQueued, DispatchInv
  <2>2. Fresh(t) => Fresh(t)'
    BY <1>1 DEF Fresh
  <2>3. Taken(t) => Taken(t)'
    BY <1>3 DEF Taken
  <2> QED
    BY <1>3, <2>1, <2>2, <2>3
<1>4. ASSUME NEW r \in Uploads
      PROVE  request'[r].pc # "requeue"
  BY <1>1, OwnTask DEF MessagesLast, DispatchInv, RequestInv, AfterBinding
<1>5. ASSUME NEW v \in Parsers, parser'[v].pc = "set_parsing", parser'[v].loaded # "QUEUED"
      PROVE  t_task'[parser'[v].task] # "QUEUED"
  <2>1. CASE v = w
    BY <1>5, <2>1
  <2>2. CASE v # w
    <3>1. parser[v].task \in Uploads
      BY <1>5, <2>2 DEF ParserInv, ParserTypeOK
    <3> QED
      BY <1>2, <1>5, <2>2, <3>1 DEF NothingQueued, DispatchInv
  <2> QED
    BY <2>1, <2>2
<1> QED
  BY <1>3, <1>4, <1>5 DEF DispatchInv

LEMMA ParserDispatch ==
  ASSUME NothingLost, MessagesLast, PipelineInv, DispatchInv, NEW w \in Parsers, ParserStep(w)
  PROVE  DispatchInv'
<1> USE DEF PipelineInv, TypeOK
<1>a. "database" \notin Faults /\ "queue" \notin Faults
  BY DEF NothingLost, MessagesLast
<1>b. UNCHANGED parser_queue => \A t \in Uploads : InQueue(t) => InQueue(t)'
  BY DEF InQueue
<1>c. /\ \A pc : ParserGoto(w, pc) => /\ \A v \in Parsers : v # w => parser'[v] = parser[v]
                                      /\ parser'[w].pc = pc
                                      /\ parser'[w].task = parser[w].task
      /\ ParserDone(w) => /\ \A v \in Parsers : v # w => parser'[v] = parser[v]
                          /\ parser'[w].pc = "idle"
  BY DEF ParserGoto, ParserDone, ParserTypeOK, IdleParser
<1>1. CASE ConsumeParserTask(w)
  <2>1. /\ parser_queue \in Seq(Uploads) /\ parser_queue # <<>>
        /\ parser_queue' = Tail(parser_queue) /\ parser[w].pc = "idle"
        /\ parser' = [parser EXCEPT ![w].pc = "mark_parsing", ![w].task = Head(parser_queue)]
    BY <1>1, <1>a DEF ConsumeParserTask, ParserAt, StoresTypeOK
  <2>2. /\ parser'[w].pc = "mark_parsing" /\ parser'[w].task = Head(parser_queue)
        /\ \A v \in Parsers : v # w => parser'[v] = parser[v]
    BY <2>1 DEF ParserTypeOK
  <2>3. ASSUME NEW t \in Uploads, InQueue(t)
        PROVE  InQueue(t)' \/ Taken(t)'
    <3>1. PICK i \in DOMAIN parser_queue : parser_queue[i] = t
      BY <2>3 DEF InQueue
    <3>2. CASE i = 1
      <4>1. Head(parser_queue) = t
        BY <2>1, <3>1, <3>2, Popped
      <4> QED
        BY <2>2, <4>1 DEF Taken
    <3>3. CASE i # 1
      <4>1. i - 1 \in DOMAIN Tail(parser_queue) /\ Tail(parser_queue)[i - 1] = t
        BY <2>1, <3>1, <3>3
      <4> QED
        BY <2>1, <4>1 DEF InQueue
    <3> QED
      BY <3>2, <3>3
  <2> QED
    BY <2>1, <2>2, <2>3, ParserFrameD
<1>2. CASE MarkParsing(w)
  <2>1. /\ parser' = [parser EXCEPT ![w].pc = "set_parsing", ![w].loaded = t_task[parser[w].task]]
        /\ UNCHANGED <<t_task, parser_queue>>
    BY <1>2, <1>a DEF MarkParsing, ParserLoad, stores
  <2>2. /\ parser'[w].pc = "set_parsing" /\ parser'[w].task = parser[w].task
        /\ parser'[w].loaded = t_task[parser[w].task]
        /\ \A v \in Parsers : v # w => parser'[v] = parser[v]
    BY <2>1 DEF ParserTypeOK
  <2> QED
    BY <1>b, <2>1, <2>2, ParserFrameD
<1>3. CASE SetParsing(w)
  <2>1. /\ ParserSet(w, "PARSING") /\ ParserGoto(w, "parse") /\ UNCHANGED parser_queue
        /\ parser[w].pc = "set_parsing"
    BY <1>3, <1>a DEF SetParsing, ParserAt, queues
  <2>2. parser[w].task \in Uploads
    BY <2>1 DEF ParserInv, ParserTypeOK
  <2>3. t_task'[parser[w].task] # "QUEUED"
    BY <2>1, <2>2 DEF ParserSet, Flushed, StoresTypeOK, DispatchInv
  <2> QED
    BY <1>b, <1>c, <2>1, <2>3, ParserFrameD
<1>4. CASE Parse(w) \/ StoreContentList(w) \/ PublishExtractorTask(w)
  <2>1. PICK pc \in {"store", "publish", "mark_parsed", "mark_failed"} : ParserGoto(w, pc)
    BY <1>4 DEF Parse, StoreContentList, PublishExtractorTask
  <2>2. UNCHANGED parser_queue /\ parser[w].pc \notin {"mark_parsing", "set_parsing"}
    BY <1>4 DEF Parse, StoreContentList, PublishExtractorTask, ParserAt, stores, queues
  <2> QED
    BY <1>b, <1>c, <2>1, <2>2, ParserFrameD
<1>5. CASE MarkParsed(w) \/ MarkFailed(w)
  <2>1. PICK pc \in {"set_parsed", "set_failed"} :
          parser' = [parser EXCEPT ![w].pc = pc, ![w].loaded = t_task[parser[w].task]]
    BY <1>5, <1>a DEF MarkParsed, MarkFailed, ParserLoad
  <2>2. parser'[w].pc # "set_parsing" /\ \A v \in Parsers : v # w => parser'[v] = parser[v]
    BY <2>1 DEF ParserTypeOK
  <2>3. UNCHANGED parser_queue /\ parser[w].pc \notin {"mark_parsing", "set_parsing"}
    BY <1>5 DEF MarkParsed, MarkFailed, ParserLoad, ParserAt, stores
  <2> QED
    BY <1>b, <2>2, <2>3, ParserFrameD
<1>6. CASE SetParsed(w) \/ SetFailed(w)
  <2>1. /\ ParserDone(w) /\ UNCHANGED parser_queue
        /\ parser[w].pc \notin {"mark_parsing", "set_parsing"}
    BY <1>6 DEF SetParsed, SetFailed, ParserFinish, ParserAt, queues
  <2> QED
    BY <1>b, <1>c, <2>1, ParserFrameD
<1> QED
  BY <1>1, <1>2, <1>3, <1>4, <1>5, <1>6 DEF ParserStep

----------------------------------------------------------------------------
LEMMA DispatchNext ==
  ASSUME NothingLost, MessagesLast
  PROVE  PipelineInv /\ DispatchInv /\ [Next]_vars => DispatchInv'
<1> SUFFICES ASSUME PipelineInv, DispatchInv, [Next]_vars PROVE DispatchInv'
  OBVIOUS
<1>1. CASE RequestNext
  BY <1>1, RequestDispatch DEF RequestNext, RequestCrash, NothingLost
<1>2. CASE ParserNext
  BY <1>2, ParserDispatch DEF ParserNext, ParserCrash, NothingLost
<1>3. CASE ExtractorNext \/ ReviewNext
  <2>1. NothingQueued /\ UNCHANGED <<parser_queue, request, parser>>
    BY <1>3, OthersQueueNothing
  <2>2. \A w \in Parsers : parser[w].pc = "set_parsing" => parser[w].task \in Uploads
    BY DEF PipelineInv, TypeOK, ParserInv, ParserTypeOK
  <2> QED
    BY <2>1, <2>2 DEF NothingQueued, DispatchInv, InQueue, Fresh, Taken
<1>4. CASE UNCHANGED vars
  BY <1>4 DEF vars, stores, DispatchInv, InQueue, Fresh, Taken
<1> QED
  BY <1>1, <1>2, <1>3, <1>4 DEF Next

LEMMA DispatchInit == Init => DispatchInv
BY Unrelated DEF Init, StoresInit, RequestInit, ParserInit, IdleParser, DispatchInv, TaskStatus

(* A task is QUEUED only while its message is in the queue, the request that inserted
   it is still dispatching it, or a parser is about to mark it PARSING: dispatch by an
   insert, a failed dispatch, its retry and the parser's consumption leave no gap
   (_dispatch_task, _persist_dispatch_failure, _handle_existing_task, _mark_parsing). *)
THEOREM TasksDispatched ==
  ASSUME NothingLost, MessagesLast
  PROVE  Spec => []QueuedMeansDispatched
<1>1. DispatchInv => QueuedMeansDispatched
  BY DEF DispatchInv, QueuedMeansDispatched, Dispatching, InQueue, Fresh, Taken
<1> QED
  BY <1>1, DispatchInit, DispatchNext, Invariance, PTL DEF Spec

=============================================================================
