--------------------------- MODULE PipelineProofs ---------------------------
(***************************************************************************)
(* The inductive invariant of Pipeline and the safety properties it        *)
(* implies, for any number of uploads, rules, workers and requests and for *)
(* every choice of the dependencies that may fail.                         *)
(*                                                                         *)
(* The invariant adds to TypeOK what each process may rely on while it     *)
(* holds a task: the row is there and will stay, its object is stored, and *)
(* the rows an open transaction wrote belong to a stored task.             *)
(***************************************************************************)
EXTENDS Pipeline, TLAPS

(* Redis and PostgreSQL: one row per document, and every message and result
   row refers to a stored task, every message to a stored object.          *)
StoresInv ==
  /\ \A s, t \in Uploads :
       TaskPresent(s) /\ TaskPresent(t) /\ Fingerprint[s] = Fingerprint[t] => s = t
  /\ \A i \in DOMAIN parser_queue :
       TaskPresent(parser_queue[i]) /\ Source(parser_queue[i]) \in objects
  /\ \A i \in DOMAIN extractor_queue :
       TaskPresent(extractor_queue[i].task) /\ ContentList(extractor_queue[i].task) \in objects
  /\ \A i \in DOMAIN reextract_queue : TaskPresent(reextract_queue[i].task)
  /\ \A i \in RowIds : t_result[i] # Absent => TaskPresent(i[1])
  /\ \A s \in Sessions, i \in RowIds : uncommitted[s][i] # Absent => TaskPresent(i[1])

(* The places of a request that has found or inserted its row. *)
AfterBinding == {"refresh", "touch", "upload", "publish", "requeue", "persist_failure"}

RequestInv ==
  \A r \in Uploads :
    /\ request[r].pc \in AfterBinding => request[r].task # Absent
    /\ request[r].task # Absent =>
         TaskPresent(request[r].task) /\ Fingerprint[request[r].task] = Fingerprint[r]
    /\ request[r].pc = "publish" => Source(request[r].task) \in objects

ParserInv ==
  \A w \in Parsers :
    /\ parser[w].pc # "idle" => parser[w].task # Absent
    /\ parser[w].task # Absent => TaskPresent(parser[w].task)
    /\ parser[w].pc = "publish" => ContentList(parser[w].task) \in objects

(* A run's writes are confined to its transaction, and to rules it has done with:
   what SelectResult reads for the next rule is committed.                       *)
RunInv(x) ==
  /\ extractor[x].pc \notin {"poll_reextract", "poll_extract"} => extractor[x].task # Absent
  /\ extractor[x].task # Absent => TaskPresent(extractor[x].task)
  /\ extractor[x].pc = "flush" =>
       /\ extractor[x].row \in RowIds
       /\ extractor[x].row[1] = extractor[x].task
       /\ extractor[x].row[2] \notin extractor[x].todo
       /\ extractor[x].loaded_row # Absent => t_result[extractor[x].row] # Absent
  /\ extractor[x].pc = "commit" => extractor[x].verdict # Absent
  /\ \A i \in RowIds : uncommitted[x][i] # Absent =>
       /\ extractor[x].pc \in InTransaction
       /\ i[1] = extractor[x].task
       /\ i[2] \notin extractor[x].todo
ExtractorInv == \A x \in Extractors : RunInv(x)

FixInv(v) ==
  /\ fix[v].pc \notin {"idle", "done"} => fix[v].row # Absent /\ fix[v].loaded_row # Absent
  /\ fix[v].row # Absent => t_result[fix[v].row] # Absent
  /\ fix[v].pc \in {"load", "commit"} => fix[v].verdict # Absent
ReviewInv == \A v \in Fixes : FixInv(v)

PipelineInv ==
  /\ TypeOK
  /\ StoresInv
  /\ RequestInv
  /\ ParserInv
  /\ ExtractorInv
  /\ ReviewInv

----------------------------------------------------------------------------
(* What every step keeps, and so what a process may rely on while others run. *)
TasksKept == \A t \in Uploads : TaskPresent(t) => TaskPresent(t)'
ResultsKept == \A i \in RowIds : t_result[i] # Absent => t_result'[i] # Absent
ObjectsKept == \A t \in Uploads :
  /\ Source(t) \in objects => Source(t) \in objects'
  /\ ContentList(t) \in objects => ContentList(t) \in objects'
WritesKept(S) == \A s \in S : uncommitted'[s] = uncommitted[s]

(* No step brings a task row into being but an upload's INSERT. *)
SameTasks == \A t \in Uploads : TaskPresent(t)' <=> TaskPresent(t)

LEMMA Unrelated == Absent \notin Uploads /\ Absent \notin RowIds /\ Absent \notin Rows
                   /\ Absent \notin TaskStatus
BY AbsentAssumption

(* set_status on a stored row changes neither the type of the table nor which
   rows it holds, whatever status the session had loaded.                    *)
LEMMA SetStatus ==
  ASSUME t_task \in [Uploads -> TaskStatus \union {Absent}],
         NEW t \in Uploads, TaskPresent(t), NEW loaded, NEW status \in TaskStatus,
         t_task' = [t_task EXCEPT ![t] = Flushed(t_task[t], loaded, status)]
  PROVE  /\ t_task' \in [Uploads -> TaskStatus \union {Absent}]
         /\ SameTasks
BY Unrelated DEF SameTasks, TaskPresent, Flushed

(* Messages name an upload's task and some of the rules. *)
LEMMA Messages ==
  ASSUME StoresTypeOK
  PROVE  /\ \A i \in DOMAIN parser_queue : parser_queue[i] \in Uploads
         /\ \A i \in DOMAIN extractor_queue :
              extractor_queue[i].task \in Uploads /\ extractor_queue[i].codes \subseteq Rules
         /\ \A i \in DOMAIN reextract_queue :
              reextract_queue[i].task \in Uploads /\ reextract_queue[i].codes \subseteq Rules
<1>1. \A m \in ExtractorMessages : m.task \in Uploads /\ m.codes \subseteq Rules
  BY DEF ExtractorMessages
<1>2. \A i \in DOMAIN extractor_queue : extractor_queue[i] \in ExtractorMessages
  BY DEF StoresTypeOK
<1>3. \A i \in DOMAIN reextract_queue : reextract_queue[i] \in ExtractorMessages
  BY DEF StoresTypeOK
<1>4. \A i \in DOMAIN parser_queue : parser_queue[i] \in Uploads
  BY DEF StoresTypeOK
<1> QED
  BY <1>1, <1>2, <1>3, <1>4

(* Steps that leave the stores alone. *)
LEMMA StoresFrame ==
  ASSUME StoresTypeOK, StoresInv, UNCHANGED stores
  PROVE  StoresTypeOK' /\ StoresInv' /\ TasksKept /\ ResultsKept /\ ObjectsKept
         /\ WritesKept(Sessions)
BY DEF StoresTypeOK, StoresInv, stores, TasksKept, ResultsKept, ObjectsKept, WritesKept,
       TaskPresent

(* Steps that write statuses of stored rows and nothing else in the stores. *)
LEMMA StatusFrame ==
  ASSUME StoresTypeOK, StoresInv,
         t_task' \in [Uploads -> TaskStatus \union {Absent}], SameTasks,
         UNCHANGED <<results, t_toc, objects, queues>>
  PROVE  StoresTypeOK' /\ StoresInv' /\ TasksKept /\ ResultsKept /\ ObjectsKept
         /\ WritesKept(Sessions)
<1>1. StoresTypeOK'
  BY DEF StoresTypeOK, results, queues
<1>2. TasksKept /\ ResultsKept /\ ObjectsKept /\ WritesKept(Sessions)
  BY DEF SameTasks, TasksKept, ResultsKept, ObjectsKept, WritesKept, results
<1>3. StoresInv'
  <2>1. \A i \in RowIds : i[1] \in Uploads
    BY DEF RowIds
  <2> QED
    BY <2>1, Messages DEF StoresInv, SameTasks, results, queues
<1> QED
  BY <1>1, <1>2, <1>3

(* Steps of the other components. *)
LEMMA RequestFrame ==
  ASSUME RequestTypeOK, RequestInv, UNCHANGED request, TasksKept, ObjectsKept
  PROVE  RequestTypeOK' /\ RequestInv'
<1>1. RequestTypeOK'
  BY DEF RequestTypeOK
<1>2. \A r \in Uploads : request[r].task # Absent => request[r].task \in Uploads
  BY DEF RequestTypeOK
<1>3. \A r \in Uploads : request[r].pc = "publish" => request[r].task # Absent
  BY DEF RequestInv, AfterBinding
<1> QED
  BY <1>1, <1>2, <1>3 DEF RequestInv, TasksKept, ObjectsKept

LEMMA ParserFrame ==
  ASSUME ParserTypeOK, ParserInv, UNCHANGED parser, TasksKept, ObjectsKept
  PROVE  ParserTypeOK' /\ ParserInv'
<1>1. ParserTypeOK'
  BY DEF ParserTypeOK
<1>2. \A w \in Parsers : parser[w].task # Absent => parser[w].task \in Uploads
  BY DEF ParserTypeOK
<1>3. \A w \in Parsers : parser[w].pc = "publish" => parser[w].task # Absent
  BY DEF ParserInv
<1> QED
  BY <1>1, <1>2, <1>3 DEF ParserInv, TasksKept, ObjectsKept

LEMMA ExtractorFrame ==
  ASSUME ExtractorTypeOK, ExtractorInv, UNCHANGED extractor, TasksKept, ResultsKept,
         WritesKept(Extractors)
  PROVE  ExtractorTypeOK' /\ ExtractorInv'
<1>1. ExtractorTypeOK'
  BY DEF ExtractorTypeOK
<1>2. \A x \in Extractors : extractor[x].task # Absent => extractor[x].task \in Uploads
  BY DEF ExtractorTypeOK, ExtractorRuns
<1> QED
  BY <1>1, <1>2 DEF ExtractorInv, RunInv, TaskPresent, TasksKept, ResultsKept, WritesKept

LEMMA ReviewFrame ==
  ASSUME ReviewTypeOK, ReviewInv, UNCHANGED <<fix, retriggered>>, ResultsKept
  PROVE  ReviewTypeOK' /\ ReviewInv'
<1>1. ReviewTypeOK'
  BY DEF ReviewTypeOK
<1>2. \A v \in Fixes : fix[v].row # Absent => fix[v].row \in RowIds
  BY DEF ReviewTypeOK, FixRecords
<1> QED
  BY <1>1, <1>2 DEF ReviewInv, FixInv, ResultsKept

----------------------------------------------------------------------------
(* Every step of a component re-establishes that component's part and the stores'
   part of the invariant, and keeps what the others rely on.                     *)
Kept == TasksKept /\ ResultsKept /\ ObjectsKept

(* What Append and Tail leave in a queue. *)
LEMMA Appended ==
  ASSUME NEW S, NEW q \in Seq(S), NEW e \in S
  PROVE  /\ Append(q, e) \in Seq(S)
         /\ \A i \in DOMAIN Append(q, e) :
              Append(q, e)[i] = e \/ (i \in DOMAIN q /\ Append(q, e)[i] = q[i])
OBVIOUS

LEMMA Popped ==
  ASSUME NEW S, NEW q \in Seq(S), q # <<>>
  PROVE  /\ Tail(q) \in Seq(S)
         /\ Head(q) = q[1] /\ 1 \in DOMAIN q
         /\ \A i \in DOMAIN Tail(q) : i + 1 \in DOMAIN q /\ Tail(q)[i] = q[i + 1]
OBVIOUS

(* One object more. *)
LEMMA ObjectStored ==
  ASSUME StoresTypeOK, StoresInv, NEW key \in ObjectKeys,
         objects' = objects \union {key} \/ objects' = objects,
         UNCHANGED <<tables, queues>>
  PROVE  StoresTypeOK' /\ StoresInv' /\ Kept /\ WritesKept(Sessions)
<1>1. StoresTypeOK'
  BY DEF StoresTypeOK, tables, queues
<1>2. StoresInv'
  BY DEF StoresInv, TaskPresent, tables, queues
<1> QED
  BY <1>1, <1>2 DEF Kept, TasksKept, ResultsKept, ObjectsKept, WritesKept, TaskPresent, tables

(* One message more in the parser queue, its source stored. *)
LEMMA ParserTaskPublished ==
  ASSUME StoresTypeOK, StoresInv, NEW t \in Uploads, TaskPresent(t), Source(t) \in objects,
         parser_queue' = Append(parser_queue, t) \/ parser_queue' = parser_queue,
         UNCHANGED <<tables, objects, extractor_queue, reextract_queue>>
  PROVE  StoresTypeOK' /\ StoresInv' /\ Kept /\ WritesKept(Sessions)
<1>1. parser_queue \in Seq(Uploads)
  BY DEF StoresTypeOK
<1>2. parser_queue' \in Seq(Uploads)
  BY <1>1, Appended
<1>3. \A i \in DOMAIN parser_queue' :
        parser_queue'[i] = t \/ (i \in DOMAIN parser_queue /\ parser_queue'[i] = parser_queue[i])
  BY <1>1, Appended
<1>4. StoresTypeOK'
  BY <1>2 DEF StoresTypeOK, tables
<1>5. StoresInv'
  BY <1>3 DEF StoresInv, TaskPresent, tables
<1> QED
  BY <1>4, <1>5 DEF Kept, TasksKept, ResultsKept, ObjectsKept, WritesKept, TaskPresent, tables

----------------------------------------------------------------------------
(* The three ways a step changes its request. *)
LEMMA Replied ==
  ASSUME RequestTypeOK, RequestInv, Kept, NEW r \in Uploads, NEW reply \in Replies,
         Reply(r, reply)
  PROVE  RequestTypeOK' /\ RequestInv'
<1>1. \A q \in Uploads : request[q].task # Absent => request[q].task \in Uploads
  BY DEF RequestTypeOK
<1>2. RequestTypeOK'
  BY DEF RequestTypeOK, Reply, RequestPcs
<1>3. \A q \in Uploads :
        /\ request'[q].task = request[q].task
        /\ q = r \/ request'[q].pc = request[q].pc
  BY DEF RequestTypeOK, Reply
<1>4. request'[r].pc = "done"
  BY DEF RequestTypeOK, Reply
<1>5. \A q \in Uploads : request[q].pc = "publish" => request[q].task # Absent
  BY DEF RequestInv, AfterBinding
<1> QED
  BY <1>1, <1>2, <1>3, <1>4, <1>5 DEF RequestInv, AfterBinding, Kept, TasksKept, ObjectsKept

LEMMA Moved ==
  ASSUME RequestTypeOK, RequestInv, Kept, NEW r \in Uploads, NEW pc \in RequestPcs,
         Goto(r, pc),
         pc \in AfterBinding => request[r].task # Absent,
         pc = "publish" => Source(request[r].task) \in objects'
  PROVE  RequestTypeOK' /\ RequestInv'
<1>1. \A q \in Uploads : request[q].task # Absent => request[q].task \in Uploads
  BY DEF RequestTypeOK
<1>2. RequestTypeOK'
  BY DEF RequestTypeOK, Goto
<1>3. \A q \in Uploads :
        /\ request'[q].task = request[q].task
        /\ q = r \/ request'[q].pc = request[q].pc
  BY DEF RequestTypeOK, Goto
<1>4. request'[r].pc = pc
  BY DEF RequestTypeOK, Goto
<1>5. \A q \in Uploads : request[q].pc = "publish" => request[q].task # Absent
  BY DEF RequestInv, AfterBinding
<1> QED
  BY <1>1, <1>2, <1>3, <1>4, <1>5 DEF RequestInv, AfterBinding, Kept, TasksKept, ObjectsKept

LEMMA Bound ==
  ASSUME RequestTypeOK, RequestInv, StoresTypeOK, Kept, NEW r \in Uploads,
         NEW t \in WithFingerprint(Fingerprint[r]), NEW pc \in RequestPcs \ {"publish"},
         Bind(r, t, pc)
  PROVE  RequestTypeOK' /\ RequestInv'
<1>1. \A q \in Uploads : request[q].task # Absent => request[q].task \in Uploads
  BY DEF RequestTypeOK
<1>2. t \in Uploads /\ TaskPresent(t) /\ Fingerprint[t] = Fingerprint[r]
  BY DEF WithFingerprint
<1>3. RequestTypeOK'
  <2>1. t_task[t] \in TaskStatus \union {Absent}
    BY <1>2 DEF StoresTypeOK
  <2>2. request' = [request EXCEPT ![r] = [request[r] EXCEPT !.pc = pc, !.task = t,
                                                             !.loaded = t_task[t]]]
    BY DEF Bind, RequestTypeOK
  <2>3. [request[r] EXCEPT !.pc = pc, !.task = t, !.loaded = t_task[t]]
          \in [pc : RequestPcs, task : Uploads \union {Absent},
               loaded : TaskStatus \union {Absent}, reply : Replies \union {"none"}]
    BY <1>2, <2>1 DEF RequestTypeOK
  <2> QED
    BY <2>2, <2>3 DEF RequestTypeOK
<1>4. \A q \in Uploads : q # r => request'[q] = request[q]
  BY DEF RequestTypeOK, Bind
<1>5. request'[r].pc = pc /\ request'[r].task = t
  BY DEF RequestTypeOK, Bind
<1>6. \A q \in Uploads : request[q].pc = "publish" => request[q].task # Absent
  BY DEF RequestInv, AfterBinding
<1> QED
  BY <1>1, <1>2, <1>3, <1>4, <1>5, <1>6, Unrelated
     DEF RequestInv, AfterBinding, Kept, TasksKept, ObjectsKept, TaskPresent

(* An INSERT under the unique index. *)
LEMMA Inserted ==
  ASSUME TypeOK, StoresInv, RequestInv, NEW r \in Uploads, UniqueIndexAllows(r),
         t_task' = [t_task EXCEPT ![r] = "QUEUED"],
         request' = [request EXCEPT ![r].pc = "refresh", ![r].task = r,
                                    ![r].loaded = "QUEUED"],
         UNCHANGED <<results, t_toc, objects, queues>>
  PROVE  /\ StoresTypeOK' /\ StoresInv' /\ RequestTypeOK' /\ RequestInv'
         /\ Kept /\ WritesKept(Sessions)
<1> USE DEF TypeOK
<1>1. "QUEUED" \in TaskStatus /\ "QUEUED" # Absent
  BY Unrelated DEF TaskStatus
<1>2. StoresTypeOK'
  BY <1>1 DEF StoresTypeOK, results, queues
<1>3. \A t \in Uploads : TaskPresent(t)' <=> TaskPresent(t) \/ t = r
  BY <1>1 DEF StoresTypeOK, TaskPresent
<1>4. Kept /\ WritesKept(Sessions)
  BY <1>3 DEF Kept, TasksKept, ResultsKept, ObjectsKept, WritesKept, results
<1>5. \A i \in RowIds : i[1] \in Uploads
  BY DEF RowIds
<1>6. StoresInv'
  BY <1>3, <1>5, Messages DEF StoresInv, UniqueIndexAllows, WithFingerprint, results, queues
<1>7. RequestTypeOK'
  <2>1. request' = [request EXCEPT ![r] = [request[r] EXCEPT !.pc = "refresh", !.task = r,
                                                             !.loaded = "QUEUED"]]
    BY DEF RequestTypeOK
  <2>2. [request[r] EXCEPT !.pc = "refresh", !.task = r, !.loaded = "QUEUED"]
          \in [pc : RequestPcs, task : Uploads \union {Absent},
               loaded : TaskStatus \union {Absent}, reply : Replies \union {"none"}]
    BY <1>1 DEF RequestTypeOK, RequestPcs
  <2> QED
    BY <2>1, <2>2 DEF RequestTypeOK
<1>8. \A q \in Uploads : q # r => request'[q] = request[q]
  BY DEF RequestTypeOK
<1>9. request'[r].pc = "refresh" /\ request'[r].task = r
  BY DEF RequestTypeOK
<1>10. \A q \in Uploads : request[q].task # Absent => request[q].task \in Uploads
  BY DEF RequestTypeOK
<1>11. RequestInv'
  <2>1. \A t \in Uploads : t_task'[t] # Absent <=> t_task[t] # Absent \/ t = r
    BY <1>3 DEF TaskPresent
  <2>2. \A q \in Uploads : request'[q].task # Absent =>
          t_task'[request'[q].task] # Absent /\ Fingerprint[request'[q].task] = Fingerprint[q]
    BY <1>8, <1>9, <1>10, <2>1 DEF RequestInv, TaskPresent
  <2>3. \A q \in Uploads : request'[q].pc = "publish" => Source(request'[q].task) \in objects
    BY <1>8, <1>9 DEF RequestInv
  <2>4. \A q \in Uploads : request'[q].pc \in AfterBinding => request'[q].task # Absent
    BY <1>8, <1>9, Unrelated DEF RequestInv
  <2> QED
    BY <2>2, <2>3, <2>4 DEF RequestInv, TaskPresent
<1> QED
  BY <1>2, <1>4, <1>6, <1>7, <1>11

LEMMA RequestStepInv ==
  ASSUME TypeOK, StoresInv, RequestInv,
         NEW r \in Uploads, FindExisting(r) \/ RequestStep(r) \/ RequestCrash(r)
  PROVE  /\ StoresTypeOK' /\ StoresInv' /\ RequestTypeOK' /\ RequestInv'
         /\ Kept /\ WritesKept(Sessions)
<1> USE DEF TypeOK
<1>a. request[r].task # Absent => request[r].task \in Uploads
  BY DEF RequestTypeOK
<1>b. ASSUME UNCHANGED stores
      PROVE  StoresTypeOK' /\ StoresInv' /\ Kept /\ WritesKept(Sessions)
  BY <1>b, StoresFrame DEF Kept
<1>c. \A pc : At(r, pc) /\ pc \in AfterBinding
        => /\ request[r].task \in Uploads
           /\ TaskPresent(request[r].task)
           /\ pc = "publish" => Source(request[r].task) \in objects
  BY <1>a DEF At, RequestInv, AfterBinding
<1>d. {"unavailable", "failed", "lost", "accepted", "deduplicated"} \subseteq Replies
  BY DEF Replies, Successes
<1>e. {"insert", "refresh", "recover", "touch", "upload", "publish", "requeue",
       "persist_failure"}
        \subseteq RequestPcs
  BY DEF RequestPcs
<1>f. request[r].task \in Uploads => request[r].task # Absent
  BY Unrelated
<1>1. CASE FindExisting(r)
  <2>1. StoresTypeOK' /\ StoresInv' /\ Kept /\ WritesKept(Sessions)
    BY <1>1, <1>b DEF FindExisting
  <2>2. CASE Goto(r, "insert")
    BY <2>1, <2>2, <1>e, Moved DEF AfterBinding
  <2>3. CASE \E t \in WithFingerprint(Fingerprint[r]) :
               Bind(r, t, IF t_task[t] = "FAILED" THEN "upload" ELSE "touch")
    BY <2>1, <2>3, <1>e, Bound
  <2>4. CASE Reply(r, "unavailable")
    BY <2>1, <2>4, <1>d, Replied
  <2> QED
    BY <1>1, <2>2, <2>3, <2>4 DEF FindExisting
<1>2. CASE Touch(r)
  <2>1. StoresTypeOK' /\ StoresInv' /\ Kept /\ WritesKept(Sessions)
    BY <1>2, <1>b DEF Touch
  <2> QED
    BY <1>2, <2>1, <1>d, Replied DEF Touch
<1>3. CASE InsertTask(r)
  <2>1. CASE /\ UniqueIndexAllows(r)
             /\ t_task' = [t_task EXCEPT ![r] = "QUEUED"]
             /\ request' = [request EXCEPT ![r].pc = "refresh", ![r].task = r,
                                           ![r].loaded = "QUEUED"]
    BY <1>3, <2>1, Inserted DEF InsertTask
  <2>2. CASE UNCHANGED t_task
             /\ (Goto(r, "recover") \/ Reply(r, "unavailable"))
    <3>1. StoresTypeOK' /\ StoresInv' /\ Kept /\ WritesKept(Sessions)
      BY <1>3, <2>2, <1>b DEF InsertTask, stores, results, queues
    <3>2. CASE Goto(r, "recover")
      BY <3>1, <3>2, <1>e, Moved DEF AfterBinding
    <3>3. CASE Reply(r, "unavailable")
      BY <3>1, <3>3, <1>d, Replied
    <3> QED
      BY <2>2, <3>2, <3>3
  <2> QED
    BY <1>3, <2>1, <2>2 DEF InsertTask
<1>8. CASE RefreshTask(r)
  <2>1. StoresTypeOK' /\ StoresInv' /\ Kept /\ WritesKept(Sessions)
    BY <1>8, <1>b DEF RefreshTask
  <2>2. request[r].task \in WithFingerprint(Fingerprint[r])
    BY <1>8, <1>c, <1>f DEF RefreshTask, AfterBinding, RequestInv, WithFingerprint
  <2>3. CASE Bind(r, request[r].task, "upload")
    BY <2>1, <2>2, <2>3, <1>e, Bound
  <2>4. CASE Reply(r, "unavailable")
    BY <2>1, <2>4, <1>d, Replied
  <2> QED
    BY <1>8, <2>3, <2>4 DEF RefreshTask
<1>4. CASE RecoverFromDuplicate(r)
  <2>1. StoresTypeOK' /\ StoresInv' /\ Kept /\ WritesKept(Sessions)
    BY <1>4, <1>b DEF RecoverFromDuplicate
  <2>2. CASE \E t \in WithFingerprint(Fingerprint[r]) : Bind(r, t, "touch")
    BY <2>1, <2>2, <1>e, Bound
  <2>3. CASE Reply(r, "unavailable")
    BY <2>1, <2>3, <1>d, Replied
  <2> QED
    BY <1>4, <2>2, <2>3 DEF RecoverFromDuplicate
<1>5. CASE UploadSource(r)
  <2>t. request[r].task \in Uploads
    BY <1>5, <1>c DEF UploadSource, AfterBinding
  <2>1. Source(request[r].task) \in ObjectKeys
    BY <2>t DEF Source, ObjectKeys
  <2>2. \/ objects' = objects \union {Source(request[r].task)}
        \/ objects' = objects
    BY <1>5 DEF UploadSource, AfterFailedPut
  <2>3. StoresTypeOK' /\ StoresInv' /\ Kept /\ WritesKept(Sessions)
    BY <1>5, <2>1, <2>2, ObjectStored DEF UploadSource
  <2>4. CASE objects' = objects \union {Source(request[r].task)} /\ Goto(r, "publish")
    BY <2>t, <2>3, <2>4, <1>e, <1>f, Moved
  <2>5. CASE Goto(r, "persist_failure")
    BY <2>t, <2>3, <2>5, <1>e, <1>f, Moved
  <2> QED
    BY <1>5, <2>3, <2>4, <2>5 DEF UploadSource
<1>6. CASE PublishParserTask(r)
  <2>t. /\ request[r].task \in Uploads
        /\ TaskPresent(request[r].task)
        /\ Source(request[r].task) \in objects
    BY <1>6, <1>c DEF PublishParserTask, AfterBinding
  <2>1. StoresTypeOK' /\ StoresInv' /\ Kept /\ WritesKept(Sessions)
    BY <1>6, <2>t, ParserTaskPublished DEF PublishParserTask, AfterFailedPush
  <2>2. CASE Goto(r, "requeue") \/ Goto(r, "persist_failure")
    BY <2>t, <2>1, <2>2, <1>e, <1>f, Moved
  <2>3. CASE Reply(r, "accepted")
    BY <2>1, <2>3, <1>d, Replied
  <2> QED
    BY <1>6, <2>2, <2>3 DEF PublishParserTask
<1>7. CASE Requeue(r) \/ PersistDispatchFailure(r)
  <2>t. request[r].task \in Uploads /\ TaskPresent(request[r].task)
    BY <1>7, <1>c DEF Requeue, PersistDispatchFailure, AfterBinding
  <2>1. t_task' \in [Uploads -> TaskStatus \union {Absent}] /\ SameTasks
    <3>1. CASE UNCHANGED t_task
      BY <3>1 DEF StoresTypeOK, SameTasks, TaskPresent
    <3>2. CASE SetLoadedTask(r, "QUEUED") \/ SetLoadedTask(r, "FAILED")
      BY <3>2, <2>t, SetStatus DEF SetLoadedTask, StoresTypeOK, TaskStatus
    <3> QED
      BY <1>7, <3>1, <3>2 DEF Requeue, PersistDispatchFailure
  <2>2. StoresTypeOK' /\ StoresInv' /\ Kept /\ WritesKept(Sessions)
    BY <1>7, <2>1, StatusFrame DEF Requeue, PersistDispatchFailure, Kept
  <2> QED
    BY <1>7, <2>2, <1>d, Replied DEF Requeue, PersistDispatchFailure
<1>9. CASE RequestCrash(r)
  <2>1. StoresTypeOK' /\ StoresInv' /\ Kept /\ WritesKept(Sessions)
    BY <1>9, <1>b DEF RequestCrash
  <2> QED
    BY <1>9, <2>1, <1>d, Replied DEF RequestCrash
<1> QED
  BY <1>1, <1>2, <1>3, <1>4, <1>5, <1>6, <1>7, <1>8, <1>9 DEF RequestStep

----------------------------------------------------------------------------
(* The parser's queues: a message popped, an extractor message published. *)
LEMMA ParserTaskPopped ==
  ASSUME StoresTypeOK, StoresInv, parser_queue # <<>>, parser_queue' = Tail(parser_queue),
         UNCHANGED <<tables, objects, extractor_queue, reextract_queue>>
  PROVE  /\ StoresTypeOK' /\ StoresInv' /\ Kept /\ WritesKept(Sessions)
         /\ Head(parser_queue) \in Uploads /\ TaskPresent(Head(parser_queue))
<1>1. parser_queue \in Seq(Uploads)
  BY DEF StoresTypeOK
<1>2. parser_queue' \in Seq(Uploads) /\ Head(parser_queue) = parser_queue[1]
      /\ 1 \in DOMAIN parser_queue
      /\ \A i \in DOMAIN parser_queue' :
           i + 1 \in DOMAIN parser_queue /\ parser_queue'[i] = parser_queue[i + 1]
  BY <1>1, Popped
<1>3. StoresTypeOK'
  BY <1>2 DEF StoresTypeOK, tables
<1>4. StoresInv'
  BY <1>2 DEF StoresInv, TaskPresent, tables
<1>5. Head(parser_queue) \in Uploads /\ TaskPresent(Head(parser_queue))
  BY <1>2, Messages DEF StoresInv
<1> QED
  BY <1>3, <1>4, <1>5
     DEF Kept, TasksKept, ResultsKept, ObjectsKept, WritesKept, TaskPresent, tables

LEMMA ExtractorTaskPublished ==
  ASSUME StoresTypeOK, StoresInv, NEW m \in ExtractorMessages, TaskPresent(m.task),
         ContentList(m.task) \in objects,
         extractor_queue' = Append(extractor_queue, m) \/ extractor_queue' = extractor_queue,
         UNCHANGED <<tables, objects, parser_queue, reextract_queue>>
  PROVE  StoresTypeOK' /\ StoresInv' /\ Kept /\ WritesKept(Sessions)
<1>1. extractor_queue \in Seq(ExtractorMessages)
  BY DEF StoresTypeOK
<1>2. extractor_queue' \in Seq(ExtractorMessages)
  BY <1>1, Appended
<1>3. \A i \in DOMAIN extractor_queue' :
        \/ extractor_queue'[i] = m
        \/ i \in DOMAIN extractor_queue /\ extractor_queue'[i] = extractor_queue[i]
  BY <1>1, Appended
<1>4. StoresTypeOK'
  BY <1>2 DEF StoresTypeOK, tables
<1>5. StoresInv'
  BY <1>3 DEF StoresInv, TaskPresent, tables
<1> QED
  BY <1>4, <1>5 DEF Kept, TasksKept, ResultsKept, ObjectsKept, WritesKept, TaskPresent, tables

(* The three ways a step changes its parser. *)
LEMMA ParserIdles ==
  ASSUME ParserTypeOK, ParserInv, Kept, NEW w \in Parsers, ParserDone(w)
  PROVE  ParserTypeOK' /\ ParserInv'
<1>1. ParserTypeOK'
  BY DEF ParserTypeOK, ParserDone, IdleParser, ParserPcs
<1>2. \A v \in Parsers : parser'[v] = parser[v] \/ parser'[v] = IdleParser
  BY DEF ParserTypeOK, ParserDone
<1>3. IdleParser.pc = "idle" /\ IdleParser.task = Absent
  BY DEF IdleParser
<1>4. \A v \in Parsers : parser[v].task # Absent => parser[v].task \in Uploads
  BY DEF ParserTypeOK
<1>5. \A v \in Parsers : parser[v].pc = "publish" => parser[v].task # Absent
  BY DEF ParserInv
<1> QED
  BY <1>1, <1>2, <1>3, <1>4, <1>5 DEF ParserInv, Kept, TasksKept, ObjectsKept

LEMMA ParserMoves ==
  ASSUME ParserTypeOK, ParserInv, Kept, NEW w \in Parsers, NEW pc \in ParserPcs,
         ~ParserAt(w, "idle"), ParserGoto(w, pc),
         pc = "publish" => ContentList(parser[w].task) \in objects'
  PROVE  ParserTypeOK' /\ ParserInv'
<1>1. ParserTypeOK'
  BY DEF ParserTypeOK, ParserGoto
<1>2. \A v \in Parsers :
        parser'[v].task = parser[v].task /\ (v = w \/ parser'[v].pc = parser[v].pc)
  BY DEF ParserTypeOK, ParserGoto
<1>3. parser'[w].pc = pc /\ parser[w].task # Absent
  BY DEF ParserTypeOK, ParserGoto, ParserInv, ParserAt
<1>4. \A v \in Parsers : parser[v].task # Absent => parser[v].task \in Uploads
  BY DEF ParserTypeOK
<1>5. \A v \in Parsers : parser[v].pc = "publish" => parser[v].task # Absent
  BY DEF ParserInv
<1> QED
  BY <1>1, <1>2, <1>3, <1>4, <1>5 DEF ParserInv, Kept, TasksKept, ObjectsKept

LEMMA ParserTakes ==
  ASSUME ParserTypeOK, ParserInv, Kept, NEW w \in Parsers, NEW t \in Uploads,
         t_task'[t] # Absent, ParserTypeOK',
         parser'[w].pc # "publish", parser'[w].task = t,
         \A v \in Parsers : v # w => parser'[v] = parser[v]
  PROVE  ParserInv'
<1>1. \A v \in Parsers : parser[v].task # Absent => parser[v].task \in Uploads
  BY DEF ParserTypeOK
<1>2. \A v \in Parsers : parser[v].pc = "publish" => parser[v].task # Absent
  BY DEF ParserInv
<1> QED
  BY <1>1, <1>2, Unrelated DEF ParserInv, Kept, TasksKept, ObjectsKept, TaskPresent

LEMMA ParserStepInv ==
  ASSUME TypeOK, StoresInv, ParserInv,
         NEW w \in Parsers, ParserStep(w) \/ ParserCrash(w)
  PROVE  /\ StoresTypeOK' /\ StoresInv' /\ ParserTypeOK' /\ ParserInv'
         /\ Kept /\ WritesKept(Sessions)
<1> USE DEF TypeOK
<1>b. ASSUME UNCHANGED stores
      PROVE  StoresTypeOK' /\ StoresInv' /\ Kept /\ WritesKept(Sessions)
  BY <1>b, StoresFrame DEF Kept
<1>c. ~ParserAt(w, "idle") =>
        /\ parser[w].task \in Uploads
        /\ TaskPresent(parser[w].task)
        /\ ParserAt(w, "publish") => ContentList(parser[w].task) \in objects
  BY DEF ParserAt, ParserInv, ParserTypeOK
<1>d. {"mark_parsing", "set_parsing", "parse", "store", "publish", "mark_parsed", "set_parsed",
       "mark_failed", "set_failed"} \subseteq ParserPcs
  BY DEF ParserPcs
<1>e. \A pc \in ParserPcs \ {"idle"} : ParserAt(w, pc) => ~ParserAt(w, "idle")
  BY DEF ParserAt
(* One of the _mark_... sessions: the load, and the status write. *)
<1>f. ASSUME NEW from \in ParserPcs \ {"idle"},
             NEW to \in {"set_parsing", "set_parsed", "set_failed"}, ParserLoad(w, from, to)
      PROVE  /\ StoresTypeOK' /\ StoresInv' /\ ParserTypeOK' /\ ParserInv'
             /\ Kept /\ WritesKept(Sessions)
  <2>1. StoresTypeOK' /\ StoresInv' /\ Kept /\ WritesKept(Sessions)
    BY <1>f, <1>b DEF ParserLoad
  <2>t. parser[w].task \in Uploads /\ TaskPresent(parser[w].task)
    BY <1>f, <1>c, <1>e DEF ParserLoad
  <2>2. CASE parser' = [parser EXCEPT ![w].pc = to, ![w].loaded = t_task[parser[w].task]]
    <3>1. t_task[parser[w].task] \in TaskStatus \union {Absent}
      BY <2>t DEF StoresTypeOK
    <3>2. ParserTypeOK'
      BY <2>2, <3>1, <1>d DEF ParserTypeOK
    <3>3. /\ parser'[w].pc # "publish" /\ parser'[w].task = parser[w].task
          /\ \A v \in Parsers : v # w => parser'[v] = parser[v]
      BY <2>2 DEF ParserTypeOK
    <3>4. t_task'[parser[w].task] # Absent
      BY <1>f, <2>t DEF ParserLoad, stores, TaskPresent
    <3> QED
      BY <2>1, <2>t, <3>2, <3>3, <3>4, ParserTakes
  <2>3. CASE ParserDone(w)
    BY <2>1, <2>3, ParserIdles
  <2> QED
    BY <1>f, <2>1, <2>2, <2>3 DEF ParserLoad
<1>g. ASSUME NEW status \in TaskStatus, ~ParserAt(w, "idle"),
             ParserSet(w, status) \/ UNCHANGED t_task,
             UNCHANGED <<results, t_toc, objects, queues>>
      PROVE  StoresTypeOK' /\ StoresInv' /\ Kept /\ WritesKept(Sessions)
  <2>1. t_task' \in [Uploads -> TaskStatus \union {Absent}] /\ SameTasks
    <3>1. CASE UNCHANGED t_task
      BY <3>1 DEF StoresTypeOK, SameTasks, TaskPresent
    <3>2. CASE ParserSet(w, status)
      BY <1>g, <1>c, <3>2, SetStatus DEF ParserSet, StoresTypeOK
    <3> QED
      BY <1>g, <3>1, <3>2
  <2> QED
    BY <1>g, <2>1, StatusFrame DEF Kept
<1>1. CASE ConsumeParserTask(w)
  <2>1. StoresTypeOK' /\ StoresInv' /\ Kept /\ WritesKept(Sessions)
        /\ Head(parser_queue) \in Uploads /\ TaskPresent(Head(parser_queue))
    BY <1>1, ParserTaskPopped DEF ConsumeParserTask
  <2>2. CASE UNCHANGED parser
    BY <2>1, <2>2, ParserFrame DEF Kept
  <2>3. CASE parser' = [parser EXCEPT ![w].pc = "mark_parsing",
                                      ![w].task = Head(parser_queue)]
    <3>1. ParserTypeOK'
      BY <2>1, <2>3, <1>d DEF ParserTypeOK
    <3>2. /\ parser'[w].pc # "publish" /\ parser'[w].task = Head(parser_queue)
          /\ \A v \in Parsers : v # w => parser'[v] = parser[v]
      BY <2>3 DEF ParserTypeOK
    <3>3. t_task'[Head(parser_queue)] # Absent
      BY <1>1, <2>1 DEF ConsumeParserTask, tables, TaskPresent
    <3> QED
      BY <2>1, <3>1, <3>2, <3>3, ParserTakes
  <2> QED
    BY <1>1, <2>1, <2>2, <2>3 DEF ConsumeParserTask
<1>2. CASE MarkParsing(w) \/ MarkParsed(w) \/ MarkFailed(w)
  BY <1>2, <1>d, <1>f DEF MarkParsing, MarkParsed, MarkFailed
<1>3. CASE SetParsing(w)
  <2>1. StoresTypeOK' /\ StoresInv' /\ Kept /\ WritesKept(Sessions)
    BY <1>3, <1>d, <1>e, <1>g DEF SetParsing, TaskStatus
  <2>2. CASE ParserGoto(w, "parse")
    BY <1>3, <2>1, <2>2, <1>d, <1>e, ParserMoves DEF SetParsing
  <2>3. CASE ParserDone(w)
    BY <2>1, <2>3, ParserIdles
  <2> QED
    BY <1>3, <2>1, <2>2, <2>3 DEF SetParsing
<1>4. CASE SetParsed(w) \/ SetFailed(w)
  <2>1. ASSUME NEW from \in ParserPcs \ {"idle"}, NEW status \in TaskStatus,
               ParserFinish(w, from, status)
        PROVE  /\ StoresTypeOK' /\ StoresInv' /\ ParserTypeOK' /\ ParserInv'
               /\ Kept /\ WritesKept(Sessions)
    <3>1. StoresTypeOK' /\ StoresInv' /\ Kept /\ WritesKept(Sessions)
      BY <2>1, <1>e, <1>g DEF ParserFinish
    <3> QED
      BY <2>1, <3>1, ParserIdles DEF ParserFinish
  <2>2. "PARSED" \in TaskStatus /\ "FAILED" \in TaskStatus
    BY DEF TaskStatus
  <2> QED
    BY <1>4, <2>1, <2>2, <1>d DEF SetParsed, SetFailed
<1>5. CASE Parse(w)
  <2>1. StoresTypeOK' /\ StoresInv' /\ Kept /\ WritesKept(Sessions)
    BY <1>5, <1>b DEF Parse
  <2> QED
    BY <1>5, <2>1, <1>d, <1>e, ParserMoves DEF Parse
<1>6. CASE StoreContentList(w)
  <2>t. parser[w].task \in Uploads
    BY <1>6, <1>c, <1>d, <1>e DEF StoreContentList
  <2>1. ContentList(parser[w].task) \in ObjectKeys
    BY <2>t DEF ContentList, ObjectKeys
  <2>2. \/ objects' = objects \union {ContentList(parser[w].task)}
        \/ objects' = objects
    BY <1>6 DEF StoreContentList, AfterFailedPut
  <2>3. StoresTypeOK' /\ StoresInv' /\ Kept /\ WritesKept(Sessions)
    BY <1>6, <2>1, <2>2, ObjectStored DEF StoreContentList
  <2>4. CASE objects' = objects \union {ContentList(parser[w].task)} /\ ParserGoto(w, "publish")
    BY <1>6, <2>3, <2>4, <1>d, <1>e, ParserMoves DEF StoreContentList
  <2>5. CASE ParserGoto(w, "mark_failed")
    BY <1>6, <2>3, <2>5, <1>d, <1>e, ParserMoves DEF StoreContentList
  <2> QED
    BY <1>6, <2>3, <2>4, <2>5 DEF StoreContentList
<1>7. CASE PublishExtractorTask(w)
  <2> DEFINE m == ExtractorMessage(w)
  <2>1. m \in ExtractorMessages /\ TaskPresent(m.task) /\ ContentList(m.task) \in objects
    BY <1>7, <1>c, <1>d, <1>e DEF PublishExtractorTask, ExtractorMessage, ExtractorMessages
  <2>2. extractor_queue' = Append(extractor_queue, m) \/ extractor_queue' = extractor_queue
    BY <1>7 DEF PublishExtractorTask, AfterFailedPush
  <2>3. StoresTypeOK' /\ StoresInv' /\ Kept /\ WritesKept(Sessions)
    <3> HIDE DEF m
    <3> QED
      BY <1>7, <2>1, <2>2, ExtractorTaskPublished DEF PublishExtractorTask
  <2>4. ParserGoto(w, "mark_parsed") \/ ParserGoto(w, "mark_failed")
    BY <1>7 DEF PublishExtractorTask
  <2> QED
    BY <1>7, <2>3, <2>4, <1>d, <1>e, ParserMoves DEF PublishExtractorTask
<1>8. CASE ParserCrash(w)
  <2>1. StoresTypeOK' /\ StoresInv' /\ Kept /\ WritesKept(Sessions)
    BY <1>8, <1>b DEF ParserCrash
  <2> QED
    BY <1>8, <2>1, ParserIdles DEF ParserCrash
<1> QED
  BY <1>1, <1>2, <1>3, <1>4, <1>5, <1>6, <1>7, <1>8 DEF ParserStep

----------------------------------------------------------------------------
(* What the extractor does to the stores. *)
LEMMA ReextractTaskPopped ==
  ASSUME StoresTypeOK, StoresInv, reextract_queue # <<>>,
         reextract_queue' = Tail(reextract_queue),
         UNCHANGED <<tables, objects, parser_queue, extractor_queue>>
  PROVE  /\ StoresTypeOK' /\ StoresInv' /\ Kept /\ WritesKept(Sessions)
         /\ Head(reextract_queue) \in ExtractorMessages
         /\ TaskPresent(Head(reextract_queue).task)
<1>1. reextract_queue \in Seq(ExtractorMessages)
  BY DEF StoresTypeOK
<1>2. reextract_queue' \in Seq(ExtractorMessages)
      /\ Head(reextract_queue) = reextract_queue[1] /\ 1 \in DOMAIN reextract_queue
      /\ \A i \in DOMAIN reextract_queue' :
           i + 1 \in DOMAIN reextract_queue /\ reextract_queue'[i] = reextract_queue[i + 1]
  BY <1>1, Popped
<1>3. StoresTypeOK'
  BY <1>2 DEF StoresTypeOK, tables
<1>4. StoresInv'
  BY <1>2 DEF StoresInv, TaskPresent, tables
<1>5. Head(reextract_queue) \in ExtractorMessages /\ TaskPresent(Head(reextract_queue).task)
  BY <1>1, <1>2 DEF StoresInv
<1> QED
  BY <1>3, <1>4, <1>5
     DEF Kept, TasksKept, ResultsKept, ObjectsKept, WritesKept, TaskPresent, tables

LEMMA ExtractorTaskPopped ==
  ASSUME StoresTypeOK, StoresInv, extractor_queue # <<>>,
         extractor_queue' = Tail(extractor_queue),
         UNCHANGED <<tables, objects, parser_queue, reextract_queue>>
  PROVE  /\ StoresTypeOK' /\ StoresInv' /\ Kept /\ WritesKept(Sessions)
         /\ Head(extractor_queue) \in ExtractorMessages
         /\ TaskPresent(Head(extractor_queue).task)
<1>1. extractor_queue \in Seq(ExtractorMessages)
  BY DEF StoresTypeOK
<1>2. extractor_queue' \in Seq(ExtractorMessages)
      /\ Head(extractor_queue) = extractor_queue[1] /\ 1 \in DOMAIN extractor_queue
      /\ \A i \in DOMAIN extractor_queue' :
           i + 1 \in DOMAIN extractor_queue /\ extractor_queue'[i] = extractor_queue[i + 1]
  BY <1>1, Popped
<1>3. StoresTypeOK'
  BY <1>2 DEF StoresTypeOK, tables
<1>4. StoresInv'
  BY <1>2 DEF StoresInv, TaskPresent, tables
<1>5. Head(extractor_queue) \in ExtractorMessages /\ TaskPresent(Head(extractor_queue).task)
  BY <1>1, <1>2 DEF StoresInv
<1> QED
  BY <1>3, <1>4, <1>5
     DEF Kept, TasksKept, ResultsKept, ObjectsKept, WritesKept, TaskPresent, tables

(* Only logical_tables.json is ever deleted. *)
LEMMA LogicalTablesDeleted ==
  ASSUME StoresTypeOK, StoresInv, NEW t, objects' = objects \ {LogicalTables(t)},
         UNCHANGED <<tables, queues>>
  PROVE  StoresTypeOK' /\ StoresInv' /\ Kept /\ WritesKept(Sessions)
<1>1. \A u : Source(u) # LogicalTables(t) /\ ContentList(u) # LogicalTables(t)
  BY DEF Source, ContentList, LogicalTables
<1>2. StoresTypeOK'
  BY DEF StoresTypeOK, tables, queues
<1>3. StoresInv'
  BY <1>1 DEF StoresInv, TaskPresent, tables, queues
<1> QED
  BY <1>1, <1>2, <1>3
     DEF Kept, TasksKept, ResultsKept, ObjectsKept, WritesKept, TaskPresent, tables

(* A session's private writes, its rollback and its commit. *)
LEMMA RowWritten ==
  ASSUME StoresTypeOK, StoresInv, NEW s \in Sessions, NEW i \in RowIds, NEW row \in Rows,
         TaskPresent(i[1]), WriteRow(s, i, row),
         UNCHANGED <<t_task, t_result, t_toc, objects, queues>>
  PROVE  /\ StoresTypeOK' /\ StoresInv' /\ Kept /\ WritesKept(Sessions \ {s})
         /\ \A j \in RowIds : j # i => uncommitted'[s][j] = uncommitted[s][j]
<1>1. StoresTypeOK'
  BY DEF StoresTypeOK, WriteRow, queues
<1>2. WritesKept(Sessions \ {s})
      /\ \A j \in RowIds : j # i => uncommitted'[s][j] = uncommitted[s][j]
  BY DEF StoresTypeOK, WriteRow, WritesKept
<1>3. StoresInv'
  BY <1>2 DEF StoresInv, TaskPresent, WritesKept, queues
<1> QED
  BY <1>1, <1>2, <1>3 DEF Kept, TasksKept, ResultsKept, ObjectsKept, TaskPresent

LEMMA RolledBack ==
  ASSUME StoresTypeOK, StoresInv, NEW s \in Sessions, Rollback(s),
         UNCHANGED <<t_task, t_toc, objects, queues>>
  PROVE  /\ StoresTypeOK' /\ StoresInv' /\ Kept /\ WritesKept(Sessions \ {s})
         /\ \A i \in RowIds : uncommitted'[s][i] = Absent
<1>1. StoresTypeOK'
  BY DEF StoresTypeOK, Rollback, NoWrites, queues
<1>2. WritesKept(Sessions \ {s}) /\ \A i \in RowIds : uncommitted'[s][i] = Absent
  BY DEF StoresTypeOK, Rollback, NoWrites, WritesKept
<1>3. StoresInv'
  BY <1>2 DEF StoresInv, TaskPresent, Rollback, WritesKept, queues
<1> QED
  BY <1>1, <1>2, <1>3 DEF Kept, TasksKept, ResultsKept, ObjectsKept, TaskPresent, Rollback

LEMMA Committed ==
  ASSUME StoresTypeOK, StoresInv, NEW s \in Sessions, CommitRows(s),
         t_task' \in [Uploads -> TaskStatus \union {Absent}], SameTasks,
         t_toc' \in SUBSET (Uploads \X Extractors), UNCHANGED <<objects, queues>>
  PROVE  /\ StoresTypeOK' /\ StoresInv' /\ Kept /\ WritesKept(Sessions \ {s})
         /\ \A i \in RowIds : uncommitted'[s][i] = Absent
<1>1. \A i \in RowIds : Visible(s, i) \in Rows \union {Absent}
  BY DEF StoresTypeOK, Visible
<1>2. StoresTypeOK'
  BY <1>1 DEF StoresTypeOK, CommitRows, NoWrites, queues
<1>3. WritesKept(Sessions \ {s}) /\ \A i \in RowIds : uncommitted'[s][i] = Absent
  BY DEF StoresTypeOK, CommitRows, NoWrites, WritesKept
<1>4. \A i \in RowIds : t_result'[i] = Visible(s, i)
  BY DEF CommitRows
<1>5. \A i \in RowIds : t_result[i] # Absent => t_result'[i] # Absent
  BY <1>4 DEF Visible
<1>6. \A i \in RowIds : t_result'[i] # Absent => t_result[i] # Absent \/ uncommitted[s][i] # Absent
  BY <1>4 DEF Visible
<1>7. \A i \in RowIds : i[1] \in Uploads
  BY DEF RowIds
<1>8. StoresInv'
  BY <1>3, <1>6, <1>7, Messages DEF StoresInv, SameTasks, WritesKept, queues
<1> QED
  BY <1>2, <1>3, <1>5, <1>8 DEF Kept, TasksKept, ResultsKept, ObjectsKept, SameTasks

----------------------------------------------------------------------------
(* Ways a step changes its extractor. *)
NothingWritten(s) == \A i \in RowIds : uncommitted'[s][i] = Absent

LEMMA ExtractorChanges ==
  ASSUME ExtractorTypeOK, ExtractorInv, Kept, NEW x \in Extractors,
         WritesKept(Sessions \ {x}), RunInv(x)',
         \A y \in Extractors : y # x => extractor'[y] = extractor[y]
  PROVE  ExtractorInv'
<1>1. \A y \in Extractors : extractor[y].task # Absent => extractor[y].task \in Uploads
  BY DEF ExtractorTypeOK, ExtractorRuns
<1>2. \A y \in Extractors : y # x => y \in Sessions \ {x}
  BY DEF Sessions
<1>3. \A y \in Extractors : y # x => RunInv(y)'
  BY <1>1, <1>2 DEF ExtractorInv, RunInv, Kept, TasksKept, ResultsKept, WritesKept, TaskPresent
<1> QED
  BY <1>3 DEF ExtractorInv

LEMMA ExtractorIdles ==
  ASSUME ExtractorTypeOK, ExtractorInv, Kept, NEW x \in Extractors,
         WritesKept(Sessions \ {x}), NothingWritten(x), ExtractorDone(x)
  PROVE  ExtractorTypeOK' /\ ExtractorInv'
<1>1. ExtractorTypeOK'
  BY DEF ExtractorTypeOK, ExtractorRuns, ExtractorDone, PollingExtractor, ExtractorPcs
<1>2. extractor'[x] = PollingExtractor /\ \A y \in Extractors : y # x => extractor'[y] = extractor[y]
  BY DEF ExtractorTypeOK, ExtractorDone
<1>3. PollingExtractor.pc = "poll_reextract" /\ PollingExtractor.task = Absent
  BY DEF PollingExtractor
<1>4. RunInv(x)'
  BY <1>2, <1>3 DEF RunInv, NothingWritten
<1> QED
  BY <1>1, <1>2, <1>4, ExtractorChanges

LEMMA ExtractorMoves ==
  ASSUME ExtractorTypeOK, ExtractorInv, Kept, NEW x \in Extractors,
         WritesKept(Sessions \ {x}), NEW pc \in ExtractorPcs \ {"flush", "commit"},
         ExtractorGoto(x, pc),
         pc = "poll_extract" \/ extractor[x].task # Absent,
         \/ NothingWritten(x)
         \/ pc \in InTransaction /\ uncommitted'[x] = uncommitted[x]
  PROVE  ExtractorTypeOK' /\ ExtractorInv'
<1>1. ExtractorTypeOK'
  BY DEF ExtractorTypeOK, ExtractorRuns, ExtractorGoto
<1>2. /\ extractor'[x].pc = pc /\ extractor'[x].task = extractor[x].task
      /\ extractor'[x].todo = extractor[x].todo
      /\ \A y \in Extractors : y # x => extractor'[y] = extractor[y]
  BY DEF ExtractorTypeOK, ExtractorRuns, ExtractorGoto
<1>3. extractor[x].task # Absent =>
        extractor[x].task \in Uploads /\ t_task'[extractor[x].task] # Absent
  BY DEF ExtractorTypeOK, ExtractorRuns, ExtractorInv, RunInv, Kept, TasksKept, TaskPresent
<1>4. RunInv(x)'
  BY <1>2, <1>3 DEF ExtractorInv, RunInv, NothingWritten, TaskPresent
<1> QED
  BY <1>1, <1>2, <1>4, ExtractorChanges

(* A step that leaves t_extracted_result alone, outside a transaction. *)
LEMMA NothingToWrite ==
  ASSUME ExtractorInv, NEW x \in Extractors, extractor[x].pc \notin InTransaction,
         WritesKept(Sessions)
  PROVE  NothingWritten(x) /\ WritesKept(Sessions \ {x})
BY DEF ExtractorInv, RunInv, WritesKept, NothingWritten, Sessions

LEMMA MessageTaken ==
  ASSUME ExtractorTypeOK, ExtractorInv, Kept, NEW x \in Extractors,
         NEW m \in ExtractorMessages, t_task'[m.task] # Absent,
         WritesKept(Sessions \ {x}), NothingWritten(x), TakeMessage(x, m)
  PROVE  ExtractorTypeOK' /\ ExtractorInv'
<1>1. m.task \in Uploads /\ m.codes \subseteq Rules
  BY DEF ExtractorMessages
<1>2. ExtractorTypeOK'
  <2>1. extractor' = [extractor EXCEPT ![x] = [extractor[x] EXCEPT
           !.pc = "download", !.task = m.task, !.codes = m.codes]]
    BY DEF ExtractorTypeOK, ExtractorRuns, TakeMessage
  <2>2. extractor[x] \in ExtractorRuns
    BY DEF ExtractorTypeOK
  <2>3. [extractor[x] EXCEPT !.pc = "download", !.task = m.task, !.codes = m.codes]
          \in ExtractorRuns
    BY <1>1, <2>2 DEF ExtractorRuns, ExtractorPcs
  <2> QED
    BY <2>1, <2>3 DEF ExtractorTypeOK
<1>3. /\ extractor'[x].pc = "download" /\ extractor'[x].task = m.task
      /\ \A y \in Extractors : y # x => extractor'[y] = extractor[y]
  BY DEF ExtractorTypeOK, ExtractorRuns, TakeMessage
<1>4. RunInv(x)'
  BY <1>1, <1>3, Unrelated DEF RunInv, NothingWritten, TaskPresent
<1> QED
  BY <1>2, <1>3, <1>4, ExtractorChanges

LEMMA ExtractionBegun ==
  ASSUME TypeOK, ExtractorInv, Kept, NEW x \in Extractors, BeginExtraction(x),
         WritesKept(Sessions)
  PROVE  ExtractorTypeOK' /\ ExtractorInv'
<1> USE DEF TypeOK
<1> DEFINE t == extractor[x].task
           todo == SelectedRules(extractor[x].codes)
           c == [extractor[x] EXCEPT !.pc = "delete_toc", !.loaded = t_task[t],
                                     !.todo = todo]
<1>1. extractor[x] \in ExtractorRuns /\ extractor[x].pc = "begin"
  BY DEF BeginExtraction, ExtractorAt, ExtractorTypeOK
<1>2. t \in Uploads /\ TaskPresent(t)
  BY <1>1 DEF ExtractorInv, RunInv, ExtractorRuns
<1>3. t_task[t] \in TaskStatus \union {Absent}
  BY <1>2 DEF StoresTypeOK
<1>4. todo \in SUBSET Rules
  BY <1>1 DEF SelectedRules, ExtractorRuns
<1>5. extractor' = [extractor EXCEPT ![x] = c]
  BY DEF BeginExtraction, ExtractorTypeOK, ExtractorRuns
<1>6. c \in ExtractorRuns
  <2> HIDE DEF t, todo
  <2> QED
    BY <1>1, <1>3, <1>4 DEF ExtractorRuns, ExtractorPcs
<1>7. c.pc = "delete_toc" /\ c.task = t
  BY <1>1 DEF ExtractorRuns
<1>8. ExtractorTypeOK' /\ extractor'[x] = c
      /\ \A y \in Extractors : y # x => extractor'[y] = extractor[y]
  <2> HIDE DEF c
  <2> QED
    BY <1>5, <1>6 DEF ExtractorTypeOK
<1>9. NothingWritten(x) /\ WritesKept(Sessions \ {x})
  BY <1>1, NothingToWrite DEF InTransaction
<1>10. t_task'[t] # Absent
  BY <1>2 DEF Kept, TasksKept, TaskPresent
<1>11. RunInv(x)'
  <2> HIDE DEF c
  <2> QED
    BY <1>2, <1>7, <1>8, <1>9, <1>10, Unrelated DEF RunInv, NothingWritten, TaskPresent
<1> QED
  BY <1>8, <1>9, <1>11, ExtractorChanges

LEMMA OldTocFound ==
  ASSUME TypeOK, ExtractorInv, Kept, NEW x \in Extractors, DeleteToc(x),
         WritesKept(Sessions)
  PROVE  ExtractorTypeOK' /\ ExtractorInv'
<1> USE DEF TypeOK
<1> DEFINE t == extractor[x].task
           old == {c \in t_toc : c[1] = t}
           c == [extractor[x] EXCEPT !.pc = "replace_toc", !.old_toc = old]
<1>1. extractor[x] \in ExtractorRuns /\ extractor[x].pc = "delete_toc"
  BY DEF DeleteToc, ExtractorAt, ExtractorTypeOK
<1>2. t \in Uploads /\ TaskPresent(t)
  BY <1>1 DEF ExtractorInv, RunInv, ExtractorRuns
<1>3. old \in SUBSET (Uploads \X Extractors)
  BY DEF StoresTypeOK
<1>4. extractor' = [extractor EXCEPT ![x] = c]
  BY DEF DeleteToc, ExtractorTypeOK, ExtractorRuns
<1>5. c \in ExtractorRuns
  <2> HIDE DEF t, old
  <2> QED
    BY <1>1, <1>3 DEF ExtractorRuns, ExtractorPcs
<1>6. c.pc = "replace_toc" /\ c.task = t /\ c.todo = extractor[x].todo
  BY <1>1 DEF ExtractorRuns
<1>7. ExtractorTypeOK' /\ extractor'[x] = c
      /\ \A y \in Extractors : y # x => extractor'[y] = extractor[y]
  <2> HIDE DEF c
  <2> QED
    BY <1>4, <1>5 DEF ExtractorTypeOK
<1>8. uncommitted'[x] = uncommitted[x] /\ WritesKept(Sessions \ {x})
  BY DEF WritesKept, Sessions
<1>9. t_task'[t] # Absent
  BY <1>2 DEF Kept, TasksKept, TaskPresent
<1>10. RunInv(x)'
  <2> HIDE DEF c
  <2> QED
    BY <1>1, <1>2, <1>6, <1>7, <1>8, <1>9, Unrelated
       DEF ExtractorInv, RunInv, InTransaction, TaskPresent
<1> QED
  BY <1>7, <1>8, <1>10, ExtractorChanges

(* The row SelectResult chooses is committed or its own to insert: this run has not
   written a row of a rule it still has to do.                                     *)
LEMMA ResultSelected ==
  ASSUME TypeOK, ExtractorInv, Kept, NEW x \in Extractors, SelectResult(x),
         WritesKept(Sessions)
  PROVE  ExtractorTypeOK' /\ ExtractorInv'
<1> USE DEF TypeOK
<1>1. extractor[x] \in ExtractorRuns /\ extractor[x].pc = "upsert"
  BY DEF SelectResult, ExtractorAt, ExtractorTypeOK
<1> DEFINE t == extractor[x].task
<1>2. t \in Uploads /\ TaskPresent(t)
  BY <1>1 DEF ExtractorInv, RunInv, ExtractorRuns
<1>3. PICK r \in NextRules(extractor[x].todo), review \in {NeedsReview(o) : o \in Outcomes} :
        \E i \in IF VisibleRows(x, t, r) = {} THEN {<<t, r, x>>} ELSE VisibleRows(x, t, r) :
          extractor' = [extractor EXCEPT
              ![x].pc = "flush", ![x].todo = @ \ {r}, ![x].row = i,
              ![x].loaded_row = Visible(x, i), ![x].review = review,
              ![x].any_review = @ \/ review]
  BY DEF SelectResult
<1>4. PICK i \in IF VisibleRows(x, t, r) = {} THEN {<<t, r, x>>} ELSE VisibleRows(x, t, r) :
        extractor' = [extractor EXCEPT
              ![x].pc = "flush", ![x].todo = @ \ {r}, ![x].row = i,
              ![x].loaded_row = Visible(x, i), ![x].review = review,
              ![x].any_review = @ \/ review]
  BY <1>3
<1>5. r \in extractor[x].todo /\ r \in Rules
  BY <1>1 DEF NextRules, ExtractorRuns
<1>6. review \in BOOLEAN
  <2>1. \A o \in Outcomes : NeedsReview(o) \in BOOLEAN
    BY DEF NeedsReview, Score, ReviewThreshold
  <2> QED
    BY <2>1
<1>7. i \in RowIds /\ i[1] = t /\ i[2] = r
  BY <1>2, <1>5 DEF VisibleRows, RowIds
<1>8. Visible(x, i) \in Rows \union {Absent}
  BY <1>7 DEF Visible, StoresTypeOK, Sessions
<1>9. Visible(x, i) # Absent => t_result[i] # Absent
  BY <1>5, <1>7 DEF Visible, ExtractorInv, RunInv
<1> DEFINE todo == extractor[x].todo \ {r}
           any == extractor[x].any_review \/ review
           c == [extractor[x] EXCEPT
                   !.pc = "flush", !.todo = todo, !.row = i,
                   !.loaded_row = Visible(x, i), !.review = review, !.any_review = any]
<1>10. extractor' = [extractor EXCEPT ![x] = c]
  BY <1>4 DEF ExtractorTypeOK, ExtractorRuns
<1>11. c \in ExtractorRuns
  <2>1. any \in BOOLEAN
    OBVIOUS
  <2>2. todo \in SUBSET Rules
    BY <1>1 DEF ExtractorRuns
  <2>3. "flush" \in ExtractorPcs
    BY DEF ExtractorPcs
  <2> HIDE DEF t, todo, any
  <2> QED
    BY <1>1, <1>6, <1>7, <1>8, <2>1, <2>2, <2>3 DEF ExtractorRuns
<1>12. /\ c.pc = "flush" /\ c.task = t /\ c.todo = extractor[x].todo \ {r} /\ c.row = i
       /\ c.loaded_row = Visible(x, i)
  BY <1>1 DEF ExtractorRuns
<1> HIDE DEF c
<1>13. ExtractorTypeOK' /\ extractor'[x] = c
       /\ \A y \in Extractors : y # x => extractor'[y] = extractor[y]
  BY <1>10, <1>11 DEF ExtractorTypeOK
<1>14. t_task'[t] # Absent /\ (Visible(x, i) # Absent => t_result'[i] # Absent)
  BY <1>2, <1>7, <1>9 DEF Kept, TasksKept, ResultsKept, TaskPresent
<1>15. uncommitted'[x] = uncommitted[x] /\ WritesKept(Sessions \ {x})
  BY DEF WritesKept, Sessions
<1>16. RunInv(x)'
  <2>1. \A j \in RowIds : uncommitted'[x][j] # Absent =>
          j[1] = t /\ j[2] \notin extractor[x].todo \ {r}
    BY <1>15 DEF ExtractorInv, RunInv
  <2> HIDE DEF t
  <2> QED
    BY <1>2, <1>5, <1>7, <1>12, <1>13, <1>14, <2>1, Unrelated
       DEF RunInv, InTransaction, TaskPresent
<1> QED
  BY <1>13, <1>15, <1>16, ExtractorChanges

(* An upsert writes a row: the one it updates is committed and stays. *)
LEMMA UpsertedIsRow ==
  ASSUME TypeOK, ExtractorInv, NEW x \in Extractors, extractor[x].pc = "flush"
  PROVE  UpsertedRow(x) \in Rows
<1>1. extractor[x] \in ExtractorRuns /\ extractor[x].row \in RowIds
  BY DEF TypeOK, ExtractorTypeOK, ExtractorInv, RunInv
<1>2. CASE extractor[x].loaded_row = Absent
  BY <1>1, <1>2 DEF UpsertedRow, Rows, ExtractorRuns
<1>3. CASE extractor[x].loaded_row # Absent
  <2>1. t_result[extractor[x].row] \in Rows
    BY <1>1, <1>3 DEF ExtractorInv, RunInv, TypeOK, StoresTypeOK
  <2> QED
    BY <1>1, <1>3, <2>1 DEF UpsertedRow, Rows, Flushed, ExtractorRuns
<1> QED
  BY <1>2, <1>3

LEMMA ResultFlushed ==
  ASSUME TypeOK, StoresInv, ExtractorInv, NEW x \in Extractors, FlushResult(x)
  PROVE  /\ StoresTypeOK' /\ StoresInv' /\ ExtractorTypeOK' /\ ExtractorInv'
         /\ Kept /\ WritesKept(Sessions \ {x})
<1> USE DEF TypeOK
<1> DEFINE t == extractor[x].task
           row == extractor[x].row
           pc == IF extractor[x].todo = {} THEN "evaluate" ELSE "upsert"
           c == [extractor[x] EXCEPT !.pc = pc, !.row = Absent, !.loaded_row = Absent,
                                     !.review = FALSE]
<1>1. extractor[x] \in ExtractorRuns /\ extractor[x].pc = "flush"
  BY DEF FlushResult, ExtractorAt, ExtractorTypeOK
<1>2. t \in Uploads /\ TaskPresent(t)
  BY <1>1 DEF ExtractorInv, RunInv, ExtractorRuns
<1>3. row \in RowIds /\ row[1] = t /\ row[2] \notin extractor[x].todo
  BY <1>1 DEF ExtractorInv, RunInv
<1>4. UpsertedRow(x) \in Rows
  BY <1>1, UpsertedIsRow
<1>5. x \in Sessions
  BY DEF Sessions
<1>6. /\ StoresTypeOK' /\ StoresInv' /\ Kept /\ WritesKept(Sessions \ {x})
      /\ \A j \in RowIds : j # row => uncommitted'[x][j] = uncommitted[x][j]
  <2>1. TaskPresent(row[1])
    BY <1>2, <1>3
  <2> QED
    BY <1>3, <1>4, <1>5, <2>1, RowWritten DEF FlushResult
<1>7. extractor' = [extractor EXCEPT ![x] = c]
  BY DEF FlushResult, ExtractorTypeOK, ExtractorRuns
<1>8. c \in ExtractorRuns
  <2>1. pc \in ExtractorPcs
    BY DEF ExtractorPcs
  <2> HIDE DEF pc
  <2> QED
    BY <1>1, <2>1 DEF ExtractorRuns
<1>9. c.pc = pc /\ c.task = t /\ c.todo = extractor[x].todo
  BY <1>1 DEF ExtractorRuns
<1> HIDE DEF c
<1>10. ExtractorTypeOK' /\ extractor'[x] = c
       /\ \A y \in Extractors : y # x => extractor'[y] = extractor[y]
  BY <1>7, <1>8 DEF ExtractorTypeOK
<1>11. RunInv(x)'
  <2>1. \A j \in RowIds : uncommitted'[x][j] # Absent =>
          j[1] = t /\ j[2] \notin extractor[x].todo
    BY <1>3, <1>6 DEF ExtractorInv, RunInv
  <2>2. t_task'[t] # Absent
    BY <1>2, <1>6 DEF Kept, TasksKept, TaskPresent
  <2>3. pc \in {"evaluate", "upsert"}
    OBVIOUS
  <2> HIDE DEF t, pc
  <2> QED
    BY <1>2, <1>9, <1>10, <2>1, <2>2, <2>3, Unrelated DEF RunInv, InTransaction, TaskPresent
<1> QED
  BY <1>6, <1>10, <1>11, ExtractorChanges

LEMMA StatusEvaluated ==
  ASSUME TypeOK, ExtractorInv, Kept, NEW x \in Extractors, EvaluateStatus(x),
         WritesKept(Sessions)
  PROVE  ExtractorTypeOK' /\ ExtractorInv'
<1> USE DEF TypeOK
<1>1. extractor[x] \in ExtractorRuns /\ extractor[x].pc = "evaluate"
  BY DEF EvaluateStatus, ExtractorAt, ExtractorTypeOK
<1>2. PICK verdict \in FinalStatus :
        extractor' = [extractor EXCEPT ![x].pc = "commit", ![x].verdict = verdict]
  BY DEF EvaluateStatus, FinalStatus
<1> DEFINE t == extractor[x].task
           c == [extractor[x] EXCEPT !.pc = "commit", !.verdict = verdict]
<1>3. t \in Uploads /\ TaskPresent(t) /\ verdict # Absent
  BY <1>1, Unrelated DEF ExtractorInv, RunInv, ExtractorRuns, FinalStatus, TaskStatus
<1>4. extractor' = [extractor EXCEPT ![x] = c] /\ c \in ExtractorRuns
  BY <1>1, <1>2 DEF ExtractorTypeOK, ExtractorRuns, ExtractorPcs
<1>5. c.pc = "commit" /\ c.task = t /\ c.todo = extractor[x].todo /\ c.verdict = verdict
  BY <1>1 DEF ExtractorRuns
<1> HIDE DEF c
<1>6. ExtractorTypeOK' /\ extractor'[x] = c
      /\ \A y \in Extractors : y # x => extractor'[y] = extractor[y]
  BY <1>4 DEF ExtractorTypeOK
<1>7. uncommitted'[x] = uncommitted[x] /\ WritesKept(Sessions \ {x})
  BY DEF WritesKept, Sessions
<1>8. t_task'[t] # Absent
  BY <1>3 DEF Kept, TasksKept, TaskPresent
<1>9. RunInv(x)'
  <2>1. \A j \in RowIds : uncommitted'[x][j] # Absent =>
          j[1] = t /\ j[2] \notin extractor[x].todo
    BY <1>7 DEF ExtractorInv, RunInv
  <2> HIDE DEF t
  <2> QED
    BY <1>3, <1>5, <1>6, <1>8, <2>1, Unrelated DEF RunInv, InTransaction, TaskPresent
<1> QED
  BY <1>6, <1>7, <1>9, ExtractorChanges

LEMMA FailureLoaded ==
  ASSUME TypeOK, ExtractorInv, Kept, NEW x \in Extractors, ExtractorAt(x, "mark_failed"),
         extractor' = [extractor EXCEPT ![x].pc = "set_failed",
                                        ![x].loaded = t_task[extractor[x].task]],
         WritesKept(Sessions)
  PROVE  ExtractorTypeOK' /\ ExtractorInv'
<1> USE DEF TypeOK
<1> DEFINE t == extractor[x].task
           c == [extractor[x] EXCEPT !.pc = "set_failed", !.loaded = t_task[t]]
<1>1. extractor[x] \in ExtractorRuns /\ extractor[x].pc = "mark_failed"
  BY DEF ExtractorAt, ExtractorTypeOK
<1>2. t \in Uploads /\ TaskPresent(t)
  BY <1>1 DEF ExtractorInv, RunInv, ExtractorRuns
<1>3. t_task[t] \in TaskStatus \union {Absent}
  BY <1>2 DEF StoresTypeOK
<1>4. extractor' = [extractor EXCEPT ![x] = c]
  BY DEF ExtractorTypeOK, ExtractorRuns
<1>5. c \in ExtractorRuns
  <2> HIDE DEF t
  <2> QED
    BY <1>1, <1>3 DEF ExtractorRuns, ExtractorPcs
<1>6. c.pc = "set_failed" /\ c.task = t
  BY <1>1 DEF ExtractorRuns
<1> HIDE DEF c
<1>7. ExtractorTypeOK' /\ extractor'[x] = c
      /\ \A y \in Extractors : y # x => extractor'[y] = extractor[y]
  BY <1>4, <1>5 DEF ExtractorTypeOK
<1>8. NothingWritten(x) /\ WritesKept(Sessions \ {x})
  BY <1>1, NothingToWrite DEF InTransaction
<1>9. t_task'[t] # Absent
  BY <1>2 DEF Kept, TasksKept, TaskPresent
<1>10. RunInv(x)'
  BY <1>2, <1>6, <1>7, <1>8, <1>9, Unrelated DEF RunInv, NothingWritten, TaskPresent
<1> QED
  BY <1>7, <1>8, <1>10, ExtractorChanges

LEMMA ExtractorStepInv ==
  ASSUME TypeOK, StoresInv, ExtractorInv,
         NEW x \in Extractors, ExtractorStep(x) \/ ExtractorCrash(x)
  PROVE  /\ StoresTypeOK' /\ StoresInv' /\ ExtractorTypeOK' /\ ExtractorInv'
         /\ Kept /\ WritesKept(Sessions \ {x})
<1> USE DEF TypeOK
<1> DEFINE StoresOK == StoresTypeOK' /\ StoresInv' /\ Kept
           Goal == StoresOK /\ ExtractorTypeOK' /\ ExtractorInv' /\ WritesKept(Sessions \ {x})
<1>a. x \in Sessions /\ (WritesKept(Sessions) => WritesKept(Sessions \ {x}))
  BY DEF Sessions, WritesKept
<1>b. ASSUME UNCHANGED stores
      PROVE  StoresOK /\ WritesKept(Sessions)
  BY <1>b, StoresFrame DEF Kept
<1>c. extractor[x].pc \notin {"poll_reextract", "poll_extract"} =>
        extractor[x].task # Absent /\ extractor[x].task \in Uploads
        /\ TaskPresent(extractor[x].task)
  BY DEF ExtractorInv, RunInv, ExtractorTypeOK, ExtractorRuns
(* Outside a transaction: to another such step, or back to polling. *)
<1>d. ASSUME StoresOK, WritesKept(Sessions), extractor[x].pc \notin InTransaction,
             NEW pc \in {"poll_extract", "check", "store", "begin", "mark_failed"},
             ExtractorGoto(x, pc),
             pc = "poll_extract" \/ extractor[x].pc \notin {"poll_reextract", "poll_extract"}
      PROVE  Goal
  <2>1. pc \in ExtractorPcs \ {"flush", "commit"}
    BY <1>d DEF ExtractorPcs
  <2>2. NothingWritten(x) /\ WritesKept(Sessions \ {x})
    BY <1>d, NothingToWrite
  <2> QED
    BY <1>c, <1>d, <2>1, <2>2, ExtractorMoves
<1>e. ASSUME StoresOK, WritesKept(Sessions), extractor[x].pc \notin InTransaction,
             ExtractorDone(x)
      PROVE  Goal
  BY <1>e, NothingToWrite, ExtractorIdles
(* Out of a transaction by rollback. *)
<1>f. ASSUME Rollback(x), UNCHANGED <<t_task, t_toc, objects, queues>>,
             extractor[x].pc \notin {"poll_reextract", "poll_extract"},
             \/ ExtractorGoto(x, "cleanup") \/ ExtractorGoto(x, "mark_failed")
             \/ ExtractorDone(x)
      PROVE  Goal
  <2>1. StoresOK /\ WritesKept(Sessions \ {x}) /\ NothingWritten(x)
    BY <1>a, <1>f, RolledBack DEF NothingWritten
  <2>2. CASE ExtractorDone(x)
    BY <2>1, <2>2, ExtractorIdles
  <2>3. CASE ExtractorGoto(x, "cleanup") \/ ExtractorGoto(x, "mark_failed")
    <3>1. {"cleanup", "mark_failed"} \subseteq ExtractorPcs \ {"flush", "commit"}
      BY DEF ExtractorPcs
    <3> QED
      BY <1>c, <1>f, <2>1, <2>3, <3>1, ExtractorMoves
  <2> QED
    BY <1>f, <2>2, <2>3
<1>1. CASE PollReextract(x)
  <2>1. CASE reextract_queue # <<>>
    <3>1. StoresOK /\ WritesKept(Sessions) /\ Head(reextract_queue) \in ExtractorMessages
          /\ TaskPresent(Head(reextract_queue).task)
      BY <1>1, <2>1, ReextractTaskPopped DEF PollReextract
    <3>2. t_task'[Head(reextract_queue).task] # Absent
      BY <1>1, <3>1 DEF PollReextract, tables, TaskPresent
    <3>3. NothingWritten(x) /\ WritesKept(Sessions \ {x})
      BY <1>1, <3>1, NothingToWrite DEF PollReextract, ExtractorAt, InTransaction
    <3>4. CASE TakeMessage(x, Head(reextract_queue))
      BY <3>1, <3>2, <3>3, <3>4, MessageTaken
    <3>5. CASE UNCHANGED extractor
      BY <3>1, <3>3, <3>5, ExtractorFrame DEF Kept, WritesKept, Sessions
    <3> QED
      BY <1>1, <2>1, <3>4, <3>5 DEF PollReextract
  <2>2. CASE reextract_queue = <<>>
    <3>1. StoresOK /\ WritesKept(Sessions)
      BY <1>1, <1>b, <2>2 DEF PollReextract, stores, tables
    <3> QED
      BY <1>1, <1>d, <2>2, <3>1 DEF PollReextract, ExtractorAt, InTransaction
  <2> QED
    BY <2>1, <2>2
<1>2. CASE PollExtract(x)
  <2>1. CASE extractor_queue # <<>>
    <3>1. StoresOK /\ WritesKept(Sessions) /\ Head(extractor_queue) \in ExtractorMessages
          /\ TaskPresent(Head(extractor_queue).task)
      BY <1>2, <2>1, ExtractorTaskPopped DEF PollExtract
    <3>2. t_task'[Head(extractor_queue).task] # Absent
      BY <1>2, <3>1 DEF PollExtract, tables, TaskPresent
    <3>3. NothingWritten(x) /\ WritesKept(Sessions \ {x})
      BY <1>2, <3>1, NothingToWrite DEF PollExtract, ExtractorAt, InTransaction
    <3>4. CASE TakeMessage(x, Head(extractor_queue))
      BY <3>1, <3>2, <3>3, <3>4, MessageTaken
    <3>5. CASE ExtractorDone(x)
      BY <3>1, <3>3, <3>5, ExtractorIdles
    <3> QED
      BY <1>2, <2>1, <3>4, <3>5 DEF PollExtract
  <2>2. CASE extractor_queue = <<>>
    <3>1. StoresOK /\ WritesKept(Sessions)
      BY <1>2, <1>b, <2>2 DEF PollExtract, stores, tables
    <3> QED
      BY <1>2, <1>e, <2>2, <3>1 DEF PollExtract, ExtractorAt, InTransaction
  <2> QED
    BY <2>1, <2>2
<1>3. CASE DownloadContentList(x) \/ CheckTask(x)
  <2>1. StoresOK /\ WritesKept(Sessions)
    BY <1>3, <1>b DEF DownloadContentList, CheckTask
  <2> QED
    BY <1>3, <1>d, <1>e, <2>1 DEF DownloadContentList, CheckTask, ExtractorAt, InTransaction
<1>4. CASE StoreLogicalTables(x)
  <2>1. LogicalTables(extractor[x].task) \in ObjectKeys
    BY <1>4, <1>c DEF StoreLogicalTables, ExtractorAt, LogicalTables, ObjectKeys
  <2>2. \/ objects' = objects \union {LogicalTables(extractor[x].task)}
        \/ objects' = objects
    BY <1>4 DEF StoreLogicalTables, AfterFailedPut
  <2>3. StoresOK /\ WritesKept(Sessions)
    BY <1>4, <2>1, <2>2, ObjectStored DEF StoreLogicalTables
  <2> QED
    BY <1>4, <1>d, <2>3 DEF StoreLogicalTables, ExtractorAt, InTransaction
<1>5. CASE BeginExtraction(x)
  <2>1. StoresOK /\ WritesKept(Sessions)
    BY <1>5, <1>b DEF BeginExtraction
  <2> QED
    BY <1>5, <1>a, <2>1, ExtractionBegun
<1>6. CASE ReplaceToc(x)
  <2>1. StoresOK /\ WritesKept(Sessions)
    BY <1>6, <1>b DEF ReplaceToc
  <2>2. PICK pc \in {"evaluate", "upsert"} : ExtractorGoto(x, pc)
    BY <1>6 DEF ReplaceToc
  <2>3. pc \in ExtractorPcs \ {"flush", "commit"} /\ pc \in InTransaction
    BY DEF ExtractorPcs, InTransaction
  <2>4. uncommitted'[x] = uncommitted[x] /\ extractor[x].task # Absent
    BY <1>6, <1>a, <1>c, <2>1 DEF ReplaceToc, ExtractorAt, WritesKept
  <2> QED
    BY <1>a, <2>1, <2>2, <2>3, <2>4, ExtractorMoves
<1>7. CASE SelectResult(x)
  <2>1. StoresOK /\ WritesKept(Sessions)
    BY <1>7, <1>b DEF SelectResult
  <2> QED
    BY <1>7, <1>a, <2>1, ResultSelected
<1>8. CASE MultipleResultsFound(x) \/ LLMFallbackFails(x) \/ ExtractionDatabaseError(x)
           \/ ExtractorCrash(x)
  BY <1>8, <1>f DEF MultipleResultsFound, LLMFallbackFails, ExtractionDatabaseError,
                    ExtractorCrash, ExtractorAt, InTransaction
<1>9. CASE FlushResult(x)
  BY <1>9, ResultFlushed
<1>10. CASE EvaluateStatus(x)
  <2>1. StoresOK /\ WritesKept(Sessions)
    BY <1>10, <1>b DEF EvaluateStatus
  <2> QED
    BY <1>10, <1>a, <2>1, StatusEvaluated
<1>11. CASE CommitExtraction(x)
  <2>1. extractor[x].verdict \in TaskStatus
    BY <1>11 DEF CommitExtraction, ExtractorAt, ExtractorInv, RunInv, ExtractorTypeOK,
                 ExtractorRuns, FinalStatus, TaskStatus
  <2>2. extractor[x].task \in Uploads /\ TaskPresent(extractor[x].task)
    BY <1>11, <1>c DEF CommitExtraction, ExtractorAt
  <2>3. t_task' \in [Uploads -> TaskStatus \union {Absent}] /\ SameTasks
    BY <1>11, <2>1, <2>2, SetStatus DEF CommitExtraction, SetExtractedStatus, StoresTypeOK
  <2>4. t_toc' \in SUBSET (Uploads \X Extractors)
    BY <1>11, <2>2 DEF CommitExtraction, StoresTypeOK
  <2>5. StoresOK /\ WritesKept(Sessions \ {x}) /\ NothingWritten(x)
    BY <1>11, <1>a, <2>3, <2>4, Committed DEF CommitExtraction, NothingWritten
  <2> QED
    BY <1>11, <2>5, ExtractorIdles DEF CommitExtraction
<1>12. CASE CleanupLogicalTables(x)
  <2>1. StoresOK /\ WritesKept(Sessions)
    <3>1. CASE UNCHANGED objects
      BY <1>12, <1>b, <3>1 DEF CleanupLogicalTables, stores, tables, queues
    <3>2. CASE objects' = objects \ {LogicalTables(extractor[x].task)}
      BY <1>12, <3>2, LogicalTablesDeleted DEF CleanupLogicalTables
    <3> QED
      BY <1>12, <3>1, <3>2 DEF CleanupLogicalTables
  <2> QED
    BY <1>12, <1>e, <2>1 DEF CleanupLogicalTables, ExtractorAt, InTransaction
<1>13. CASE LoadFailed(x)
  <2>1. StoresOK /\ WritesKept(Sessions)
    BY <1>13, <1>b DEF LoadFailed
  <2>2. CASE ExtractorDone(x)
    BY <1>13, <1>e, <2>1, <2>2 DEF LoadFailed, ExtractorAt, InTransaction
  <2>3. CASE ~ExtractorDone(x)
    BY <1>13, <1>a, <2>1, <2>3, FailureLoaded DEF LoadFailed
  <2> QED
    BY <2>2, <2>3
<1>14. CASE SetExtractionFailed(x)
  <2>1. extractor[x].task \in Uploads /\ TaskPresent(extractor[x].task)
    BY <1>14, <1>c DEF SetExtractionFailed, ExtractorAt
  <2>2. t_task' \in [Uploads -> TaskStatus \union {Absent}] /\ SameTasks
    <3>1. CASE UNCHANGED t_task
      BY <3>1 DEF StoresTypeOK, SameTasks, TaskPresent
    <3>2. CASE SetExtractedStatus(x, "FAILED")
      BY <2>1, <3>2, SetStatus DEF SetExtractedStatus, StoresTypeOK, TaskStatus
    <3> QED
      BY <1>14, <3>1, <3>2 DEF SetExtractionFailed
  <2>3. StoresOK /\ WritesKept(Sessions)
    BY <1>14, <2>2, StatusFrame DEF SetExtractionFailed, Kept
  <2> QED
    BY <1>14, <1>e, <2>3 DEF SetExtractionFailed, ExtractorAt, InTransaction
<1>15. CASE DeleteToc(x)
  <2>1. StoresOK /\ WritesKept(Sessions)
    BY <1>15, <1>b DEF DeleteToc
  <2> QED
    BY <1>15, <1>a, <2>1, OldTocFound
<1> QED
  BY <1>1, <1>2, <1>3, <1>4, <1>5, <1>6, <1>7, <1>8, <1>9, <1>10, <1>11, <1>12, <1>13, <1>14,
     <1>15 DEF ExtractorStep

----------------------------------------------------------------------------
LEMMA ReextractTaskPublished ==
  ASSUME StoresTypeOK, StoresInv, NEW m \in ExtractorMessages, TaskPresent(m.task),
         reextract_queue' = Append(reextract_queue, m) \/ reextract_queue' = reextract_queue,
         UNCHANGED <<tables, objects, parser_queue, extractor_queue>>
  PROVE  StoresTypeOK' /\ StoresInv' /\ Kept /\ WritesKept(Sessions)
<1>1. reextract_queue \in Seq(ExtractorMessages)
  BY DEF StoresTypeOK
<1>2. reextract_queue' \in Seq(ExtractorMessages)
  BY <1>1, Appended
<1>3. \A i \in DOMAIN reextract_queue' :
        \/ reextract_queue'[i] = m
        \/ i \in DOMAIN reextract_queue /\ reextract_queue'[i] = reextract_queue[i]
  BY <1>1, Appended
<1>4. StoresTypeOK'
  BY <1>2 DEF StoresTypeOK, tables
<1>5. StoresInv'
  BY <1>3 DEF StoresInv, TaskPresent, tables
<1> QED
  BY <1>4, <1>5 DEF Kept, TasksKept, ResultsKept, ObjectsKept, WritesKept, TaskPresent, tables

LEMMA FixChanges ==
  ASSUME ReviewTypeOK, ReviewInv, Kept, NEW v \in Fixes, NEW c \in FixRecords,
         fix' = [fix EXCEPT ![v] = c], UNCHANGED retriggered,
         c.pc \notin {"idle", "done"} => c.row # Absent /\ c.loaded_row # Absent,
         c.row # Absent => t_result[c.row] # Absent,
         c.pc \in {"load", "commit"} => c.verdict # Absent
  PROVE  ReviewTypeOK' /\ ReviewInv'
<1>1. ReviewTypeOK' /\ fix'[v] = c /\ \A u \in Fixes : u # v => fix'[u] = fix[u]
  BY DEF ReviewTypeOK
<1>2. \A u \in Fixes : fix'[u].row # Absent => fix'[u].row \in RowIds
  BY <1>1 DEF ReviewTypeOK, FixRecords
<1>3. FixInv(v)'
  BY <1>1, <1>2 DEF FixInv, Kept, ResultsKept
<1>4. \A u \in Fixes : u # v => FixInv(u)'
  BY <1>1, <1>2 DEF ReviewInv, FixInv, Kept, ResultsKept
<1> QED
  BY <1>1, <1>3, <1>4 DEF ReviewInv

LEMMA FixStepInv ==
  ASSUME TypeOK, StoresInv, ReviewInv, NEW v \in Fixes, SelectFix(v) \/ FixStep(v) \/ FixFails(v)
  PROVE  /\ StoresTypeOK' /\ StoresInv' /\ ReviewTypeOK' /\ ReviewInv'
         /\ Kept /\ WritesKept(Sessions \ {v})
<1> USE DEF TypeOK
<1> DEFINE StoresOK == StoresTypeOK' /\ StoresInv' /\ Kept
           row == fix[v].row
<1>a. v \in Sessions /\ (WritesKept(Sessions) => WritesKept(Sessions \ {v}))
  BY DEF Sessions, WritesKept
<1>b. ASSUME UNCHANGED stores
      PROVE  StoresOK /\ WritesKept(Sessions)
  BY <1>b, StoresFrame DEF Kept
<1>c. fix[v] \in FixRecords
  BY DEF ReviewTypeOK
<1>d. fix[v].pc \notin {"idle", "done"} =>
        /\ row \in RowIds /\ FixedTask(v) \in Uploads /\ TaskPresent(FixedTask(v))
        /\ row # Absent /\ fix[v].loaded_row # Absent /\ t_result[row] # Absent
  <2>1. fix[v].pc \notin {"idle", "done"} =>
          row \in RowIds /\ row # Absent /\ fix[v].loaded_row # Absent /\ t_result[row] # Absent
    BY <1>c DEF ReviewInv, FixInv, FixRecords
  <2>2. \A i \in RowIds : i[1] \in Uploads /\ (t_result[i] # Absent => TaskPresent(i[1]))
    BY DEF RowIds, StoresInv
  <2> QED
    BY <2>1, <2>2 DEF FixedTask
<1>e. ASSUME Kept, FixDone(v), UNCHANGED retriggered
      PROVE  ReviewTypeOK' /\ ReviewInv'
  <2> DEFINE c == [NewFix EXCEPT !.pc = "done"]
  <2>1. c \in FixRecords /\ c.pc = "done" /\ c.row = Absent
    BY DEF NewFix, FixRecords, FixPcs
  <2>2. fix' = [fix EXCEPT ![v] = c]
    BY <1>e DEF FixDone
  <2> HIDE DEF c
  <2> QED
    BY <1>e, <2>1, <2>2, FixChanges
<1>1. CASE SelectFix(v)
  <2>1. StoresOK /\ WritesKept(Sessions)
    BY <1>1, <1>b DEF SelectFix
  <2>2. PICK i \in RowIds :
          /\ t_result[i] # Absent
          /\ fix' = [fix EXCEPT ![v].pc = "flush", ![v].row = i, ![v].loaded_row = t_result[i]]
    BY <1>1 DEF SelectFix
  <2> DEFINE c == [fix[v] EXCEPT !.pc = "flush", !.row = i, !.loaded_row = t_result[i]]
  <2>3. t_result[i] \in Rows
    BY <2>2 DEF StoresTypeOK
  <2>4. c \in FixRecords /\ c.pc = "flush" /\ c.row = i /\ c.loaded_row = t_result[i]
    BY <1>c, <2>3 DEF FixRecords, FixPcs
  <2>5. fix' = [fix EXCEPT ![v] = c]
    BY <2>2 DEF ReviewTypeOK, FixRecords
  <2> HIDE DEF c
  <2> QED
    BY <1>1, <1>a, <2>1, <2>2, <2>4, <2>5, Unrelated, FixChanges DEF SelectFix
<1>2. CASE FlushFix(v)
  <2> DEFINE new == [needs_review |-> Flushed(t_result[row].needs_review,
                                              fix[v].loaded_row.needs_review, FALSE),
                     fixed |-> TRUE]
             c == [fix[v] EXCEPT !.pc = "count"]
  <2>0. fix[v].pc = "flush"
    BY <1>2 DEF FlushFix, FixAt
  <2>1. new \in Rows
    <3>1. t_result[row] \in Rows
      BY <1>d, <2>0 DEF StoresTypeOK
    <3> QED
      BY <3>1 DEF Rows, Flushed
  <2>2. TaskPresent(row[1])
    BY <1>d, <2>0 DEF FixedTask
  <2>3. StoresOK /\ WritesKept(Sessions \ {v})
    <3> HIDE DEF new, row
    <3>1. WriteRow(v, row, new)
      BY <1>2 DEF FlushFix, new, row
    <3> QED
      BY <1>2, <1>a, <1>d, <2>0, <2>1, <2>2, <3>1, RowWritten DEF FlushFix
  <2>4. c \in FixRecords /\ c.pc = "count" /\ c.row = row /\ c.loaded_row = fix[v].loaded_row
    BY <1>c DEF FixRecords, FixPcs
  <2>5. fix' = [fix EXCEPT ![v] = c]
    BY <1>2 DEF FlushFix, ReviewTypeOK
  <2> HIDE DEF c, row
  <2> QED
    BY <1>2, <1>d, <2>0, <2>3, <2>4, <2>5, FixChanges DEF FlushFix
<1>3. CASE CountPending(v)
  <2>1. StoresOK /\ WritesKept(Sessions)
    BY <1>3, <1>b DEF CountPending
  <2>2. PICK verdict \in FinalStatus :
          fix' = [fix EXCEPT ![v].pc = "load", ![v].verdict = verdict]
    BY <1>3 DEF CountPending, FinalStatus
  <2> DEFINE c == [fix[v] EXCEPT !.pc = "load", !.verdict = verdict]
  <2>3. c \in FixRecords /\ c.pc = "load" /\ c.row = row /\ c.loaded_row = fix[v].loaded_row
        /\ c.verdict = verdict
    BY <1>c DEF FixRecords, FixPcs
  <2>4. fix' = [fix EXCEPT ![v] = c]
    BY <2>2 DEF ReviewTypeOK, FixRecords
  <2>5. verdict # Absent
    BY Unrelated DEF FinalStatus, TaskStatus
  <2> HIDE DEF c, row
  <2> QED
    BY <1>3, <1>a, <1>d, <2>1, <2>3, <2>4, <2>5, FixChanges DEF CountPending, FixAt
<1>4. CASE LoadTask(v)
  <2>1. StoresOK /\ WritesKept(Sessions)
    BY <1>4, <1>b DEF LoadTask
  <2>2. fix[v].pc = "load" /\ t_task[FixedTask(v)] \in TaskStatus \union {Absent}
    BY <1>4, <1>d DEF LoadTask, FixAt, StoresTypeOK
  <2> DEFINE c == [fix[v] EXCEPT !.pc = "commit", !.loaded = t_task[FixedTask(v)]]
  <2>3. c \in FixRecords /\ c.pc = "commit" /\ c.row = row /\ c.loaded_row = fix[v].loaded_row
        /\ c.verdict = fix[v].verdict
    BY <1>c, <2>2 DEF FixRecords, FixPcs
  <2>4. fix' = [fix EXCEPT ![v] = c]
    BY <1>4 DEF LoadTask, ReviewTypeOK, FixRecords
  <2>5. fix[v].verdict # Absent
    BY <2>2 DEF ReviewInv, FixInv
  <2> HIDE DEF c, row
  <2> QED
    BY <1>4, <1>a, <1>d, <2>1, <2>2, <2>3, <2>4, <2>5, FixChanges DEF LoadTask
<1>5. CASE CommitFix(v)
  <2>1. fix[v].pc = "commit" /\ fix[v].verdict \in TaskStatus
    BY <1>5, <1>c DEF CommitFix, FixAt, ReviewInv, FixInv, FixRecords, FinalStatus, TaskStatus
  <2>2. t_task' \in [Uploads -> TaskStatus \union {Absent}] /\ SameTasks
    BY <1>5, <1>d, <2>1, SetStatus DEF CommitFix, StoresTypeOK
  <2>3. t_toc' \in SUBSET (Uploads \X Extractors)
    BY <1>5 DEF CommitFix, StoresTypeOK
  <2>4. StoresOK /\ WritesKept(Sessions \ {v})
    BY <1>5, <1>a, <2>2, <2>3, Committed DEF CommitFix
  <2> QED
    BY <1>5, <1>e, <2>4 DEF CommitFix
<1>6. CASE FixFails(v)
  <2>1. StoresOK /\ WritesKept(Sessions \ {v})
    BY <1>6, <1>a, RolledBack DEF FixFails
  <2> QED
    BY <1>6, <1>e, <2>1 DEF FixFails
<1> QED
  BY <1>1, <1>2, <1>3, <1>4, <1>5, <1>6 DEF FixStep

LEMMA RetriggerInv ==
  ASSUME TypeOK, StoresInv, ReviewInv, NEW q \in Retriggers, Retrigger(q)
  PROVE  /\ StoresTypeOK' /\ StoresInv' /\ ReviewTypeOK' /\ ReviewInv'
         /\ Kept /\ WritesKept(Sessions)
<1> USE DEF TypeOK
<1>1. StoresTypeOK' /\ StoresInv' /\ Kept /\ WritesKept(Sessions)
  <2>1. CASE UNCHANGED reextract_queue
    BY <2>1, StoresFrame DEF Retrigger, stores, tables, Kept
  <2>2. CASE ~UNCHANGED reextract_queue
    <3>1. PICK t \in Uploads, codes \in (SUBSET Rules) \ {{}} :
            /\ TaskPresent(t)
            /\ reextract_queue' = Append(reextract_queue, [task |-> t, codes |-> codes])
      BY <2>2 DEF Retrigger, AfterFailedPush
    <3> DEFINE m == [task |-> t, codes |-> codes]
    <3>2. m \in ExtractorMessages /\ m.task = t
      BY DEF ExtractorMessages
    <3> HIDE DEF m
    <3>3. reextract_queue' = Append(reextract_queue, m)
      BY <3>1 DEF m
    <3> QED
      BY <3>1, <3>2, <3>3, ReextractTaskPublished DEF Retrigger
  <2> QED
    BY <2>1, <2>2
<1>2. ReviewTypeOK'
  BY DEF Retrigger, ReviewTypeOK
<1>3. ReviewInv'
  <2>1. \A v \in Fixes : fix[v].row # Absent => fix[v].row \in RowIds
    BY DEF ReviewTypeOK, FixRecords
  <2> QED
    BY <1>1, <2>1 DEF Retrigger, ReviewInv, FixInv, Kept, ResultsKept
<1> QED
  BY <1>1, <1>2, <1>3

----------------------------------------------------------------------------
LEMMA InitInv == Init => PipelineInv
<1> SUFFICES ASSUME Init PROVE PipelineInv
  OBVIOUS
<1> USE DEF Init, StoresInit
<1>1. StoresTypeOK
  <2>1. <<>> \in Seq(Uploads) /\ <<>> \in Seq(ExtractorMessages)
    OBVIOUS
  <2> QED
    BY <2>1 DEF StoresTypeOK, NoWrites
<1>2. StoresInv
  <2>1. DOMAIN <<>> = {}
    OBVIOUS
  <2> QED
    BY <2>1 DEF StoresInv, TaskPresent, NoWrites
<1>3. RequestTypeOK /\ RequestInv
  BY DEF RequestInit, RequestTypeOK, RequestInv, RequestPcs, AfterBinding
<1>4. ParserTypeOK /\ ParserInv
  BY DEF ParserInit, ParserTypeOK, ParserInv, IdleParser, ParserPcs
<1>5. ExtractorTypeOK /\ ExtractorInv
  <2>1. PollingExtractor \in ExtractorRuns /\ PollingExtractor.pc = "poll_reextract"
        /\ PollingExtractor.task = Absent
    BY DEF PollingExtractor, ExtractorRuns, ExtractorPcs
  <2>2. \A x \in Extractors : extractor[x] = PollingExtractor
    BY DEF ExtractorInit
  <2>3. \A x \in Extractors, i \in RowIds : uncommitted[x][i] = Absent
    BY DEF Sessions, NoWrites
  <2>4. ExtractorTypeOK
    BY <2>1 DEF ExtractorInit, ExtractorTypeOK
  <2> QED
    BY <2>1, <2>2, <2>3, <2>4 DEF ExtractorInv, RunInv
<1>6. ReviewTypeOK /\ ReviewInv
  <2>1. NewFix \in FixRecords /\ NewFix.pc = "idle" /\ NewFix.row = Absent
    BY DEF NewFix, FixRecords, FixPcs
  <2> QED
    BY <2>1 DEF ReviewInit, ReviewTypeOK, ReviewInv, FixInv
<1> QED
  BY <1>1, <1>2, <1>3, <1>4, <1>5, <1>6 DEF PipelineInv, TypeOK

(* A step of one component frames the others. *)
LEMMA NextInv == PipelineInv /\ [Next]_vars => PipelineInv'
<1> SUFFICES ASSUME PipelineInv, [Next]_vars PROVE PipelineInv'
  OBVIOUS
<1> USE DEF PipelineInv
<1>a. TypeOK /\ StoresTypeOK /\ RequestTypeOK /\ ParserTypeOK /\ ExtractorTypeOK /\ ReviewTypeOK
  BY DEF TypeOK
<1>b. \A S \in SUBSET Sessions : WritesKept(S) /\ Extractors \subseteq S => WritesKept(Extractors)
  BY DEF WritesKept
<1>c. Extractors \subseteq Sessions /\ \A v \in Fixes : Extractors \subseteq Sessions \ {v}
  BY SessionsAssumption DEF Sessions
<1>1. CASE UNCHANGED vars
  <2>1. StoresTypeOK' /\ StoresInv' /\ Kept /\ WritesKept(Extractors)
    BY <1>1, <1>a, <1>b, <1>c, StoresFrame DEF vars, Kept
  <2> QED
    BY <1>1, <1>a, <2>1, RequestFrame, ParserFrame, ExtractorFrame, ReviewFrame
       DEF vars, Kept, TypeOK
<1>2. ASSUME NEW r \in Uploads, FindExisting(r) \/ RequestStep(r) \/ RequestCrash(r)
      PROVE  PipelineInv'
  <2>1. /\ StoresTypeOK' /\ StoresInv' /\ RequestTypeOK' /\ RequestInv'
        /\ Kept /\ WritesKept(Extractors)
    BY <1>2, <1>b, <1>c, RequestStepInv
  <2>2. UNCHANGED notTaskService
    BY <1>2 DEF RequestStep, FindExisting, Touch, InsertTask, RefreshTask, RecoverFromDuplicate,
                UploadSource, PublishParserTask, Requeue, PersistDispatchFailure, RequestCrash
  <2> QED
    BY <1>a, <2>1, <2>2, ParserFrame, ExtractorFrame, ReviewFrame
       DEF notTaskService, Kept, TypeOK
<1>3. ASSUME NEW w \in Parsers, ParserStep(w) \/ ParserCrash(w)
      PROVE  PipelineInv'
  <2>1. /\ StoresTypeOK' /\ StoresInv' /\ ParserTypeOK' /\ ParserInv'
        /\ Kept /\ WritesKept(Extractors)
    BY <1>3, <1>b, <1>c, ParserStepInv
  <2>2. UNCHANGED notParser
    BY <1>3 DEF ParserStep, ConsumeParserTask, MarkParsing, SetParsing, Parse, StoreContentList,
                PublishExtractorTask, MarkParsed, SetParsed, MarkFailed, SetFailed, ParserLoad,
                ParserFinish, ParserCrash
  <2> QED
    BY <1>a, <2>1, <2>2, RequestFrame, ExtractorFrame, ReviewFrame DEF notParser, Kept, TypeOK
<1>4. ASSUME NEW x \in Extractors, ExtractorStep(x) \/ ExtractorCrash(x)
      PROVE  PipelineInv'
  <2>1. /\ StoresTypeOK' /\ StoresInv' /\ ExtractorTypeOK' /\ ExtractorInv'
        /\ Kept
    BY <1>4, ExtractorStepInv
  <2>2. UNCHANGED notExtractor
    BY <1>4 DEF ExtractorStep, PollReextract, PollExtract, DownloadContentList, CheckTask,
                StoreLogicalTables, BeginExtraction, DeleteToc, ReplaceToc, SelectResult,
                MultipleResultsFound, LLMFallbackFails, FlushResult, EvaluateStatus,
                CommitExtraction, ExtractionDatabaseError, CleanupLogicalTables, LoadFailed,
                SetExtractionFailed, ExtractorCrash
  <2> QED
    BY <1>a, <2>1, <2>2, RequestFrame, ParserFrame, ReviewFrame DEF notExtractor, Kept, TypeOK
<1>5. ASSUME NEW v \in Fixes, SelectFix(v) \/ FixStep(v) \/ FixFails(v)
      PROVE  PipelineInv'
  <2>1. /\ StoresTypeOK' /\ StoresInv' /\ ReviewTypeOK' /\ ReviewInv'
        /\ Kept /\ WritesKept(Extractors)
    BY <1>5, <1>b, <1>c, FixStepInv
  <2>2. UNCHANGED notReview
    BY <1>5 DEF SelectFix, FixStep, FlushFix, CountPending, LoadTask, CommitFix, FixFails
  <2> QED
    BY <1>a, <2>1, <2>2, RequestFrame, ParserFrame, ExtractorFrame DEF notReview, Kept, TypeOK
<1>6. ASSUME NEW q \in Retriggers, Retrigger(q)
      PROVE  PipelineInv'
  <2>1. /\ StoresTypeOK' /\ StoresInv' /\ ReviewTypeOK' /\ ReviewInv'
        /\ Kept /\ WritesKept(Extractors)
    BY <1>6, <1>b, <1>c, RetriggerInv
  <2>2. UNCHANGED notReview
    BY <1>6 DEF Retrigger
  <2> QED
    BY <1>a, <2>1, <2>2, RequestFrame, ParserFrame, ExtractorFrame DEF notReview, Kept, TypeOK
<1> QED
  BY <1>1, <1>2, <1>3, <1>4, <1>5, <1>6 DEF Next, RequestNext, ParserNext, ExtractorNext, ReviewNext

(* The inductive invariant holds throughout every behaviour. *)
THEOREM Invariance == Spec => []PipelineInv
BY InitInv, NextInv, PTL DEF Spec

(* Every table, queue, object key and worker keeps its type: no step leaves a worker
   with a message, row or status of the wrong shape (TypeOK of the Faults run).     *)
THEOREM TypeCorrect == Spec => []TypeOK
<1>1. PipelineInv => TypeOK
  BY DEF PipelineInv
<1> QED
  BY <1>1, Invariance, PTL

(* One document keeps one task row, and whoever holds or was answered a task holds
   the row of its own document (create_extract_task, _recover_from_duplicate).    *)
THEOREM Deduplicated == Spec => []SameDocumentSameTask
<1>1. PipelineInv => SameDocumentSameTask
  BY DEF PipelineInv, StoresInv, RequestInv, SameDocumentSameTask
<1> QED
  BY <1>1, Invariance, PTL

(* A queued message's object is stored: every publisher uploads first, and only
   logical_tables.json is ever deleted (_dispatch_task, ParserWorker).          *)
THEOREM ClaimChecked == Spec => []ClaimCheck
<1>1. PipelineInv => ClaimCheck
  BY DEF PipelineInv, StoresInv, ClaimCheck
<1> QED
  BY <1>1, Invariance, PTL
=============================================================================
