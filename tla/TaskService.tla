----------------------------- MODULE TaskService -----------------------------
(***************************************************************************)
(* POST /api/v1/extract: TaskService.create_extract_task, one request per  *)
(* element of Uploads.  Requests interleave at every await, within one API *)
(* process and between replicas; a step is one transaction or one call.    *)
(*                                                                         *)
(*   idle -> touch -> done                     duplicate of a live task    *)
(*   idle -> insert -> refresh -> upload -> publish -> done  new document  *)
(*   idle -> insert -> recover -> touch -> done         lost insert race   *)
(*   idle -> upload -> publish -> requeue -> done  redispatch of a FAILED  *)
(*   upload, publish -> persist_failure -> done         dispatch failure   *)
(*                                                                         *)
(* Replies: "accepted" and "deduplicated" carry request[r].task; "failed"  *)
(* is the 503 of a dispatch failure that was persisted, "unavailable" a    *)
(* database failure (a 503, or a 500 from inside the IntegrityError        *)
(* handler), and "lost" a connection that died with its process.           *)
(***************************************************************************)
EXTENDS Stores

RequestPcs == {"idle", "insert", "refresh", "recover", "touch", "upload", "publish",
               "requeue", "persist_failure", "done"}
Successes == {"accepted", "deduplicated"}
Replies == Successes \union {"failed", "unavailable", "lost"}

(* The coroutine of each upload and, once done, its reply.
   loaded: the status this session read or inserted.                         *)
RequestTypeOK ==
  request \in [Uploads -> [pc : RequestPcs,
                           task : Uploads \union {Absent},
                           loaded : TaskStatus \union {Absent},
                           reply : Replies \union {"none"}]]

RequestInit ==
  request = [r \in Uploads |-> [pc |-> "idle", task |-> Absent, loaded |-> Absent,
                                reply |-> "none"]]

At(r, pc) == request[r].pc = pc
Goto(r, pc) == request' = [request EXCEPT ![r].pc = pc]
Reply(r, reply) == request' = [request EXCEPT ![r].pc = "done", ![r].reply = reply]

(* Finding the fingerprint's task binds it to the request. *)
Bind(r, t, pc) ==
  request' = [request EXCEPT ![r].pc = pc, ![r].task = t, ![r].loaded = t_task[t]]

----------------------------------------------------------------------------
(* create_extract_task up to the branch: get_by_fingerprint, and the status it
   read decides what _handle_existing_task does.                             *)
FindExisting(r) ==
  /\ At(r, "idle")
  /\ LET existing == WithFingerprint(Fingerprint[r]) IN
     \/ existing = {} /\ Goto(r, "insert")
     \/ \E t \in existing : Bind(r, t, IF t_task[t] = "FAILED" THEN "upload" ELSE "touch")
     \/ "database" \in Faults /\ Reply(r, "unavailable")
  /\ UNCHANGED <<stores, notTaskService>>

(* touch() writes update_time alone, then commits. *)
Touch(r) ==
  /\ At(r, "touch")
  /\ \/ Reply(r, "deduplicated")
     \/ "database" \in Faults /\ Reply(r, "unavailable")
  /\ UNCHANGED <<stores, notTaskService>>

(* Mutant: t_task without its unique index. *)
NoUniqueIndex(r) == TRUE

(* uq_task on file_hash, file_size and doc_type. *)
UniqueIndexAllows(r) == WithFingerprint(Fingerprint[r]) = {}

(* INSERT and commit; the unique index turns a lost race into an IntegrityError
   and _recover_from_duplicate.                                                *)
InsertTask(r) ==
  /\ At(r, "insert")
  /\ \/ /\ UniqueIndexAllows(r)
        /\ t_task' = [t_task EXCEPT ![r] = "QUEUED"]
        /\ request' = [request EXCEPT ![r].pc = "refresh", ![r].task = r,
                                      ![r].loaded = "QUEUED"]
     \/ /\ ~UniqueIndexAllows(r)
        /\ Goto(r, "recover")
        /\ UNCHANGED t_task
     \/ /\ "database" \in Faults
        /\ Reply(r, "unavailable")
        /\ UNCHANGED t_task
  /\ UNCHANGED <<results, t_toc, objects, queues, notTaskService>>

(* session.refresh re-reads the committed row; if that fails the row stays QUEUED
   although nothing was dispatched.                                             *)
RefreshTask(r) ==
  /\ At(r, "refresh")
  /\ \/ Bind(r, request[r].task, "upload")
     \/ "database" \in Faults /\ Reply(r, "unavailable")
  /\ UNCHANGED <<stores, notTaskService>>

(* Mutant: the lost race is answered with the id this request drew. *)
RecoverWithOwnId(r) ==
  /\ At(r, "recover")
  /\ Bind(r, r, "touch")
  /\ UNCHANGED <<stores, notTaskService>>

(* _recover_from_duplicate reads the winner's row and touches it, whatever its
   status: a FAILED task found here is not dispatched again.                  *)
RecoverFromDuplicate(r) ==
  /\ At(r, "recover")
  /\ \/ \E t \in WithFingerprint(Fingerprint[r]) : Bind(r, t, "touch")
     \/ "database" \in Faults /\ Reply(r, "unavailable")
  /\ UNCHANGED <<stores, notTaskService>>

(* Mutant: a storage failure is logged and the message published all the same. *)
UploadSourceUnchecked(r) ==
  /\ At(r, "upload")
  /\ objects' \in AfterFailedPut(Source(request[r].task))
  /\ Goto(r, "publish")
  /\ UNCHANGED <<tables, queues, notTaskService>>

(* _dispatch_task: the source PDF first, then the parser message. *)
UploadSource(r) ==
  /\ At(r, "upload")
  /\ LET key == Source(request[r].task) IN
     \/ /\ objects' = objects \union {key}
        /\ Goto(r, "publish")
     \/ /\ "storage" \in Faults
        /\ objects' \in AfterFailedPut(key)
        /\ Goto(r, "persist_failure")
  /\ UNCHANGED <<tables, queues, notTaskService>>

(* A task of its own is answered here; a redispatched one has to be re-queued. *)
PublishParserTask(r) ==
  /\ At(r, "publish")
  /\ LET t == request[r].task IN
     \/ /\ parser_queue' = Append(parser_queue, t)
        /\ IF t = r THEN Reply(r, "accepted") ELSE Goto(r, "requeue")
     \/ /\ "queue" \in Faults
        /\ parser_queue' \in AfterFailedPush(parser_queue, t)
        /\ Goto(r, "persist_failure")
  /\ UNCHANGED <<tables, objects, extractor_queue, reextract_queue, notTaskService>>

(* set_status and commit, with the row as this session loaded it. *)
SetLoadedTask(r, status) ==
  LET t == request[r].task IN
  t_task' = [t_task EXCEPT ![t] = Flushed(t_task[t], request[r].loaded, status)]

(* _handle_existing_task, after the dispatch. *)
Requeue(r) ==
  /\ At(r, "requeue")
  /\ \/ SetLoadedTask(r, "QUEUED") /\ Reply(r, "deduplicated")
     \/ "database" \in Faults /\ Reply(r, "unavailable") /\ UNCHANGED t_task
  /\ UNCHANGED <<results, t_toc, objects, queues, notTaskService>>

(* Mutants: the 503 without the FAILED status; a retry in place of the 503. *)
ReplyWithoutPersisting(r) ==
  /\ At(r, "persist_failure")
  /\ Reply(r, "failed")
  /\ UNCHANGED <<stores, notTaskService>>
RetryForEver(r) ==
  /\ At(r, "persist_failure")
  /\ Goto(r, "upload")
  /\ UNCHANGED <<stores, notTaskService>>

(* _persist_dispatch_failure, then the 503. *)
PersistDispatchFailure(r) ==
  /\ At(r, "persist_failure")
  /\ \/ SetLoadedTask(r, "FAILED") /\ Reply(r, "failed")
     \/ "database" \in Faults /\ Reply(r, "unavailable") /\ UNCHANGED t_task
  /\ UNCHANGED <<results, t_toc, objects, queues, notTaskService>>

(* The process serving r dies: an open transaction rolls back, the rest stays. *)
RequestCrash(r) ==
  /\ "crash" \in Faults
  /\ request[r].pc \notin {"idle", "done"}
  /\ Reply(r, "lost")
  /\ UNCHANGED <<stores, notTaskService>>

RequestStep(r) ==
  \/ Touch(r) \/ InsertTask(r) \/ RefreshTask(r) \/ RecoverFromDuplicate(r)
  \/ UploadSource(r) \/ PublishParserTask(r) \/ Requeue(r) \/ PersistDispatchFailure(r)

RequestNext == \E r \in Uploads : FindExisting(r) \/ RequestStep(r) \/ RequestCrash(r)
=============================================================================
