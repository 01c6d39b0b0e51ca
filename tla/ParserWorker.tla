---------------------------- MODULE ParserWorker ----------------------------
(***************************************************************************)
(* parser_service: the loop of main.py around ParserWorker, one message at *)
(* a time.                                                                 *)
(*                                                                         *)
(*   idle -> mark_parsing -> set_parsing -> parse -> store -> publish      *)
(*        -> mark_parsed -> set_parsed -> idle                             *)
(*   parse, store, publish -> mark_failed -> set_failed -> idle            *)
(*                                                                         *)
(* Each of _mark_parsing, _mark_parsed and _mark_failed opens a session,   *)
(* loads the row (mark_...) and flushes and commits (set_...).  A database *)
(* error in any of them is logged and the message is dropped.              *)
(***************************************************************************)
EXTENDS Stores

CONSTANT Parsers   \* parser processes

ParserPcs == {"idle", "mark_parsing", "set_parsing", "parse", "store", "publish",
              "mark_parsed", "set_parsed", "mark_failed", "set_failed"}
IdleParser == [pc |-> "idle", task |-> Absent, loaded |-> Absent]

(* Each process: where it is, the task of its message, the status it loaded. *)
ParserTypeOK ==
  parser \in [Parsers -> [pc : ParserPcs, task : Uploads \union {Absent},
                          loaded : TaskStatus \union {Absent}]]

ParserInit == parser = [w \in Parsers |-> IdleParser]

ParserAt(w, pc) == parser[w].pc = pc
ParserGoto(w, pc) == parser' = [parser EXCEPT ![w].pc = pc]
ParserDone(w) == parser' = [parser EXCEPT ![w] = IdleParser]

----------------------------------------------------------------------------
(* BLPOP; a failed call is retried after a second, and may have lost the
   message it popped.                                                    *)
ConsumeParserTask(w) ==
  /\ ParserAt(w, "idle")
  /\ parser_queue # <<>>
  /\ parser_queue' = Tail(parser_queue)
  /\ \/ parser' = [parser EXCEPT ![w].pc = "mark_parsing", ![w].task = Head(parser_queue)]
     \/ "queue" \in Faults /\ UNCHANGED parser
  /\ UNCHANGED <<tables, objects, extractor_queue, reextract_queue, notParser>>

(* session.get at the start of a _mark_... session. *)
ParserLoad(w, from, to) ==
  /\ ParserAt(w, from)
  /\ \/ parser' = [parser EXCEPT ![w].pc = to, ![w].loaded = t_task[parser[w].task]]
     \/ "database" \in Faults /\ ParserDone(w)
  /\ UNCHANGED <<stores, notParser>>

(* set_status and commit at the end of that session. *)
ParserSet(w, status) ==
  LET t == parser[w].task IN
  t_task' = [t_task EXCEPT ![t] = Flushed(t_task[t], parser[w].loaded, status)]

SetParsing(w) ==
  /\ ParserAt(w, "set_parsing")
  /\ \/ ParserSet(w, "PARSING") /\ ParserGoto(w, "parse")
     \/ "database" \in Faults /\ ParserDone(w) /\ UNCHANGED t_task
  /\ UNCHANGED <<results, t_toc, objects, queues, notParser>>

(* _mark_parsed and _mark_failed end the message whether or not they commit. *)
ParserFinish(w, from, status) ==
  /\ ParserAt(w, from)
  /\ ParserDone(w)
  /\ \/ ParserSet(w, status)
     \/ "database" \in Faults /\ UNCHANGED t_task
  /\ UNCHANGED <<results, t_toc, objects, queues, notParser>>

(* Mutant: an early return without _mark_failed. *)
ParseUnreported(w) ==
  /\ ParserAt(w, "parse")
  /\ ParserGoto(w, "store") \/ ParserDone(w)
  /\ UNCHANGED <<stores, notParser>>

(* download_bytes then parser_engine.parse: nothing shared changes. *)
Parse(w) ==
  /\ ParserAt(w, "parse")
  /\ \/ Source(parser[w].task) \in objects /\ ParserGoto(w, "store")
     \/ /\ \/ Source(parser[w].task) \notin objects
           \/ Faults \intersect {"storage", "engine"} # {}
        /\ ParserGoto(w, "mark_failed")
  /\ UNCHANGED <<stores, notParser>>

StoreContentList(w) ==
  /\ ParserAt(w, "store")
  /\ LET key == ContentList(parser[w].task) IN
     \/ objects' = objects \union {key} /\ ParserGoto(w, "publish")
     \/ /\ "storage" \in Faults
        /\ objects' \in AfterFailedPut(key)
        /\ ParserGoto(w, "mark_failed")
  /\ UNCHANGED <<tables, queues, notParser>>

(* Mutant: the bare task id in place of an ExtractorTaskMessage. *)
BareMessage(w) == parser[w].task

ExtractorMessage(w) == [task |-> parser[w].task, codes |-> {}]

(* The extractor can see this message before _mark_parsed has run. *)
PublishExtractorTask(w) ==
  /\ ParserAt(w, "publish")
  /\ \/ /\ extractor_queue' = Append(extractor_queue, ExtractorMessage(w))
        /\ ParserGoto(w, "mark_parsed")
     \/ /\ "queue" \in Faults
        /\ extractor_queue' \in AfterFailedPush(extractor_queue, ExtractorMessage(w))
        /\ ParserGoto(w, "mark_failed")
  /\ UNCHANGED <<tables, objects, parser_queue, reextract_queue, notParser>>

(* The process dies and restarts; its message is gone. *)
ParserCrash(w) ==
  /\ "crash" \in Faults
  /\ ~ParserAt(w, "idle")
  /\ ParserDone(w)
  /\ UNCHANGED <<stores, notParser>>

MarkParsing(w) == ParserLoad(w, "mark_parsing", "set_parsing")
MarkParsed(w) == ParserLoad(w, "mark_parsed", "set_parsed")
SetParsed(w) == ParserFinish(w, "set_parsed", "PARSED")
MarkFailed(w) == ParserLoad(w, "mark_failed", "set_failed")
SetFailed(w) == ParserFinish(w, "set_failed", "FAILED")

ParserStep(w) ==
  \/ ConsumeParserTask(w) \/ MarkParsing(w) \/ SetParsing(w) \/ Parse(w)
  \/ StoreContentList(w) \/ PublishExtractorTask(w) \/ MarkParsed(w) \/ SetParsed(w)
  \/ MarkFailed(w) \/ SetFailed(w)

ParserNext == \E w \in Parsers : ParserStep(w) \/ ParserCrash(w)
=============================================================================
