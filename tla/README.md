# Financial table extractor: TLA+ specification

The repository extracts tables from financial reports (PDF). Three kinds of
process share a PostgreSQL database, a MinIO bucket and three Redis lists:

    client --POST /api/v1/extract--> API (core_service) --parser_queue--> parser_service
                                                                              |
    reviewer --PATCH, POST retrigger--> API --reextract_queue--> extractor <--extractor_queue

Every process runs many coroutines, several replicas of each may run, every
dependency may fail at any call, and no message is acknowledged. What the
processes promise each other is carried by the status of a task row, which all
of them write. Most of these modules are about that protocol. A second group is
about what the extractor makes of a parsed document, from its blocks to the
outcome of each rule, and a third about the life of the processes: their start
and the keys they draw.

## Inventory

| component | state it keeps | operations | correct when |
|---|---|---|---|
| task submission (`task_service.py`) | `t_task`; one session per request | look up the fingerprint, insert, upload the PDF, publish, persist a dispatch failure, re-dispatch a FAILED task, recover from a lost insert race | one document has one task; the answer names it; no task waits for a message that was never sent; every request is answered |
| parser service (`parser_worker.py`, `main.py`) | task status, `content_list.json` | consume, mark PARSING, download, parse, store, publish, mark PARSED or FAILED | a message's object exists; every failure ends in FAILED; PARSED does not hide a result |
| extractor (`extractor_worker.py`, `extractor_main.py`) | `t_extracted_result`, `t_document_toc`, `logical_tables.json`, task status | poll two queues, download, extract every selected rule, upsert rows, evaluate, commit or clean up | results, TOC and final status appear together; runs do not deadlock; both queues are served |
| review (`review_service.py`) | result rows, task status | list, read, fix a row | PENDING_REVIEW exactly while a row waits for review |
| re-extraction (`retrigger_service.py`) | `reextract_queue` | publish a message with table codes | only the asked tables change; a task completes only when every table is extracted |
| database access (`clients/database.py`, repositories, models) | sessions | unit of work, row locks, unique index | - |
| queue client, object storage client | connections, bucket flag | push, pop; put, get, delete | - |
| scoring and status (`confidence_scorer.py`, `task_status_evaluator.py`) | none | score, threshold | - |
| fast track, LLM fallback, normaliser (`fast_track_extractor.py`, `llm_fallback.py`, `extraction_normalizer.py`) | none | build an outcome, find its unit | the outcome is one the scorer was made for; a unit above a table is found |
| logical tables (`logical_table_builder.py`) | the table being extended | read a block: skip it, begin a table, merge | merging loses no row, keeps their order, joins what a page break cut and nothing else |
| table of contents, router (`document_toc_builder.py`, `document_toc_repository.py`, `table_router.py`) | nodes by path; rows with title and parent | read a block; store the rows; find a rule's section; score its tables and choose | a section's pages are those of its blocks; a rule finds its section if and only if the document has it; rules that ask for different tables do not share one |
| Snowflake ids (`snowflake.py`) | sequence, last timestamp | next id, wait for the next millisecond | ids never repeat and ascend; a wait ends |
| process start (`main.py`, `extractor_main.py`, `object_storage.py`) | the bucket | check the dependencies, make the bucket, create the generator, serve | processes may start in any order |
| vectors, MinerU engine and normaliser, API shell, settings, migrations | - | - | - |

The hard behaviours are the interleavings at every `await` (two uploads of one
document, two reviewers, a reviewer and a re-extraction, two extractors on one
task), the order of a publish and the status write next to it, calls that fail
after they took effect, processes that die between two writes, a popped message
that is lost with its process, statuses read in one session and written in
another, the unit of work that leaves out a column it believes unchanged, and
clocks that are set back.
`PROJECT.json` lists them under "hazards", each at its line.

## Modules

| module | models | notes |
|---|---|---|
| `Stores` | the three stores | variables of all processes, sessions with READ COMMITTED reads, row locks and the unit of work's column diff (`Flushed`), ambiguous failures (`AfterFailedPut`, `AfterFailedPush`) |
| `TaskService` | `create_extract_task` | one coroutine per element of `Uploads` |
| `ParserWorker` | parser service | one process per element of `Parsers` |
| `ExtractorWorker` | extractor | one process per element of `Extractors`; `begin` to `commit` is one transaction, the deletion of the old TOC a statement of its own (`DeleteToc`) |
| `ReviewService` | `apply_fix`, `retrigger` | one coroutine per element of `Fixes` and `Retriggers` |
| `Pipeline` | the composition | `Spec`, `FairSpec`, all properties |
| `UploadRegistry` | what uploading promises a client | abstract; `Pipeline` implements it |
| `MCPipeline` | instances for TLC | fingerprints, symmetry |
| `LogicalTableBuilder` | `LogicalTableBuilder.build` | one step per block; the last table is the code's `active_table` |
| `DocumentToc` | `DocumentTocBuilder.build`, `replace_for_task`, the router's search | nodes by path, rows by level, title and parent |
| `TableRouter` | `TableRouter.route` | `Route`: section, scores, threshold, choice, context |
| `ConfidenceScorer` | `ExtractionOutcome`, `ConfidenceScorer.apply` | `Outcomes`, shared by the pipeline and the next module |
| `RuleExtraction` | the loop body over the rules: `_build_outcome`, fast track, LLM answer, `ExtractionNormalizer` | `Outcome` |
| `Preparation` | both builders over one document, then every rule | the properties |
| `MCPreparation` | blocks and rules for TLC | sections A, A/X, B, B/X; the title B names a unit |
| `Snowflake` | `SnowflakeIdGenerator` | one generator per process, one clock per host |
| `Service` | start, bucket setup, serving and end of the processes that draw ids | `Spec`, `FairSpec`, the properties |
| `MCService` | instance for TLC | an API and two extractors |
| `Ordering` | lists that keep the order of a finite set of places | given by cardinalities, which the provers can reason about |
| `PipelineProofs` | `PipelineInv`: types, deduplication, the claim check | TLAPS, as are all below |
| `IntakeProofs` | what the upload route promises: the registry's refinement, dispatch | on `PipelineProofs` |
| `ExtractionProofs` | transactions on the results: locks, deadlock, selection, atomicity | on `PipelineProofs` |
| `ReviewProofs` | the status of an extracted task, and who can falsify it | on the two before |
| `PreparationProofs` | logical tables: pages and continuations | |
| `DocumentProofs` | rows, outcomes, routing and units | on `PreparationProofs` |
| `TocProofs` | the tree of the document, the router's walk over its rows | on `DocumentProofs` |
| `ServiceProofs` | ids and the bucket | |

An action is one transaction, one statement of a longer transaction, or one call
to Redis or MinIO, with every branch the code takes on its outcome. `pc` names
the place of a coroutine; each module's header draws the order of the places.
`t_task` keeps a row's status only; a task is named by the upload that inserted
it, a result row by the task, rule and extractor that inserted it.

What the data abstraction drops: file contents, messages' other fields,
`remark`, `update_time` and logging. A result row keeps `needs_review` and
whether a reviewer's fix is on it, because the review status and the unit of
work's diff depend on them. The outcome of one rule is any member of `Outcomes`,
scored by the code's scorer; that no document, rule or LLM answer yields another
is `OutcomesExpected` of `Preparation`.

Deliberate simplifications, each argued:

- A session that runs a single write flushes and commits in one step. The lock
  such a step takes on a task row is taken and released by it. In the longer
  transactions (`apply_fix`, extraction) the task row is written last, after
  which the session only commits, so its lock adds no wait to a cycle.
- A database failure is a statement or commit that is rolled back. A commit that
  fails after it took effect is not modelled; failed puts and pushes that took
  effect are.
- The code never deletes a task row, so its branches for a row that disappeared
  are left out. Invalid queue payloads, an upload without a file name and the
  404 of a read are refused without any effect and are left out.
- The active rules are a constant of the run and the same for every document.
  A retrigger asks for a non-empty set of the rules' codes; codes no rule has
  are not enumerated.
- A crash of the API is a crash of one request's coroutine; requests that die
  together are a sequence of such steps.
- `Uploads`, `Fixes` and `Retriggers` are each made at most once. That bounds the
  queues: no other bound is needed, and no action has one.
- The repositories are injected into the review services, as the tests inject
  them; `main.py` does not set them on `app.state`.

In `Preparation` a block keeps its type, page and section, a table block its
header and which rows are blank, a text whether it has the words of a continued
table. The two builders scan the finished list one after the other; they share
nothing, so the model hands each block to both at once, and every state is the
outcome for the document that ends there. Of a rule the model keeps its path, the
headers and words it asks for, its threshold and, in place of its vector, how
similar it is to each text the router may embed: a header together with the words
of the texts before the table (the path in that text is the same for all tables a
rule is scored against); scores are whole numbers (thousandths and
millionths), because the code's are decimals. A text keeps the words the code
looks for in it: "continued", a unit, the words of titles. Cells other than blank
ones are not told apart, so the normaliser's treatment of zeros and dashes is
left out, and so is the currency, which goes with every unit.

In `Service` a process starts, checks its dependencies, looks for the bucket,
makes it if it saw none, serves, draws ids, and fails or is stopped at any point.
Each step is one call to the outside: two processes can both see that there is no
bucket. `next_id` runs under a lock and on the event loop's thread, so a call is
one step unless it used up its millisecond; then the process waits, in a loop
that reads the clock, and does nothing else. The model supposes of the
environment what the code cannot see to:

- `WorkerIdsDiffer`: processes that draw keys of one table have different
  `TASK_ID_NODE_ID`s. The default is 1 everywhere, which does for one API process
  and one extractor, whose keys are of different tables.
- A restart takes longer than a millisecond, and no clock is set back to before
  the last start of a process on its host (`StartGenerator`, `SetBack`): the
  generator forgets `last_timestamp` when its process ends.
- The clock is not before `epoch_ms`.

An id drawn with the clock behind raises `ValueError`: the API answers that
request with an error, the extractor's loop has no handler, so the process ends
(`NextIdRaises`). The parser starts in the same way and draws no ids; it is left
out.

Two constants carry facts about the environment on which source and tests
differ. `ReextractPollBlocks` is TRUE for Redis, whose BLPOP with timeout 0
waits for ever, and FALSE for a queue client that returns at once, as the tests'
fake does. `ReextractConfigured` is FALSE for the API of `main.py`, whose queue
client is not told the reextract queue's name, and TRUE for the tests'. With the
production values no re-extraction is ever published and no extraction ever
starts (`Starvation`), so the runs about the extractor use the tests' values:
they check the protocol the authors wrote.

`Faults` selects the dependencies that may fail: `database`, `storage`,
`queue`, `engine` (parser engine, and an artifact that fails validation), `llm`
and `crash` (a process dies anywhere and restarts; its message is gone).

## Runs

Deadlock checking is off in every run: once each request was made and answered
and the queues are empty, the system rightly stops.

| run | instance | checks | states |
|---|---|---|---|
| `Intake` | 3 uploads of one document; no workers; storage and queue fail | `QueuedMeansDispatched` | 1,994 |
| `Faults` | 2 uploads of one document, 1 parser, 1 extractor, 2 rules; everything fails | `TypeOK`, `SameDocumentSameTask`, `ClaimCheck`, `ExtractionIsAtomic`, `ImplementsRegistry` | 793,544 |
| `Liveness` | 2 documents, 1 parser, 1 extractor, 1 reviewer; storage, engine and LLM fail; fair | `QueuedMeansDispatched`, `ReviewStatusHonest`, `EveryUploadIsAnswered`, `EveryTaskIsSettled` | 58,344 |
| `Reextract` | 1 document, 1 reviewer, 1 retrigger; everything fails | `OnlySelectedRowsChange` | 704,460 |
| `Concurrent` | 1 document, 2 extractors, 2 retriggers (symmetric) | `NoDeadlock` | 927,569 |
| `Preparation` | every document of up to 5 of 10 kinds of blocks, 5 rules | `NoRowLost`, `OnlyContinuationsJoined`, `ContinuationsJoined`, `TocCoversBlocks`, `SectionsFound`, `OutcomesExpected`, `RulesShareNoTable`, `UnitAboveIsFound` | 111,111 |
| `Service` | an API and 2 extractors on one host, one of them with the API's worker id; 2 worker ids, 2 ids in a millisecond, 3 times, 4 ids, 1 failure, 1 step back; fair | `PrimaryKeysUnique`, `IdsAscend`, `BucketRaceLostOnce`, `NextIdReturns` | 526,847 |

Two uploads of a document are the smallest race for its row; the third of
`Intake` lets two requests retry a document that has failed while its first
upload is still at work. Two rules are the least for which a run can stop half
way, a retrigger can leave a table out and two transactions can wait for each
other. Two extractors with two retriggers give a full run against selective runs
of overlapping rules; they are interchangeable, and no definition chooses one of
them, so the symmetry is sound for the invariant checked there. Five blocks are
enough for a table over three pages with texts between, for a "continued" line
that two later texts push out of reach, and for a document that leaves a section
and comes back; the sections have two levels and a title that stands in both.
The five rules are two of one section that differ by their headers, one that a
vector decides, one that needs its title and keywords, and one of a section
without tables; thresholds are 0 (the default), 610, 850 and 950.

In `Service` two ids make a millisecond run out with the second call, so the
third waits; one step back of two ticks passes a wait or a served process, and
one failure restarts a process that drew ids. Calls of `next_id` begin before
`LastCall` and clocks tick up to `MaxClock`, so a wait that has begun can end:
with a time at which a wait could begin but no later one to end it, the run
would check the bound. `MaxIds` bounds the ids of all processes together.

What some properties leave out, because the code makes no promise there:

- `QueuedMeansDispatched` is checked without database failures and crashes: a
  process that dies between the committed insert and the publish (or fails in
  `session.refresh`) leaves a QUEUED row that nothing dispatches again.
- `EveryTaskIsSettled` is checked without database failures, queue failures and
  crashes: each of them can drop a message, and the code has no recovery.
  `ExtractionIsAtomic` and the other safety properties are checked with all.
- `ReviewStatusHonest` speaks of moments with no open transaction.
- `ExtractionIsAtomic` is about full extractions and is checked without
  retriggers. A retrigger of one table before the first extraction completes the
  task without the other tables: `retrigger` only asks that the task exists, and
  a selective run takes the status from the rows that are there. `design.md:245`
  has it flip a task that was PENDING_REVIEW.
- `RulesShareNoTable` is about rules without vectors and thresholds above 600:
  path, keywords and title together score 600, and a vector adds up to 350, so
  with it a table without the required headers can pass.
- `UnitAboveIsFound` does not say that the unit is the table's own. The
  normaliser takes the first unit named on the table's pages, and a text of
  another table there may come first. Its units are the forms the normaliser
  recognises.
- `PrimaryKeysUnique` is about the keys of one table, as a primary key is, and
  rests on what the model supposes of worker ids, restarts and clocks.
- `ContinuationsJoined` is about parts with equal headers and
  `OnlyContinuationsJoined` says that no others are joined.

Five runs expect a violation; each is a disagreement between the code and what
its documents or tests say, quoted in `PROJECT.json` "findings":

- `ParsedOverwrites`: the parser publishes before it writes PARSED, so a fast
  extractor's COMPLETED is overwritten with PARSED and stays so.
- `RequeueRace`: a re-dispatched task is written QUEUED after its message was
  published, which can overwrite the parser's progress or its FAILED.
- `Starvation`: the poll of the reextract queue blocks for ever, so the
  extractor's own queue is not served. The run checks `EveryTaskIsSettled`
  under `FairSpec`, and nothing fails.
- `ReviewSkew`: two reviewers fixing the last two rows each count the other's;
  the task stays PENDING_REVIEW with nothing left to review.
- `ReturnedSection`: a row of the tree takes the latest row of the level above as
  its parent, so a document that returns to a section and opens a subsection
  there hangs it under another one: its rule gets NOT_FIND, and the rule of a
  section that is not there does not. `SectionsFound` therefore supposes
  `NeverReturns`.

Where the documents say more than the code does, and no run is about it: the
deduction of 5 points for a vector match between 0.85 and 0.9
(`requirement.md:138`) is not in the scorer; `min_match_score` is called a
threshold of cosine similarity (`table-schema.md:49`, `design.md:264`) and is
compared with the combined score; units are looked for in texts only, not in
headers and captions (`requirement.md:103`), and only in the three forms the
normaliser has patterns for, so that a text like 单位：万元 names none; the ids of
`t_document_toc` come from the database, not from a generator
(`table-schema.md:41`); a 续表 line above a table on the next page is enough to
join it (`requirement.md:39`), while `_should_merge` wants equal headers
whatever stands above; every id is globally unique (`table-schema.md:5`, `:22`,
`:62`), while each process draws its own, with the worker id 1 if it is set up
from `.env.example:21`, so that ids are unique in a table if its processes were
given different ones (`WorkerIdsDiffer`) and not across tables.

Fairness (`FairSpec` of `Pipeline`): weak fairness of the steps of each request after its
first, and of each parser's and extractor's steps. The event loops schedule
every runnable coroutine, the workers loop for ever, and Redis answers a waiting
BLPOP. Nothing obliges a client to upload, a reviewer to fix, or a process to
crash, so `FindExisting`, `ReviewNext` and the crashes are not fair. `FairSpec` of
`Service`: time goes on on every host, and a thread that watches the clock sees
it. Nothing in the repository starts a process again, so starts are not fair, and
`NextIdReturns` speaks of a process that serves.

Every property of a passing run has a mutant in `PROJECT.json`: a definition of
the code changed as a plausible bug would change it, with which the run fails.
The mutated forms stand before the definitions they replace and are marked
"Mutant".

## Proofs

Every invariant, action property and refinement that a passing run checks is
also a theorem, for every value of the constants that satisfies the assumptions
of the modules; six theorems have a further hypothesis, named below. What the
assumptions ask is little: fingerprints are defined on the uploads; rules are
finitely many and ordered by naturals (their ids); extractors are finitely many
and no sessions of reviewers; `Absent` is no other value; block kinds and rules
are records of their types. No theorem bounds the number of uploads, rules,
workers, requests, blocks or levels.

### The pipeline

| theorem | states | hypothesis |
|---|---|---|
| `PipelineProofs!Invariance`, `TypeCorrect`, `Deduplicated`, `ClaimChecked` | `PipelineInv`, `TypeOK`, `SameDocumentSameTask`, `ClaimCheck` | |
| `IntakeProofs!RegistryImplemented` | `ImplementsRegistry` | |
| `IntakeProofs!TasksDispatched` | `QueuedMeansDispatched` | `NothingLost`, `MessagesLast` |
| `ExtractionProofs!LocksHeld` | `LocksInv` | |
| `ExtractionProofs!SelectedRowsChange` | `OnlySelectedRowsChange` | |
| `ExtractionProofs!DeadlockFree` | `NoDeadlock` | |
| `ExtractionProofs!ExtractionsAtomic` | `ExtractionIsAtomic` | `NoReextraction` |
| `ReviewProofs!ReviewStatusKept` | `ReviewStatusHonest` | `[]TransactionsApart` |
| `ReviewProofs!RunsKeepApart` | `TransactionsApart` | `UploadedOnce`, `NoReextraction`, `[]ReviewersApart` |
| `ReviewProofs!ReviewersKeepStatus` | `ReviewStatusHonest` | the same |

`PipelineInv`. None of its three properties is inductive. `SameDocumentSameTask`
needs that a request past its lookup holds a row that is there and is its
document's (`RequestInv`). `ClaimCheck` needs that a process about to publish has
stored the object (`RequestInv`, `ParserInv`), that its task exists, and that the
only object ever deleted is `logical_tables.json`. `TypeOK` needs that a loaded
status, a popped message and a row in hand belong to a stored task, that an
extractor that commits has a verdict, and that a rule's SELECT sees no write of
its own transaction, so that `UpsertedRow` diffs against a committed row
(`RunInv`): this in turn needs each transaction's writes to be confined to rules
the run has done with. `StoresInv` carries those facts through the stores while
messages wait and transactions are open. The proof goes component by component.
For each there is one lemma that its steps preserve its own part and the stores'
part (`RequestStepInv`, `ParserStepInv`, `ExtractorStepInv`, `FixStepInv`,
`RetriggerInv`) and a frame lemma that any step of another component preserves
its part, given what that step guarantees about the stores: tasks, results and
objects are kept (`Kept`) and the other sessions' writes are untouched
(`WritesKept`). `NextInv` combines them.

The refinement. `Owner` maps an inserted row to a claim and `Answer` a reply to a
grant or a refusal. A reply has to name the task of the document's claimant,
which is `Deduplicated`; it has to be the first, which is `AnswerInv`: a request
has a reply exactly if it is done, and a success only while it holds a task.
`StepRefines` then takes one case per effect: the insert, a reply, nothing.

`LocksInv`. A row that a run has written, and not committed, is of a rule it was
asked for, which comes before that of the row in hand and all that are left to
do. A fix holds its row and no other. So whoever waits for a run wants a
row of a lower rule than the run waits for, nobody waits for a fix that waits,
and a circle would have no run with the highest rule (`NoCircle`, with `Largest`
on finite sets of naturals). Without the order of `list_active_by_doc_type` it
fails, as the mutant `AnyRule` shows. `OnlySelectedRowsChange` is the same
invariant at the commit.

`AtomicInv`. Every message asks for all rules; a run sees a row of its task for
every rule it has done with, so one that has nothing left to do makes them all
visible; rows of a task imply its TOC, the TOC and a final status imply all of
its rows. The hypothesis `NoReextraction` (no retrigger is made, or the API has no
name of its queue, which is `main.py` as it is) is what the code needs: a
retrigger of one table before the first extraction writes a final status, the
TOC and one row.

`DispatchInv`. A QUEUED task has its message in the queue, or the request that
inserted it at work, or a parser about to mark it; a request that will write
QUEUED has a message in the queue; a parser that will skip its write of PARSING,
or overwrite another status, does not face QUEUED. The first two parts of the
hypothesis are failures the code has no recovery from (`NothingLost`: no database
failure and no crash). `MessagesLast` keeps the finding `RequeueRace` out: either
no parser takes messages (the instance of `Intake`, where uploads race), or each
document is uploaded once and no pop loses its message (the instance of
`Liveness`).

`HonestInv`. It says over the committed rows that a final status tells whether a
row of the task waits for review, and of each open transaction what it will make
of that: what it has counted is what its session sees (`VerdictHolds`,
`RunCounts`), the row it loaded is still the committed one (`RunHand`), and a
final status it loaded is not the other one by now (`StillLoaded`), because
otherwise the unit of work would leave out a write that matters. Another
transaction on the same task that commits in between breaks these. Nothing in
the code prevents that, so `TransactionsApart` is a hypothesis on the behaviour:
no session has work on a task between its first read of rows and its end while
another has. `ReviewSkew` shows what happens otherwise. Late writes of the parser,
failures of all kinds, crashes, retriggers and rows that two earlier runs have
duplicated are all within the theorem. TLC checked `HonestInv` under the
constraint `TransactionsApart` before it was proved.

`PathInv` shows how far the hypothesis is the code's own doing. Where a document
is uploaded once and nothing is re-extracted, the work on a task is in one place
at a time, on its way from the request through queue, parser, queue and extractor to
its rows, and once in it: a popped message does not come back, a push that is
reported to have failed is not repeated, and a reviewer needs rows to begin. So
runs keep apart from each other and from reviewers, and only two reviewers at
once can make the status wrong (`RunsKeepApart`, `ReviewersKeepStatus`).

### The document

| theorem | states | hypothesis |
|---|---|---|
| `PreparationProofs!Invariance`, `SegmentsFollowPages`, `ContinuationsMerged` | `PreparationInv`, `OnlyContinuationsJoined`, `ContinuationsJoined` | |
| `DocumentProofs!RowsKept` | `NoRowLost` | |
| `DocumentProofs!OutcomesKnown` | `OutcomesExpected` | |
| `DocumentProofs!TablesNotShared` | `RulesShareNoTable` | `ThresholdsAboveContext` |
| `DocumentProofs!UnitsFound` | `UnitAboveIsFound` | |
| `TocProofs!TreeCoversBlocks` | `TocCoversBlocks` | |
| `TocProofs!SectionsAreFound` | `SectionsFound` | |

`PreparationInv`. `OnlyContinuationsJoined` says of every segment
after a table's first that it stands on the next page, has the table's section or
a "continued" text before it, and has the header of the segment before. The code
compares with that segment when it merges, so the fact is kept with the segments
(`JoinsInv`) as the document grows; and it needs that the block merged last stands on
the table's last page (`WellFormed`), so that the page comparison of
`_should_merge` is one with `end_page`. `ContinuationsJoined` needs that this
block is the latest table block of the document (`LatestInv`): a block that goes
on from the table block before it is then compared with that very block. There
is one lemma per action, and lemmas for what `Append` does to a document
(`AppendedBlock`) and an extended table to its segments (`ExtendedWellFormed`).

`RowsInv` adds to `NoRowLost` that rows stand in blocks that were read, so the
rows of the next block follow them all (`RowsAdded`).

`RoutingInv` adds to `PreparationInv` that blocks are of the kinds of the document
and that a table has the context of its first block. So its header and the words
before it are those of kinds, and a rule has a similarity for them. With it a table that is
chosen has every header of its rule's anchor (`HeadersRequired`), since what is
left of the score without the anchor's part is at most 600.
`ThresholdsAboveContext` says that no rule sets a threshold between 1 and 600;
with one, keywords and title alone carry a table without the headers. For the
units, `CandidateTexts` lists the texts of the table's pages and of its context,
whatever their order, so `TextUnit` finds one there if any names one, and the
titles of the path, which are looked at last, do not matter.

`TocInv`. The nodes are the paths of the blocks read and all the paths around
them, each once; a node's pages are the first and last of its blocks; and nodes
stand in the order in which their sections were met, outer ones first
(`IsOrdered`). That is what `replace_for_task` relies on: in a document that
never returns to a section, the latest row of the level above is the row of the
path around, so the walk down titles and parents (`IsWalk`) arrives at the row of
the path. Without `NeverReturns`, a premise of the property itself, the finding
`ReturnedSection` is what happens.

Three changes to the model were made so that it could be reasoned about. Where
the code drops places of a list, the model now says which places it keeps
(`Ordering!Ascending`) instead of filtering a sequence, for which the library has no
facts; `NoRowLost` speaks of the set of rows and of the order of any two, instead
of one long concatenation; and `TextUnit` takes the least place that names a
unit. TLC and the mutants agree with all three.

### The processes

`ServiceProofs` proves, for any processes, hosts, layout of the ids and clocks
that satisfy the assumptions of `Snowflake` and `Service`:

- `KeysAreUnique`, `KeysAscend`: `PrimaryKeysUnique` and `IdsAscend`;
- `BucketRace`: `BucketRaceLostOnce`.

The first two rest on `IdsInv`. `IdsAscend` alone says nothing of the next id, so
`IdsInv` bounds what a process has drawn by `NextFree`: the id after its last
one, the first of the next millisecond if it waits, or, in a process that has
drawn none since its start, the first of the time it was started at. Each step
draws an id that is not below it, because no clock is set back past a start
(`ClocksPastStarts`) and a wait begins with sequence 0 (`WaitsForSequenceZero`).
`PrimaryKeysUnique` needs besides that every id has its process' worker id
(`IssuedHaveTheirWorker`); the lemmas on products (`DivisionUnique`,
`LaterMillisecond`) say what the code's shifts do: the fields of an id determine
it and it determines them. For the bucket, `BucketInv` says that a
process that was refused finds the bucket there from then on, and that some
process, the one that made it, was not refused and will not be.

### What stays with TLC

- Liveness: `EveryUploadIsAnswered`, `EveryTaskIsSettled` and `NextIdReturns`.
  Fairness and ENABLED are out of the prover's reach.
- The five violations, which are about single behaviours.
- `QueuedMeansDispatched` where a parser works and messages can be lost, or
  documents are uploaded twice: there it is false (`RequeueRace`).
- That hypotheses are needed: the runs `RequeueRace` and `ReviewSkew` show it of
  `MessagesLast` and `ReviewersApart`; on the instance of `Reextract`, TLC finds
  `ExtractionIsAtomic` violated by the retrigger.

TLC also checked the inductive invariants of the pipeline on the instances of the
runs: `LocksInv`, `AtomicInv` and `AnswerInv` on that of `Faults`, `LocksInv` on that
of `Concurrent`, `DispatchInv` on those of `Intake` and `Liveness`, `HonestInv` and
`PathInv` on that of `Liveness`, and `PathInv` on two documents with all faults.

## Not modelled

- Parser engines and the normaliser of MinerU's output: a subprocess and a
  conversion of data, without state. The pipeline sees them succeed, fail, or end
  the process.
- Rule vectors and embedding: floating-point arithmetic, and an offline script
  that fills a column no other code writes. The router's use of a vector is
  modelled by a table of similarities.
- API shell, settings, logging, migrations, request and response schemas: wiring
  and wording. What wiring changes of the behaviour is a constant
  (`ReextractConfigured`, `ReextractPollBlocks`, `WorkerId`).
- Cells, bounding boxes and remarks of a result, and the body of the LLM request.

## Plan

Done: the stores, the four components, their composition, the upload registry;
the preparation of a document and the outcome of each rule; the life of the
processes and the ids; a proof of every invariant and action property.

Left: `QueuedMeansDispatched` between its two instances, for documents that are
uploaded again only after their first task has left QUEUED; what of
`ExtractionIsAtomic` survives retriggers (a task's rows come with its TOC); and
an abstract specification of review and extraction, as `UploadRegistry` is for
the upload route.
