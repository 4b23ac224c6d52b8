# Verification of the PZZ pipeline service

TLA+ specifications of the service in `src/`, the TLC configurations that check
them on small instances, and proofs, checked by TLAPS, of the theorems that
matter most.  Every definition is translated from the code; `PROJECT.json` maps
each one to the lines it stands for, lists the runs, the mutants that show each
property can fail, the findings and the hazards.

## 1. The system

A FastAPI process (`service/api`) accepts land-use classification tasks, stores
them in PostgreSQL and hands them over to Celery workers through Redis.  A worker
thread runs the pipeline (`service/infrastructure/runners`, `pipeline_modules`),
which compares cadastral objects with planning zones (PZZ) by geometry, text,
embeddings and an LLM.  Results are files, local or in MinIO.  Clients poll,
listen to an SSE stream or chat about the result.

| Component | State it keeps | Operations | Talks to | What makes it correct |
|---|---|---|---|---|
| Task service: `create_task`, `start_task`, `finish_task`, `api/tasks.py`, `tasks.py` | `pipeline_tasks`, `task_idempotency_keys`, `config.priority_current_sum` | create, re-run, recompute, cancel, start, wait, finish, reconcile | database, broker | one task per key, one execution at a time, every task settles, books repaired |
| Broker and workers (Celery, external) | queue, unacknowledged deliveries, revoked ids | deliver, acknowledge, retry, redeliver, revoke | task service | at-least-once delivery (assumed, modelled) |
| Runtime configuration: `config_runtime.py`, `admin_config.py` | `config_override` rows; per process: environment, baseline, applied, settings cache | set, delete, validate, sync | every process, pipeline subprocess | every process converges to the stored overrides and back to the deployed value |
| LLM answer cache: `llm_cache.py` | one file per question | get, put, expire | pipeline subprocesses on one volume | an answer, once there, does not move; a broken file is a miss |
| Embedding cache: `embed_cache.py` | one file per text and model | load, save | pipeline subprocesses | as above |
| Files: `uploads.py`, `api/uploads.py`, `cleanup_stale_output_files_task` | upload directories with `meta.json`; outputs | stream, register, resolve, purge, clean | API, beat, runners | nothing in use is removed, nothing expired stays |
| Runners: `pipeline_runner.py` and the deterministic ones | scratch directory, child process, two reader threads | download, run, upload, select the artifact | object storage, child | child never outlives its run, output belongs to the task |
| Status streams and chat: SSE generators in `api/tasks.py`, `chat_answer.py` | cursor over events, last status | poll, emit | database, chat LLM, ChatStorage | every event once and in order, `done` last |
| Auth: `api/security.py`, `auth_client.py` | JWKS cache, user cache | verify, refresh | Keycloak | keys refreshed on rotation |
| Pipeline algorithms: `pipeline_modules/business` | a pool of workers and a cache of verdicts per run | join, match, ask, rerank, mark | LLM, embedder | equal questions get equal answers, refusals have a reason |
| Submissions: `classifier.py`, `detect_columns.py`, `convert_zone_table.py`, `building_zone_review.py` | none but the row they make | check files, find columns, review zones, create | task service, LLM | what is accepted can be run |
| Scenario tasks: `scenarios.py` | rows under keys that carry the scenario's version | read the scenario, look up or create a row | Urban API, task service | a shared row answers what was asked, of a fresh enough scenario |
| Direct checks: `regulations.py`, `pzz_regulations.py`, `check_vri.py` | caches of documents, zones and mappings, a lock per edition | find document, zones and mapping, judge | Urban API, NormGraph, LLM | a mapping fits its zones, the model is asked once |
| Deterministic runners: buildings, scenario objects, placement | none | judge objects, divide zones | NormGraph | each verdict follows from layers and norms |
| MCP server: `mcp_server` | none | tools that call the API | API | thin client |
| Integrations: Urban API, NormGraph, object storage, geo ingest | none | fetch, convert | remote services | I/O |

Behaviour that is hard here: API requests interleave with each other and with
worker threads through rows read without locks; messages are delivered more than
once; a worker dies at any point of a three-phase task; the sum of reserved
priorities is read and written by four places with different locking; caches and
files are shared by processes that do not coordinate; streams poll tables whose ids
are drawn before they become visible; a scenario is edited while a request reads it.
`PROJECT.json` lists these under `hazards`, each at its line.

A request that fills a layer by `*_upload_id` copies the stored file into a
scratch directory inside the uploads volume; the beat jobs delete expired uploads
and stale outputs; the pipeline child process inherits the environment of its
worker, overrides included, and uses the two caches.

## 2. Modules

| Module | Models | Used by |
|---|---|---|
| `TaskState` | statuses, allowed transitions, capacity arithmetic (`domain/`) | `TaskContract`, `TaskLifecycle`, `Streams` |
| `TaskContract` | abstract: what a client that only submits sees of a task | refined by `TaskLifecycle` |
| `TaskLifecycle` | API requests, broker, worker threads and the beat job over one database | `MCTasks`, `TaskLifecycle_proofs` |
| `Streams` | the four event streams of a task, its writers, the chat answer | `MCStreams`, `Streams_proofs` |
| `ChildProcess` | the pipeline child, its pipes and readers, its artifact | `MCChildProcess`, `ChildProcess_proofs` |
| `RuntimeConfig` | override table, environment and settings cache of each process, admin requests | `MCConfig`, `RuntimeConfig_proofs` |
| `LlmCache` | the answer files, and threads of several processes that ask | `MCLlmCache`, `LlmCache_proofs` |
| `Uploads` | upload directories, the purge, and submissions that read from them | `MCUploads`, `Uploads_proofs` |
| `Results` | artifacts of a task over its runs, fetched copies, the cleanup, downloads | `MCResults`, `Results_proofs` |
| `CheckFlow` | composition: from a request to what is shown of its result | `MCCheckFlow`, `CheckFlow_proofs` |
| `Submissions` | what is refused, found and converted of uploaded layers; row and runner | `CheckFlow` |
| `Scenarios` | concurrent requests over a scenario that is being edited | `CheckFlow` |
| `Regulations` | direct checks with their shared caches and locks | `CheckFlow` |
| `ParcelCheck`, `Candidates`, `Overlaps` | the pipeline: join, pool of workers, rules, model, candidates, result | `CheckFlow` |
| `ObjectFit` | buildings, services and the cadastre: code, zone, verdict | `Submissions`, `Placement`, `Regulations` |
| `Placement` | the norms that apply and the division of zones | `CheckFlow` |
| `ResultViews` | links, files, reports and counts of a finished task | `CheckFlow` |

The `MC*` modules only declare model values and functions over them; the `.cfg`
files give the constants their values.  Operators named `Mut...` are mutants: each
stands before the definition it would replace, and `PROJECT.json` says which
property it breaks.  Theorems stand in the eight modules named `..._proofs`.

### TaskLifecycle

A row of `pipeline_tasks`, with its key in `task_idempotency_keys`, is `row[t]`;
the config row `priority_current_sum` is `sum` and always exists (it is seeded at
start-up).  A message is named by the request that enqueued it.

- *Sessions.*  Every SQLAlchemy session is cut at the points where another process
  can come between: what it has loaded is a snapshot (`seen`, `read`), and what it
  writes reaches the row at commit, only the columns that differ from the snapshot
  (`Flushed`).  `SELECT ... FOR UPDATE` without `populate_existing` returns the
  object the session already has, so a sum read before the lock is used after it
  (`ReadStaleSum`, `LoadedSum`).
- *API.*  `create_task` is `SubmitNew`/`SubmitKnown`/`SubmitRerun`, then `Insert` or
  `ResetRow`, `Enqueue`, `Stamp` (the message id is committed after the message is
  sent); cancel is `Cancel`, `CommitCancel`; recompute is `Recompute` and the same
  tail.  `ApiCrash` and `EnqueueFails` may strike between them.
- *Worker.*  `execute_pipeline_task` is `Deliver`, `LoadTask`, `ReadStaleSum`,
  `CommitStart`/`Reserve`/`Wait`/`RefuseStart`, `RetryLater` or `GiveUp`,
  `PipelineEnds`, `FinishCommit`, `Ack`.  Messages are acknowledged late, so
  `WorkerCrash` puts those of its threads back; `Redeliver` is the visibility
  timeout of the Redis broker.  `RetryLater` publishes the retry and leaves the
  thread `republished`: the ack of the message it repeats is a step of its own, and
  a worker that dies in between (the fault `crash_after_retry`) leaves two messages
  of one task.  Two copies of a message with the same count are not told apart.  A
  thread of the threads pool cannot be terminated:
  `revoke(terminate=True)` only keeps the message from being delivered again.
- *Beat.*  `ReconcileRead` sums the running tasks, `ReconcileWrite` locks the sum
  and overwrites it.

Left out: timestamps and events of a task, its input paths (a re-run replaces
them), and requests that only read.

### RuntimeConfig

`store` is `config_override`; `env`, `applied`, `baseline`, `fresh`, `cache` and
`lock` are per process: `os.environ`, `_applied`, `_baseline`, the TTL, the
lru_cache of `_build_settings_cached`, and the runtime lock.  A thread goes through
`apply_overrides` (`LoadRows` and `ApplyRows` under the lock, `ClearCache` after
it), then through the build of Settings (`BuildHit`, `BuildRead`, `BuildStore`: the
lru_cache stores what a build has read when it is over, whatever was cleared
meanwhile), then, in the API process, through the admin handler (`Served`,
`ValidateSet`, `ValidateTry`, `ValidateRestore`, `CommitChange`).  `verify_admin`
needs the settings, so an admin request passes through all of it.  A build reads
the environment in one step.  `OverridesReach` speaks of `os.environ`, what the
pipeline subprocess copies; the typed Settings that the rest of the service reads are
the matter of `SettingsReach`.  The lru_cache may keep the Settings of a build that
was under way when it was cleared (section 4), so `SettingsReach` is about the
behaviours in which no build is overtaken (`NoBuildOvertaken`).

### LlmCache

One file per question.  `Miss`, `Answered`, `Keep` or `Proceed`, `WriteTemp`,
`Replace` are the steps of `complete_json` and `put`; a hit changes nothing and has
no action.  `WriteFails` sets the latch `_writable` of the process, `ProcessEnds`
resets it, `Damage` is a truncated file, `Expire` the TTL.

### Uploads

The bytes of a file are known by the upload they come from.  A directory is
`streaming` until `meta.json` is written, then `stored`; `abandoned` is one whose
process died, `late` says that `UPLOADS_MAX_AGE_HOURS` have passed.  A request
resolves and copies one layer after the other (`Resolve`, `Copy`), then reads the
open handles in turn (`Ingest`).  `shutil.copy2` writes into the file of that name
if there is one, so a handle yields what the scratch file holds by then (`Handle`).
The names are the clients': two uploads of the instances share one, and one is
called `meta.json`.  `Overwritten` says which layers of a request another file is
written over: those whose upload bears the name of the metadata, and those a later
layer shares a name with.  `InputsAsUploaded` is about the others: those the code
really mistakes (section 4).
A transfer is taken to be shorter than the age limit, and the removal of a
directory to be one step.  The scratch directory, which has no metadata either, is
younger than the limit while its request lives.

### Results

One task over its runs; that only one worker runs it is the matter of
`TaskLifecycle`.  A result is known by its run.  `mode` is the storage backend,
`stamped` says whether the artifact's name carries the time: the names of the
pipeline do (`io_layer.py`), those of the deterministic runners do not; the run
starts from both.  A download fetches an object into a temporary
file and renames it (`FetchObject`, `FetchRename`) unless a file of that name is
there, whatever run it is of; to serve a file that is there changes nothing and has
no action.  The cleanup reads the references, then looks at one file at a time and
unlinks it in a step of its own.  No run and no cleanup lasts a week (`Age`).

### Streams

`row` and `events` are what is committed, `tx` the open transaction of each writer
(the API, one worker): `Begin`, `Flush` (the id of the event is drawn and the row
locked, in either order), `Commit`.  An event that is committed when the
cursor of the stream has passed its id is put in `late`.  A poll is two statements of a
READ COMMITTED transaction, `ReadRow` and then `ReadEvents`.  All four generators
share this loop; which one it is matters when the loop ends, and `stream.kind` is
chosen there.  `Report`, `Apologize`, `AfterLinks` are the ends of the report and
scenario streams; `Prepare`, `Store`, `Token`, `AnswerEnds`, `AnswerFails` are
`stream_chat_answer`, with a history that refuses (`Warning`) or cannot be reached
(`Unreachable`).  `AfterException` says, for each generator, what an exception does.
Writers are forgotten once the stream has left its loop (`Forget`): nothing reads
them any more.

### ChildProcess

`out` and `err` are the two pipes, `queue` the lines handed to the worker,
`pending` the log record that is held back until the next line shows whether it
goes on.  The child writes (`WriteLine`, `Warn`), makes its artifact and exits or
crashes; two threads drain; the worker groups lines (`ReadRecord`,
`ReadContinuation`, `FlushPending`), may be interrupted (`KillChild`), joins the
readers, and takes the newest artifact (`Choose`) or the cause from the tail of
standard error (`FromHeader`).  The reader of standard error is joined for five
seconds at most: `ChildEnded` may go on before it is through, and `missed` says
so.  `WorkerDies` kills the worker without its handlers: the child lives on as an
orphan that still writes its artifact while the redelivered task runs a child of
its own.

### CheckFlow and its parts

`branch` is one of three ways a check is asked for.  With *files*, `Submit` checks
and converts the layers and makes a row, which `RunnerOf` routes as `tasks.py`
does when the task starts: to the pipeline (`StartPipeline`, `RunPipeline`,
`EndPipeline`), to the buildings' runner or to the placement.  With a *scenario*,
each client goes through the awaits of `scenarios.py` one by one while
`EditScenario` raises the version; a row is made or found under its key, and
`RunScenario` runs it.  *Direct checks* make no task: `FindDocument`,
`NormGraphAnswers`, `StoreZones`, `LookForMapping`, `Acquire`, `ModelTells`,
`AnswerType` are the steps between two awaits, over caches that `Expire` apart and
zones that NormGraph may have `ReadAnew` under the same version.  Mappings, locks
and questions go by the content of the zones (`EditionKey`), their limits excepted,
so that two readings may share one.

What the algorithms look at is reduced to what they tell apart:

- *Ground* is a set of cells; a geometry is the cells it covers, a buffer the cells
  within a width.  Reprojection and repair of geometries are left out.
- A *text* is a record of what the rules read in it (`Words`): its canonical form,
  the code its pattern names, what it is similar to.  How the similarity of two
  texts, a pattern or an embedding comes about is an input.
- A *code* of the classifier is a number whose digits are its dotted parts, so that
  umbrella and child codes relate as in the code (`Related`, `BehindKey`).
- A *file* is its format, its fault if it has one and the columns that can be found
  in it; a *model* answers with one of `Replies`, with nothing, or fails.

`ParcelCheck` keeps the control of `run_pipeline`: parcels that ask one question
are checked once (`Questions`), a pool of `Workers` takes them in order (`Take`),
decides by rules or asks (`Look`, `Answer`, `AskFails`), shares verdicts through
`llm_zone_check_cache` with `setdefault`, and then ranks candidates for what is
refused (`Rerank`) and writes the rows (`WriteResult`).

## 3. Runs

| Run | Instance | Shows |
|---|---|---|
| `TasksDelivery` | 2 equal tasks, 1 key, 3 requests that create and cancel, 2 threads of one worker, 1 worker crash | one task per key, no double execution, every message is revocable |
| `TasksRecovery` | a light and a heavy task that do not fit together, 2 queues with a worker of one thread each, 1 retry, 1 worker death at any point, fair | nobody waits without a carrier, every task settles, the books are repaired, `TaskContract` is kept |
| `TasksControl` | 2 tasks, 1 key, 2 requests with every operation, every kind of fault but a death right after a retry, one strike | types and bounded books |
| `ChatStreams` | all four streams over a task with 1 wait and 1 re-run, 1 token, 1 fault, fair | events once and in order, none missed but those committed behind the cursor, a turn that is not stored is announced, every stream ends |
| `PipelineChild` | 2 lines, pipes of 1 line, a tail of 2, 1 killed worker, fair | the log is whole, the cause of a failure is reported unless the join times out, no child outlives its run, every run ends |
| `CheckFlow` | a town of 6 cells and 2 zones, 2 concurrent requests, 2 workers, 3 readings of a document, 1 fault, 1 lost call, 1 expiry, 1 failure | equal questions get equal answers, refusals have evidence and agree with the template, what is accepted can run, placements divide the ground, allowed means allowed by the cadastre too, shared rows and caches fit, all views agree |
| `ConfigOverrides` | 2 keys, one protected, both with a row in the table; API with 2 threads, worker with 1; 1 change or reload, 1 fault, fair | the environment is layered, credentials stay, the table reaches the environment of every process, and its Settings unless a build is overtaken |
| `LlmCacheHeals` | 2 questions, 2 answers, 2 processes, expiry, 3 faults, fair | no torn answer, every question answered in the end, answers stop moving |
| `UploadsKept` | 3 uploads of 2 owners, two of one name and one called `meta.json`; 2 requests (one anonymous) with 2 layers, 1 fault, fair | a layer nothing is written over is the uploaded one, uploads stay their time, they and their remains go after it |
| `ResultsServed` | 3 runs, both namings, 2 readers, both storage backends, 1 fault, fair | a finished task keeps its result: the pipeline's, or any in the bucket; old files that no task refers to go, and copies that are out of date |
| `TasksRerunRace` | 1 task, create and recompute, no fault | violation: double execution |
| `ChatStorageDown` | as `ChatStreams`, the chat stream only | violation: a history that cannot be reached aborts the answer |

*Bounds.* `Requests` bounds creates and enqueues, `MaxRetries` capacity retries (50
in the code), `MaxChanges` admin requests that change the table or reload, `MaxRuns`
runs, `MaxFaults` faults of all kinds together; in `Streams` `MaxDetours` bounds
waits and re-runs, and `MaxTokens` the answer; in `ChildProcess` `MaxLines`,
`PipeSize`, `TailLines` and `MaxDeaths`; in `CheckFlow` `MaxLost` bounds failing
calls of the Urban API, `MaxExpiries` cache entries that run out, `MaxFailures`
failing services, and `Contents` and `Editions` how often a scenario or a document
changes. The races need two actors, and a third request in `TasksDelivery` to act on
a task two others race for; capacity needs two tasks that do not fit together;
retries need one that is used up (none is allowed in `TasksDelivery` and
`TasksControl`, where the first wait gives up at once: `TasksRecovery` has the retry,
and `ExecutesOnce` covers it where a worker has several threads); a reload
is the forced sync of a change without the change, so it is not combined with one;
two layers and two uploads of one name are the least that collide; a fault strikes
in every state once, which is what recovery is about. Where several faults matter (a
damaged file, then a failed write, then the end of the process) the bound is three.
A re-run between two polls is the longest detour a stream can be misled by; a pipe
of one line is full after one; a tail of two is the shortest that can hold a header
and a cause. The layers of `CheckFlow` are chosen so that every class of the code is
met: a straddling parcel, a zone the template does not know, a name only the model
knows, a cut that overlaps another. The safety results on the larger spaces do not
depend on the bounds: they are proved (section 5), with the conditions named there.

*Deadlock* is checked in every run but three: in `ChatStreams`, `ChatStorageDown`
and `PipelineChild` a stream or a run comes to its end and nothing is left to do.
The other services never stop (beat goes on, settings are asked for, clients may
submit), and `CheckFlow` states its end as a step (`Done`), so that a request that
hangs before it is found.

*Fairness.*  Threads that hold a message work, the broker delivers a message of
each task, a request past its commit goes on, and beat keeps its schedule; nothing
makes a client send anything and no fault is fair.  In `Streams` the event loop
goes on with a stream whose awaits return (each has a timeout), the worker takes
its messages and transactions end.  In `ChildProcess` child, readers and worker
are threads the system schedules; interruptions and deaths are not fair.  In
`RuntimeConfig` every process is asked for its settings again and again and time
passes.  In `LlmCache` a run asks all of its questions, hence strong fairness for
each one's miss; an answer comes in the end; a process that has lost its cache ends
some day.  In `Uploads` and `Results` only the cleanups are fair: that nothing
stays for ever must not depend on clients; in `Results` the worker goes on too, and a
file that is left alone gets old.  `CheckFlow` states safety only.

## 4. Findings

Each is a counterexample of a run whose property quotes the code's own promise;
`PROJECT.json` has the quotes.

1. `TasksRerunRace`: a recompute cannot revoke a message whose id is not in the row
   yet or that a worker has taken; two threads run the task at once.
2. `ChatStorageDown`: `chat_answer.py:12-13` promises that a failing chat history
   is a warning and never aborts the tokens.  Only `ChatStorageError` is caught,
   and the client raises it for error statuses only: a refused connection or a
   timeout ends the conversation before its first token.

Seen while modelling, without a run of their own.  Where the models contain this
behaviour, the properties hold beside it, or except it by name (`NoBuildOvertaken`,
`Overwritten`, the files of `ResultIsKept`), or the run's instance excludes it by a
named constant (the operations and faults of `TasksDelivery` and `TasksRecovery`).

*Tasks and configuration*
- A worker that dies after a capacity retry is published and before the message it
  repeats is acknowledged (`tasks.py:318`) leaves two messages of the task.  Where
  the worker has several threads (`docker-compose.yml:78`: four) two of them may
  take both, and run the task twice.
- A message is delivered again when its thread works longer than the broker's
  visibility timeout, with the same result.
- Cancelling a running task revokes the message that would have recovered it after
  its worker's death (`api/tasks.py:150`); it stays `running`, and reserved.
- `recompute` accepts `queued` and `waiting_capacity` although its docstring
  promises 409 (`api/tasks.py:176`, `283`).
- A failing enqueue leaves the task `queued` without a message, because the
  rollback takes the `failed` mark along (`create_task.py:149`).
- A commit of the capacity sum can be overwritten by a finish or a reconcile that
  read it before, until the next reconcile.
- A build of Settings under way while a sync clears the lru_cache is stored after
  it (`settings.py:237`).  The process keeps the old Settings although its
  environment is new, and no later sync finds a change to clear the cache for:
  against `config_runtime.py:4-7`, "all pick up changes within SYNC_TTL seconds".
- The build that validates an override can be answered from the lru_cache by the
  build of another request (`admin_config.py:47`), and the bad value is written to
  the table: against `admin_config.py:155`, "never persists a bad value".
- An expired LLM answer is asked for at every run and never replaced.

*Files*
- Two layers uploaded under one name and submitted by id both become the second
  file (`classifier.py:140`), and a file called `meta.json` becomes its own metadata
  (`uploads.py:106`).
- With object storage, a re-run of a deterministic task is answered with the copy
  fetched of the previous result until the cleanup removes it: its artifact's name
  carries no time (`api/tasks.py:1067`).
- With local storage, a re-run of a deterministic task may write its artifact anew
  between the cleanup's look at the old file and the unlink, which then removes the
  new one (`tasks.py:516`).
- With local storage, the newer artifact of an orphaned child may be taken for the
  run's own.
- When standard error is not read to its end within five seconds of the child's
  (`pipeline_runner.py`), the cause that is reported may be cut short.

*Streams and chat*
- An event committed behind the cursor of a stream is never sent.
- The chat generator sleeps inside its `session_scope`, so each open stream holds a
  connection.
- A question whose write fails is missing from the history though its answer is
  stored; the user is warned.

*Checks*
- The zones of a scenario's failed services are cached under the full key: a retry
  gets the row without services (`scenarios.py:490`).
- A mapping that expires while a request waits for its lock lets that request and a
  newcomer with a new lock both ask the model; an exception in the question leaves
  the lock in `_MAPPING_LOCKS`.
- When NormGraph cannot be read, the provisions of the PZZ itself are taken as the
  norms of a placement (`placement_context.py:125`).
- The overlap share in a parcel's report is that of the zone with the largest added
  area, which need not be the zone it is checked against.
- Codes are filled in for templates before the check, but the marking for manual
  review reads them raw; a template without `zone_code` makes the prompt raise, and
  the parcel an error row.
- A child code in a template permits its umbrella (`is_allowed`); the shortlist can
  demote a Top-1 of 12.0.2 (`rerank_layer.py:1016`).
- The review of zones drops a confirmed match to a template that does not exist,
  but counts it as covered; an automatic `classify_only` passes its zone labels on
  unconverted.

## 5. Proofs

Every theorem holds for all values of the constants under the named `ASSUME`s of
the modules.

- `TaskLifecycle_proofs!TypeCorrect`.  `TypeOK` is inductive because a request past
  its lookup has a task and a thread at work has a message (the types of `req` and
  `thread` say so).
- `TaskLifecycle_proofs!KeysAndRows`.  `OneTaskPerKey` is inductive with types: the
  unique constraint makes the second insert fall back on the row of the first.
  `MessageHasRow` needs that rows are never taken back (`RowsKept`).
- `TaskLifecycle_proofs!BooksStayBounded`.  `BooksBounded` alone is not inductive,
  since sums are read, kept and written later; `SumsBounded` says of every sum a
  thread or the beat job holds what `BooksBounded` says of the committed one.
- `TaskLifecycle_proofs!ExecutesOnce` has two cases.  Where every worker process has
  one thread (`OneThreadEach`), it holds for every operation and every fault: a
  process that executes a task has no other thread to take a second message of it
  (`Routed`: a thread only has tasks of its pool's queue).  Where it has several, as
  in the deployment, it is proved for clients that create and cancel only and
  without the two faults that give a task a second message (`SecondMessageFaults`:
  the redelivery of a message a live worker holds, and a death between a retry and
  the ack).  The invariant is `SingleMessage` then: a task has one message at most,
  queued, about to be sent, or held by a thread that may still act on it; a thread
  that has published a retry holds a message too, which it will only acknowledge.
  `TasksRerunRace` shows that the operations matter.  Either way threads are `Apart`:
  no two are busy with one task.
- `RuntimeConfig_proofs`: `ConfigTypeCorrect`; `EnvironmentIsLayered` and
  `ProtectedKeysStay` from one invariant: who holds the lock and what the
  environment is in each phase of its holder, what a baseline is, and that a
  candidate under trial is the only difference from the layers.
- `Uploads_proofs`: `UploadsTypeCorrect`; `UploadsStay`; and `InputsAreTheUploads`,
  for whatever names the clients give their files, from an invariant on the progress
  of a request: layers before the current one have been copied, the copy of a layer
  that is not `Overwritten` holds what was uploaded, inputs read so far are the plan
  where nothing was written over it.
- `Results_proofs`: `ResultsTypeCorrect` and `ResultsAreKept`, for both namings and
  both backends.  An object is that of the last run, whatever its name, because the
  cleanup never removes one.  A file of the pipeline is the run of its name, the
  worker is on the last run, and the cleanup's view is still true of every *old*
  file: a file that becomes a result after the references were read is new, which is
  what makes the gap between reading and unlinking harmless.  On disk and where names
  are used again it is not, which `ResultIsKept` leaves out.
- `Streams_proofs`: `StreamsTypeCorrect`, `StreamsAreOrderly`, `StreamsMissNothing`
  from `StreamInv`: what was told is ascending and not above the cursor, every id an
  open transaction has drawn is free, and a committed event is told, above the
  cursor or late.  A poll sends a set of ids in ascending order, `Ascending`: its
  n-th element is the one with n - 1 smaller ones.  That this is a sequence of all
  of them is proved without induction: ranks grow with ids, so the rank is an
  injection of a finite set into 1..n of the same size, and an injection between
  such sets is a surjection (`RankGrows`, `RankInRange`, `RankIsTaken`,
  `AscendingLists`).
- `Streams_proofs!LossesAreAnnounced` from `HistoryInv`: until the answer phase
  nothing was asked, and from then on a user's history holds what the step of the
  conversation says it does, or the client was told otherwise.
- `TaskLifecycle_proofs!RevokesReachMessages`, assuming that clients only create and
  cancel and that no API process dies between a message and its row.  `Named`: a
  message that waits or is held carries the id its row names, or the request that
  sent it is about to write that id, and one request at most sends for a task.
- `TaskLifecycle_proofs!NoTaskIsOrphaned`, assuming that clients only create, that no
  API process dies before it has sent and that the broker takes the message (each
  exception is in section 4 or the hazards: a failing enqueue leaves a `queued` row
  alone).  `NoOrphan` is not inductive, because a thread that loaded a settled row
  drops its message although it holds it: `EveryTaskCarried` asks for a message in
  the broker, a request that will send one, or a thread that *carries on*, one whose
  snapshot is active or whose next step gives the message back.
- `TaskLifecycle_proofs!ImplementsContract`: every step of `TaskLifecycle` is a step
  of `TaskContract` or leaves its variables alone, assuming that clients only create
  and the same two cases: one thread in every worker process, or no
  `SecondMessageFaults`.  Workers may die, the API may die and the broker may refuse.
  Because busy threads are `Apart`, one that acts on a task is alone with its row, so
  that its snapshot is still true when it commits (`HolderKnows`); a stale snapshot
  is what would take a finished task back.
- `LlmCache_proofs`: `CacheTypeCorrect`, `AnswersAreWhole`, and `AnswersStay` from
  `CacheInv`: a thread that writes holds an answer, since `put` is reached from an
  answer only; so what `os.replace` puts in place is one.
- `ChildProcess_proofs`: `LogsAreWhole`, `CausesAreReported` and
  `NothingIsLeft`, for pipes and tails of every size and children of any number of
  lines, from `ChildInv`.  `NothingLost` numbers the lines: those in the log, in the
  record held back, in the queue and in the pipe, one behind the other, are the lines
  the child wrote.  The end-of-file mark is last in the queue and comes after the
  child is gone and its pipe empty.  `TailFits` says that what is left of standard
  error ends with what the child told of its failure, as much as the tail has room
  for; `Life` says where a child can be in each phase of its run.
- `CheckFlow_proofs!RowsServedFit`.  `ServedFits` speaks of requests that are over;
  `ScenarioInv` says of every request under way what it has read, and that no part
  of it is older than the version it met, and of every row that it states itself
  what its key is made of: whoever made it, a request with that key asked the same
  under the same version, and a version's data are never older than the version.
- `CheckFlow_proofs!MappingsFitZones` from `MappingInv`: every cached mapping and
  every mapping in a request names zones of the edition it is filed under, because
  the vote and the prefixes only choose among its zones, and editions that share a
  key have the same zones (`KeyCodes`).
- `CheckFlow_proofs!ModelIsAskedOnce` from `AskInv`: who asks holds the lock it
  queued for, and all requests that queue for an edition without a mapping queue
  for the one lock in the table.  So one request asks at a time, and by then as
  many questions were asked as calls had broken; an answer is stored before the
  lock is given back, so whoever waits finds it.
- `CheckFlow_proofs`: `SameAnswers`, `EvidenceOfRefusals` and `RefusalsMatchTemplates`
  from `FlowInv`, whose part `CheckInv` says of a row that it is an error or what
  the rules, the *shared* answer and the *shared* ranking make of its parcel, of a
  shared refusal that a model was heard to give it, and of every question that it is
  queued, in a worker's hands or decided.  Two parcels with one key may be decided
  by two workers that both asked; both rows then hold the answer `setdefault` kept.
- `CheckFlow_proofs!AllowedByZoneAndLand` from `LandAgrees` and `ScenarioInv`: a
  verdict that allows went through `WithLand`, and a row of a placement, which has
  none, cannot be shown as a check, because its code, which is in its key, routes it.
- `CheckFlow_proofs!AcceptedRequestsCanRun` from `RowIsAccepted`: a row was made of
  an answer "created".  The first refusal that is not "ok" is the answer
  (`FirstRefusalIs`), so what a row was made of has passed every check before; the
  lemmas go through the checks of each endpoint (`SlotsAreThere`, `CreatedPassed`,
  `CreatedHas`, `WarnedOrDescribed`).
- `CheckFlow_proofs!PlacementsPartition` from `PlacedInv`.  What a cut takes is what
  no earlier cut has taken, and the first cut over a cell is the least of the numbers
  of the cuts over it (`CutsDivide`).  Suitable ground keeps its distance because a
  wider buffer covers a narrower one (`BufferGrows`) and the least width is below
  every class's (`WidthsAreLeast`).
- `CheckFlow_proofs!ViewsFitTogether` from `ViewInv`: a finished task is viewed as one
  of its kinds, its result is a list, and overlaps are listed as they are counted.
  The rest is arithmetic over results of any length.  The counters of a report count
  lines by label and are summed by `MapThenSumSet`, which iterates over subsets;
  counting is such an iteration (`IterExists`) and there is no other, for a least set
  on which two differ would have a smaller one (`IterCounts`).

Induction.  What folds, sums and `FlattenSeq` compute is proved here without an
induction theorem: two functions with one recursive equation agree, because the
numbers (of places, or of elements) at which they differ have a least one
(`LeastNumber`, from `NatLessThanWellFounded` and `WFMin`).  `Placement` states the
norms and cuts as functions by number, so that the order they apply in is that of
the numbers.

Assumptions of `CheckFlow`: `AsksAssumption`, `RequestsAssumption`,
`LayersAssumption`, `ContentsAssumption` and `WordsAssumption`.  They say what the
types of the API and the readers of layers say: layers are lists, a mode is one of
the endpoints', only the endpoint that finds the columns places services, hazard
classes are those `hazard_class` can read, and texts with one canonical form, or one
lower case, are read alike where the code reads that form.

Only model-checked: liveness, since fairness and ENABLED are out of the prover's
reach (`EveryTaskSettles`, `CapacityRepaired`, `OverridesReach`, `SettingsReach`, `CacheHeals`,
`EntryStopsMoving`, `ExpiredUploadsGo`, `StaleOutputsGo`, `StaleCopiesGo`,
`StreamEnds`, `RunEnds`), and the violations.  Every safety property of a passing run
is proved, those named with assumptions on clients, threads or faults under these;
the instances of `TasksDelivery` (several threads, no `SecondMessageFaults`) and of
`TasksRecovery` (one thread each) meet them.

## 6. What is not modelled

`PROJECT.json` lists every component with the reason.  In short: authentication,
the MCP server, clients of remote services, start-up, logging and migrations have
no state that several actors share.  The embedding cache writes like the LLM cache,
without its second look; what it adds is the width of vectors.  The similarity of
texts, the patterns in a wording, embeddings and geometry are inputs of the models.
Left out of modelled components: timestamps, the formats of files, the links of
`service_reports.py`, the wording of reports, prompts and answers.

## 7. Plan

1. Proofs: the parts of liveness that are safety, such as that each helpful step of
   `RunEnds` and `StreamEnds` lowers a measure; the books of `TaskLifecycle` without
   concurrent writers (that the sum is then exact).
2. Larger instances: three layers in `Uploads`, three lines and a longer tail in
   `ChildProcess`; in `TaskLifecycle`, what two messages of one task may lead to at
   worst where a worker has several threads.
3. The embedding cache's refetch, and the key rotation of the token verification.
