# SACAI platform: TLA+ verification project

This directory specifies, model-checks and proves properties of the SACAI scientific platform
(`src/sacai-platform/`): the job-control API, its Celery workers, the scientific workflow and the remote
notebooks they run, the two-phase cleanup, and the OpenWebUI Tools that submit jobs, publish their results
and search catalogues. Paths below are relative to `src/sacai-platform/` unless they start with `src/`.
The trees `src/source-code/open-webui` and `src/source-code/pystac-client` are vendored; of OpenWebUI the
modules cover what the platform's deployment exercises on shared state: collaborative notes and the
deletion of files. What has no source here at all (Celery's worker, LangGraph, the Jupyter Server) is
modelled by what the platform relies on and marked external in `PROJECT.json`.

## 1. Inventory

| Component | Source | State it keeps | Operations |
|---|---|---|---|
| Job-control API | `service/app/api.py` | Redis `sacai:job:<id>`: one JSON value per job (owner, kind, `cancelled`, `published_files`), seven days | submit (2 routes), status, cancel, publication, cleanup, audit, ISIS search |
| Celery application | `service/app/celery_app.py`, worker commands in `docker-compose.yml` | Redis broker (messages, unacknowledged set), result backend, revoked ids in worker memory | routing, late acknowledgement, redelivery, time limits, revoke |
| Task functions | `service/app/tasks.py` | audit events | `_run_job`, `workflow_task`, `notebook_task`, `cleanup_task` |
| Cleanup | `service/app/cleanup.py` | SQLite table `cleanup_preview`, the output and tool-version trees | preview, execute |
| Audit log | `service/app/audit.py` | SQLite table of immutable events | append, list |
| Workflow graphs | `service/app/orchestrator.py` | LangGraph checkpoints in SQLite | optional ISIS, PlanetIR, grounding, report; cleanup graph with interrupt |
| Notebook runtime | `service/app/notebook_runtime.py` | remote Jupyter session, output directory | run cells, poll cancellation, capture outputs |
| PlanetIR | `service/app/planetir.py` | output directory | sample, statistics, detection, restoration, report |
| ISIS | `service/app/isis.py`, `isis/isis_preprocess.py` | output directory | one wrapper process with four stages, each a program |
| Settings, schemas, security | `config.py`, `schemas.py`, `security.py` | none | limits, validation, path resolution |
| Publishing Tools | `openwebui_tools/planetir.py`, `isis3_preprocess.py`, `scientific_workflow.py`, `jupyter_runtime.py` | OpenWebUI file table and storage | submit, status + `_publish`, cancel |
| Other Tools | `admin_cleanup.py`, `stac_catalog.py`, `isis3_preprocess_tool.py` | OpenWebUI files; none; none | cleanup of files, STAC search, ISIS search |
| Grounding guard | `openwebui_functions/grounding_guard.py` | none | compare numbers of an answer with tool results |
| OpenWebUI | `src/source-code/open-webui/backend/open_webui/` | here: shared documents, save tasks, file rows and contents | join, update, leave, disconnect, save; delete a file |
| Branding, images, scripts, evaluation | `branding/`, `docker/`, `scripts/`, `model-eval/`, `prompts/` | build-time only | - |

**How they interact.** A Tool (a coroutine of OpenWebUI) calls the API over HTTP. The API runs in
two uvicorn processes, each with a thread pool; its handlers share Redis and nothing else. `submit`
checks the quota, stores the metadata and publishes a Celery message; a worker takes the message,
stores `STARTED`, runs the task (which appends audit events around the processor), stores the
outcome and only then acknowledges. `cancel` broadcasts a revoke and, for notebooks, sets a flag
in the metadata. A Tool that sees `succeeded` hashes the artifacts in the shared output directory,
uploads them into OpenWebUI Files and posts the descriptors back. An administrator's cleanup
removes old output directories from the same tree, by a stored preview; its Tool then deletes the
OpenWebUI files of old jobs.

**What is hard.** Check-then-act over Redis without locks; read-modify-write of whole JSON values by
concurrent routes; at-least-once delivery with side effects on disk, on a Jupyter Server and on a
thread of checkpoints; revokes that are broadcast once and remembered in memory; deadlines of four
layers that race; an audit event next to an effect without a common transaction; files that are
checked, then used; removal of directories that jobs still write to; coroutines that look at shared
state before an await and act after it. The full list, each item at its line, is `hazards` in
`PROJECT.json`.

**What makes each component correct.**
API: owners isolated; limits exceeded by a known amount at most; a reported success is real;
flags of the metadata survive. Queue: no job lost, none run twice at the same time, every job ends,
success implies its audit events. Cleanup: only what the administrator saw (or what is newer) is
removed, what was listed was old, removals are recorded, a token runs once. Publication: stored
descriptors are complete. Graph: no analysis of the raw product, grounding decides before the report,
a report is about one run. Notebook: cancellation takes effect, one run writes, the remote session is
closed, cells see their own product. Search: it ends, and says "not found" truthfully. Notes: everybody
sees the stored document, and what was typed is saved unless an update that lacks it, or a refusal, gets in the way.

## 2. Modules

| Module | Models | Composition |
|---|---|---|
| `JobLifecycle` | what the queue promises the API: dispatch, revoke, start, outcome, redelivery | abstract |
| `JobQueue` | broker, workers, task functions, faults | implements `JobLifecycle` (`ImplementsLifecycle`, `ImplementsFairness`) |
| `JobService` | the routes of the API, one action per access to Redis, Celery or the audit database | extends `JobLifecycle` for job execution |
| `JobTimes` | the deadlines of one job: hard limits, timeout of the ISIS3 wrapper, visibility timeout, retention, cleanup age | queue, API and cleanup by their effects in time |
| `NotebookRuntime` | `execute` of remote notebooks, concurrent and redelivered | the broker by its deliveries |
| `WorkflowGraph` | the scientific graph over checkpoints, ISIS3's wrappers and programs | own |
| `Publication` | `_publish` of the Tools, overlapping calls | the API's two routes as single steps |
| `Cleanup` | preview and execution against the output tree | own |
| `AdminCleanup` | the cleanup Tool and the cleanup graph as clients, deletion of OpenWebUI files | extends `Cleanup`, step by step |
| `StacSearch` | paged search of the STAC Tool against any server | own |
| `NoteDocument` | collaborative notes of OpenWebUI: rooms, document store, save tasks | own |
| `MC...` | model values and bounds of the runs | extend the above |
| `...Proofs` | theorems (section 6) | extend the above and TLAPS |

Definitions whose comment begins with "Fault variant of X" are what X would be with a plausible
bug. They are used by nothing; each shows that some property notices the bug.

### JobLifecycle and JobQueue

`result` is Celery's state of each job in the result backend. `RECEIVED` is not modelled: no worker
stores it. The backend never overwrites a stored success (`Store`), which is why a
redelivered job that had succeeded stays `SUCCESS`.

A worker of `JobQueue` is one pool process with the parent that feeds it (prefetch 1, so at most one
message). `held` and `stage` follow its message: received, launched (`STARTED` stored), running
(`job.started` appended), returning (`tool.raw_result` appended) or raising (`job.failed`
appended), stored, acknowledged. `inbox` and `known` are the revoke broadcasts not read yet and the
revoked ids in memory. A revoke of a science job has `terminate=True` and kills the process; of a
notebook job it has not (`NotebookJobs`). `audit` holds the event types appended for each job.

Faults, each counted by `faults`: `ChildLost` (process killed; `task_reject_on_worker_lost` requeues),
`WorkerRestart` (container restarted: messages restored, `known` and `inbox` empty, as no worker command has
`--statedb`), `AuditDown` (the audit database fails, so the task raises without an event) and
`VisibilityTimeout`: the Redis transport hands a message out again when it has been
unacknowledged for an hour (Celery's default; `celery_app.py` sets no transport options), which is
less than the hard limits of isis3 and workflow (7200 s) and notebook jobs (4200 s). Such a worker
is `overdue`; two runs of its job then overlap. `JobTimes` has that timeout and the limits in time.

### JobService

Each of the `Handlers` is a thread serving one request. `pc` says where it is, `snap` is the
metadata it has read, `counted`/`toScan` are its quota scan (Redis SCAN returns every key that exists
throughout the scan and may return keys added later). `HandlerFails` can end any handler between two
steps: an HTTP 500 or the death of the process. `told` records every status answered about a job,
`events` its audit events. A client can name only a job whose id was returned to it.
`publish` is called by a Tool that was told "succeeded" before. `Kinds` merges planetir, isis3 and
workflow into "science", since the routes treat them alike apart from the queue's name. The module is
about the time before metadata and results expire; `JobTimes` is about their expiry.

### JobTimes

One job, the pool processes (`Slots`) that may run it, and timers that count ages (of a run, of the output
directory) or remaining lifetimes (of the metadata, of the result). `Tick` is the passing of one unit and waits
for everything whose deadline has come: a run at its hard limit, an ISIS3 wrapper at the timeout
that `isis.py:67` gives it. What the wrapper has started outlives it, and the wrapper outlives a killed pool process:
`orphaned` says that such a program is at work, and it writes as long as it likes (`OrphanWrites`). `Store` renews the
result's lifetime unless a success is there; `Cancel` (notebooks) and `Publish` renew the metadata's. `PreviewLists` lists a
directory older than the minimum age, or the user's directory while nothing is in it; `CleanupRemoves` executes a preview later
without looking at the age again, and `swept` records that it removed what was written since.

### NotebookRuntime

`run[w]` is one call of `execute`: fetch the notebook, POST a session, make the output directory, run the
injected cell 0 and the notebook's cells, DELETE the session in the `finally` clause, save. `kernel[n]` is the
session the Jupyter Server has for notebook `n`: the server answers a POST for a path with its existing
session (`ServeSession`). `product` is the job that assigned `product_id` last; `read` collects what the cells
have seen. `CellRaises` stands for connection errors, error outputs, a cancel that a poll finds, oversized
outputs, the deadline and the soft limit. Counted faults: a lost POST (executed or not), a failing DELETE, a killed
process (requeued or not), a redelivery. `shared` records the jobs whose session served another run meanwhile.

### WorkflowGraph

One workflow job and its thread. An invocation merges its fresh input into the channels of the latest
checkpoint, so that channels it does not name (`isis_result`, `planetir_result`) keep their old values; a node's
return updates the invocation's channels and the checkpoint (`Update`). `raster` is the content of
`calibrated_projected.tif`, by the invocation whose ISIS3 wrote it, "partial" while one is projecting and when it was made from
the cubes of several. `NodeRaises` kills the wrapper only: the program of the stage it was at goes on (`LeftBehind`;
`isis_preprocess.py` starts it as a child of its own) and writes its cube, so that what starts meanwhile may project mixed
`cubes`; `Killed` leaves the wrapper with all its stages. Texts are sets of numbers, each a sequence of digit groups as
`_numbers` sees them. `disturbed` records that an invocation began next to another one or to anything left over.

### Cleanup and AdminCleanup

The tree is `<user>/<job>`; `mtime` gives the modification time of each directory in whole time units (hours
of the minimum age), `Absent` when it does not exist. A candidate is a job's directory, or a user's
directory with no job in it. `Stale` takes the larger of the requested and the configured age.
`StartExecute`, `Inspect`, `Remove`, `AuditDeletion`, `MarkExecuted` are the steps of the execute branch;
`TargetGone` is `rmtree` on a directory another execution has removed; `RemoveFails` an `rmtree` that
stops half way, which counts as a removal; `SessionFails` a death or a failing audit database at any step (the sqlite transaction
rolls back, so the token is not marked). `WriteOutput` is a worker creating or extending an output, up to
`JobSpan` after its creation.

`AdminCleanup` adds the two clients. `ToolPreview` stores with the preview the files of jobs older than the Tool's
own minimum age (`ValveAge`); `ToolExecute` waits for the service's session, which goes on if the request
times out (`RequestTimesOut`). After the answer the files are looked up and deleted one by one
(`FindFile`, `DeleteRow`, `DeleteContent`: OpenWebUI's router commits the row's deletion before it deletes the content;
`DeletionFails` is an error of either), then recorded (`AuditFiles`). `CallStops` is a stopped chat, a dead process or a failing
audit request, also between row and content; `lost` has the files treated or in hand then. `GraphPreview` and `GraphExecute` are the nodes of the cleanup graph around its interrupt, which list no files.

### Publication

One call is one `status` action on a succeeded job. `Check` (presence, hash and size) and `Upload` (open and
copy) are separate steps, as in the code, for each artifact in turn; `Post` replaces the
descriptors in the job's metadata, `Emit` shows them in the chat. `disk` is the content of
each artifact relative to the hash in the stored result: "hashed", "other" or "missing". A
redelivered run truncates and rewrites an artifact (`RerunWrites`) and ends with the
same bytes (`RerunFinishes`) unless the artifact is `Dated`, like `planetir_report.json` with its
`generated_at`. `CallFails` ends a call anywhere, its upload or POST done or not.

### StacSearch

`Request` is a POST or the GET of a link: any page of up to `PageMax` products, any next link, any of the `Counts` of
matches on the first document. `Follow` and `Answer` are the loop of `_search_all`: it takes what the
limit leaves room for, remembers links and stops at a repeated one, with `truncated` as in the code. `NotFound` is
what `_execute` reports of the wanted products. `served` is what the server has sent altogether.

### NoteDocument

A session joins (`Join`, and after the database has answered `Joined`), sends updates (`Send`), leaves (`Leave`, and after the
emit `Left`, which looks at the users again) or disconnects. An edit's handler walks over the note's pending
save tasks and cancels them (`StopNext`; the list shrinks as done callbacks run, and the walk gives up at a task
that another handler is stopping), appends the update, and after its emit creates a save of its own, which
sleeps and writes the sender's `text` (`Wake`, `SaveNote`), unless the note is gone or the right to write it. An update may come
without a text, as the client sends it that reconnects to an empty document: then the saves are cancelled all the same and none is
created (`SaveNothing`). What a reconnecting client has kept, and an update that a client sends again because it received it, are
edits like any other. One action is what lies between two awaits that suspend; without
Redis, as `docker-compose.yml` deploys OpenWebUI, those of the managers do not. A document is the set of its
updates, so compaction is no step. `late` and `ghosts` record the two ways in which a document or a user stays
behind: an edit whose handler outlives the last user, a join that outlives its session. `saved` has the edits that were in some saved
text, `discarded` those that a cancelled or refused save, or an update without a text, has left without a save to come.

## 3. Runs

"pass" runs find no error; the "violation" run states what the documentation says
and shows the code doing otherwise (quoted under `findings` in `PROJECT.json`).

| Run | Checks | Bounds |
|---|---|---|
| `MCJobQueue` | `NoJobLost`, `OneCopy`, `SuccessIsAudited`, `ForgettingBounded`, `ImplementsLifecycle` | 1 PlanetIR + 1 notebook job, 2 workers, 2 faults of any kind |
| `MCJobQueueLive` | `JobsSettle`, `ImplementsFairness` | the same jobs, 1 worker, 2 faults |
| `MCService` | `OwnerIsolation`, `ToldSuccessIsReal`, `FlagsLostOnlyToStaleWrites` | 1 job, 3 handlers, 2 users, all routes, 1 redelivery |
| `MCServiceQuota` | `QuotaBound`, `AcceptedJobsEnd` | 3 jobs, 2 handlers, 1 user, both limits 1, submissions only |
| `MCJobTimes` | `OverlapBound`, `OneAttended`, `QueuedMeansQueued`, `ArtifactsOutliveSuccess`, `DeliveriesEnd` | each kind, 3 pool processes, unit half an hour, retention and minimum age 5 units |
| `MCNotebook` | `OneWriter`, `OwnProductUnlessShared`, `AbandonedOnlyByFaults`, `CancelledRunsEnd` | 2 jobs of 1 notebook, 2 workers, 1 cell after the injected one, 2 faults |
| `MCNotebookShared` | violation of `OwnProduct` | the same, no fault |
| `MCWorkflow` | `RawIsNeverAnalysed`, `ReportIsGrounded`, `ReportIsOneRun` | 3 invocations or resumes, 3 texts (empty, ungrounded, with a thousands separator) |
| `MCPublication` | `DescriptorsAreComplete`, `PublishedUnlessDisturbed` | 3 calls, 2 artifacts (1 dated), 2 faults of any kind |
| `MCCleanup` | `ListedOrNew`, `OldWhenListed`, `DeletionsAudited`, `ExecutionsBounded`, `OnlyApprovedFiles`, `FilesAudited`, `ContentLeaksBounded` | 1 user with 2 outputs, 1 file, 2 tokens, 2 sessions, 1 failure, clock 0..3 |
| `MCStac` | `NotFoundIsAbsent`, `AnswerIsBounded`, `SearchEnds` | 2 products, pages of up to 2, 2 links, limits 1 to 3, counts 0 to 7 |
| `MCNote` | `MembersAgree`, `DocumentIsReleased`, `EditsPending`, `EditsAreSaved` | 2 sessions that join, leave and come back, 2 edits with or without a text, saves refused or not |

**What they show.** *Queue*: acknowledging late loses no job in any combination of two faults, and the only way
to two simultaneous runs is a run longer than the visibility timeout; a revoke is forgotten by no more workers
than were restarted; the API may be modelled on `JobLifecycle`. *Service*: concurrent routes can lose each other's
flags but never mix owners or report a success that is not there; both limits are exceeded by less than the number of
concurrent handlers. *Times*: the number of overlapping runs of a job is limited by the quotient of hard limit and
visibility timeout; because the ISIS3 wrapper has the general limit, not the task's, of two wrappers that runs wait for one has
just begun -- yet a program that outlived its run may write next to both, as `MCWorkflow` shows; a finished job reads as
queued only if its record was written again; a fresh success keeps its artifacts unless they appeared below a user's directory
that a preview had listed while it was empty.
*Notebook*: `mkdir(exist_ok=False)` suffices against redelivered runs, but not against other jobs of the same notebook, which share its
kernel. *Graph*: old checkpoints never make the graph skip ISIS3 for a raw product; the raster hashed in a report is the one
analysed, provided that invocations, and what their ISIS3 left running, did not overlap. *Publication*: the descriptors in the record are those
of one call that uploaded everything. *Cleanup*: whatever interleaving of executions, writes, file deletions and one failure, an
output that was there and not listed survives, files go only after an executed preview that listed them, and each fault hides at
most one removal or one content. *Search*: any server is left after finitely many requests with a truthful answer. *Notes*: the
room and the store stay consistent; although every edit cancels the saves before it, an accepted edit gets saved, except by the
three ways that `EditsPending` names: an update without a text, one that lacks the edit, a refused save.

**Why the bounds are enough.** The races need two actors: two workers, handlers, sessions, jobs or calls; the
third handler, call, invocation or pool process lets a race happen while another completes, or a third run begin while two overlap.
Two faults let a redelivered run fail again. A quota of one and three jobs reach every case of the bound that the race makes (limit,
limit plus one, a third job refused or not); `MCServiceQuota` has no redelivery, whose part of the bound the theorems of
`JobServiceProofs` cover and whose action `MCService` exercises. Cleanup ages need "younger", "at" and "older" than the minimum, and
a preview that has expired: clock 0..3 with `MinAge` 1 and `PreviewTtl` 1; two tokens and two sessions let one execution remove what
another preview lists. Of three calls two may fail, so `PublishedUnlessDisturbed` has one that does not. In `MCJobTimes` the
limits keep the proportions of `config.py` (3600 s, 7200 s, 4200 s rounded up, visibility 3600 s); the week of retention and the week
of minimum age are shortened to the same number, longer than any limit, since only their order matters. A page of two
products, limits of up to three and two links reach a cut page, a full page at the limit, and a link that leads back. The theorems
then drop the bounds.

Symmetry is used over workers, handlers, users, jobs, sessions, tokens, outputs and invocations, which no definition
distinguishes, in `MCJobQueue`, `MCService`, `MCCleanup` and `MCWorkflow` only; no run with a liveness property uses it. Deadlock checking is
off because the modelled system really stops: all jobs done, the clock or the calls at their bound.

## 4. Fairness

- `JobQueue!FairSpec`: weak fairness of each worker's progress with its message. The pool runs or kills (hard
  limit) what it has received, and polls the broker. Users, revokes and faults owe nothing; faults are finitely many.
- `JobService!FairSpec`: weak fairness of job execution only, which `ImplementsFairness` shows the queue to
  provide. Handlers have none: `AcceptedJobsEnd` holds although they may stall or die.
- `JobTimes!FairSpec`: time passes, a free process takes a message that waits, and runs end (at their limit at the latest).
  `DeliveriesEnd` holds only for jobs that do not reach the visibility timeout for ever, and says so.
- `NotebookRuntime!FairSpec`: weak fairness of each worker's run: requests have timeouts, cells a deadline, so a run
  always goes on or raises. Nothing is assumed of the kernel: a cell whose session is gone can only end by `CellRaises`.
- `Publication!FairSpec`: weak fairness of each call, including its start: the Tool's text tells the model
  to ask "with that ID until it succeeds". `PublishedUnlessDisturbed` assumes more calls than failing calls.
- `StacSearch!FairSpec`: requests return or time out. `NoteDocument!NoteFairSpec`: coroutines that can go on do; sessions owe nothing.

## 5. Findings

`MCNotebookShared`: jobs of the same notebook that run at the same time (four may) are given the same Jupyter session, and the cells
of one read the `product_id` of the other, although the manual says a notebook receives its product.

Other observations from the same models. Those that a property bounds are checked in that form; all are among the `hazards`
unless they concern a part that is not modelled:

- simultaneous submissions exceed the quota (by less than the handlers: `QuotaBound`); metadata of a submission that failed
  before `apply_async` counts against it for seven days;
- a cancellation writes away a publication stored since it read the metadata, and a publication a notebook's `cancelled`
  flag (to stale writes only: `FlagsLostOnlyToStaleWrites`);
- a job answered as cancelled may be reported as succeeded, when it had finished before the revoke was read; a
  restarted worker forgets revokes (`ForgettingBounded`);
- the flag of a cancelled notebook is stored before its revoke is sent: a handler that ends in between leaves a job answered as cancelled that no
  worker was told to drop (`ServiceAnswersAreBacked` is about science jobs there; the runtime's polls end the notebook, `CancelledRunsEnd`);
- a job killed at its hard limit has no `job.failed` event (`HardTimeLimit`);
- a job that always takes longer than the visibility timeout, and does not end by itself, is delivered again without end
  (the exception in `DeliveriesEnd`);
- metadata lives seven days from the submission, also when the job waits in the broker longer than that: the job then runs without a record;
- overlapping calls register artifacts twice; an artifact rewritten between `Check` and `Upload` is registered under the hash of its
  former content; after a redelivered run rewrote the dated report a job can never be published (`PublishedUnlessDisturbed` excludes it);
- a young output disappears with its user's listed, then empty, directory (`OldWhenListed` says "written since");
  a token can be executed by several sessions at once (at most once by each: `ExecutionsBounded`); a removal lacks its event after a
  failure in between (`DeletionsAudited`);
- a number with a thousands separator is grounded group by group (`ReportIsGrounded` is about numbers of one group); the Filter of the UI
  compares with the tool outputs of the whole chat, not of the turn;
- an edit whose handler outlives the last user of a note leaves its update in memory until the next one leaves; a join that outlives its
  session leaves a user for good (`late` and `ghosts` in `DocumentIsReleased`);
- an update without a text cancels the saves of a note and creates none, so that another client's edits stay unsaved until the next
  one with a text; a saved text is one client's, which may lack a concurrent edit that only the shared document has; and a
  save is dropped without notice when the right to write ended in the half second before (`discarded` in `EditsPending`);
- a call of the cleanup Tool that stops between the deletion of a file's row and of its content leaves the content for good
  (`ContentLeaksBounded`);
- of an ISIS3 run that timed out or was killed, the program at work or the whole wrapper goes on writing to the directory of the job
  (`OneAttended` is about wrappers that a run waits for; `ReportIsOneRun` has the exception);
- `stop_item_tasks`, whose docstring says it stops all tasks, walks over a list that shrinks and returns at the first failure: an older
  save may run next to a newer one;
- with Redis, which this deployment does not have, compaction replaces the list of updates it read before, and
  `redis_cleanup_task` may delete a set of tasks that has just become non-empty.

## 6. Proofs

All theorems hold for every value of the constants that satisfies the named assumptions of the modules
(`QueueAssumption`, `ServiceAssumption`, `NoMetaAssumption`, `TimesAssumption`, `CleanupAssumption`, `NoPreviewAssumption`,
`ToolAssumption`, `PublicationAssumption`, `NotebookAssumption`, `NoKernelAssumption`, `GraphAssumption`, `StacAssumption`); TLC evaluates
these in the runs. Two theorems of `JobTimesProofs` have a hypothesis of their own.

- `JobQueueProofs`. `QueueInv` strengthens the safety properties: what a worker has agrees with its stage (`Holding`),
  jobs outside `dispatched` have no message, result or event, the stored result follows the run (`ResultFollowsRun`: a job running
  or finished is not `PENDING` any more), and the audit events follow the stage (`AuditFollowsRun`). From it:
  `NoJobIsLost`, `JobsHaveOneCopy`, `SuccessesAreAudited`. `OneCopy` is needed for "not lost" because an
  acknowledgement may only drop a job whose outcome is stored. `ForgettingIsBounded` by counting the workers a step adds.
  `QueueImplementsLifecycle` maps each action to one of the abstract module or a stutter, with the identity on
  `dispatched`, `revoked`, `result`. `CopiesAreBounded` turns `OneCopy` into a number: all but one of the places a job is in are
  overdue runs, each of which a fault has made. `WorkRunsOut` is the safety half of `JobsSettle`: `WorkLeft` counts seven for each message
  in the broker and the stages each worker has before it; a worker's step lowers it, and nothing but a submission or a fault raises it.
- `JobServiceProofs`. `OwnerInv` says what a handler holds at each stage; the write-back of a snapshot keeps
  the owner because the snapshot has the owner of the request (`FlagWrite`). `ToldInv` relates handlers
  about to answer "succeeded" to the final success. `FlagsAreLostOnlyToStaleWrites` is an action
  property from the same invariant.
- `JobServiceProofs`, second part. `QuotasAreBounded` by counting: for every set S of outstanding jobs (of a user, or of all), the
  number of jobs in S plus the number of handlers that can still pass the check having missed some of S
  never exceeds limit + (handlers - 1) + redeliveries (`QuotaInv`). Proved with the
  library's theorems on finite sets.
- `JobServiceProofs`, third part. `KindInv`: a loaded record is of the kind of the stored one, and only notebook jobs have the cancelled flag,
  although whole records are written back; hence `RecordsKeepOwnerAndKind`. `AnswersInv` says what a handler knows of its job at each stage, from
  which `ServiceAnswersAreBacked`: who was told anything of a job has it in the broker's history and in the audit trail, and a science job
  called cancelled was revoked. For notebooks the latter is false (TLC finds it): the flag is written before the revoke, and a handler that ends in between
  leaves a job that reads as cancelled and of which no worker was told; it is stopped by the runtime's poll instead. `ServiceKeepsLifecycle`
  closes the composition: service and queue are both behaviours of `JobLifecycle`.
- `JobTimesProofs`. `TimesInv` is inductive: runs and their ISIS3 wrappers are within their deadlines (`Deadlines`); the ages of two runs of the job are at
  least the visibility timeout apart, the one that owes the acknowledgement is the youngest (`Spaced`); a result outlives a record
  that was not written again (`Lifetimes`); after one delivery the output is not older than the run, nor than the success and the run before it (`FirstRun`). Counting the ages by their quotient with the
  visibility timeout gives `OverlapsAreBounded`. `ShortJobsTakeTurns` says that a limit of at most the timeout leaves overlapping runs no time
  together: such kinds (planetir, 3600 s each) are outside `LongJobs` of `JobQueue` in
  the runs, although the broker may give them out again at the very limit; the theorems of `JobQueueProofs` hold for any `LongJobs`.
  `AttendedTakeTurns` has the hypothesis that the general limit, which the wrapper gets, is at most the visibility timeout; `config.py`
  and Celery default to one hour each. From the lifetimes follow `QueuedIsQueued` and, with what a listing may have seen (`Listed`), `ArtifactsOutlive`.
- `CleanupProofs`. A preview is never dated in the future, a session's targets are those of its preview, and an
  output that exists under a listed empty directory is newer than the preview (`ListedOK`).
  `DeletionsAudited` by `UnrecordedStep`: only a failing session leaves a removal behind, and only the one it was at.
  `ExecutionsBounded` by `TokenInv`: once a token is marked, completed executions and sessions under way are together no more
  than the sessions, and no session joins. For `AdminCleanup` every step is one of the service, a fault of a client
  (`ClientFault`) or leaves the service's variables alone (`ClientStep`), so the service's invariants carry over
  (`ServiceInv`); `ToolInv` adds that what a call deletes is in the preview it executed (`CallOK`) and that listed files were old (`FileIdsOK`).
  From it `OnlyApprovedFilesGo`, `FilesAreAudited` and, by counting what a step adds to the contents that nobody is
  about to delete (`LeaksStep`), `ContentLeaksAreBounded`.
- `PublicationProofs`. `Progress`: a call at artifact n has rows for all artifacts before it; rows only grow
  (`RowsGrow`), so whatever is complete stays complete, wherever other calls fail.
- `NotebookRuntimeProofs`. `TypeInv` adds what a run has at its stage (`RunOK`). `WriterInv`: a job whose run is past `mkdir`
  has its directory, so that the next one cannot pass. `SessionInv`: session identifiers are used once and a run's is that of its own notebook,
  which gives `OnlyFaultsAbandon`, as only a run that leaves without DELETE, or a POST without run, abandons. `ProductInv`: a job that is not
  `shared` is alone with its session, so after its first cell the session's product is its own.
  `RunsRunOut` is the safety half of `CancelledRunsEnd`: a cancelled job begins no run, and each step of one that has begun leaves fewer.
- `WorkflowGraphProofs`. `RunInv`: an invocation that goes to PlanetIR with its upload has a ready file, one that goes to the
  report has a grounded text. `OneRunInv`, which holds until `disturbed`: at most one invocation is active and the raster is what its own
  ISIS3 has made (`CalmRun`).
- `OpenWebUIProofs`, search. `SearchInv`: until it answers, `features` and the page being read are all that was served; what an answer
  without `truncated` says follows from its last step, as a page that fits the limit is taken whole (`TakenOfPage`). `SearchRunsOut` is the
  safety half of `SearchEnds`: `StepsLeft` counts the links not seen yet and the step the search is at, and each step lowers it.
- `OpenWebUIProofs`, notes. `RoomInv`: the room is part of the users and of the connected, the store holds accepted edits
  only, and an edit not sent was not accepted. `HandlersInv`: saves come after their handlers, and an update's text has its edit.
  `NoEditIsForgotten` is the safety half of `EditsAreSaved`: an accepted edit is saved, in the text of a save to come (`Bringing`), or one of
  the exceptions (`PendingStep`: what was in a cancelled save is in the text of the update that cancels it, or discarded).

**Only model-checked.** Liveness (`JobsSettle`, `ImplementsFairness`, `AcceptedJobsEnd`, `DeliveriesEnd`, `CancelledRunsEnd`, `SearchEnds`,
`EditsAreSaved`, `PublishedUnlessDisturbed`): the prover has no support for `ENABLED` and fairness. Of `JobsSettle`, `CancelledRunsEnd`, `SearchEnds` and
`EditsAreSaved` the safety halves are proved (`WorkRunsOut`, `RunsRunOut`, `SearchRunsOut`, `NoEditIsForgotten`): a measure that steps lower, or
what will still act; that the steps are taken is what fairness adds. Every safety and action property that a passing run checks has a theorem. No module
uses recursion.

The type invariant of every module, and `LateCallsUploadNothing` of `Publication`, are proved and not part of a run.

## 7. Not modelled, and the plan

Not modelled: floating-point image processing (TLA+ has integers only), the ISIS search Tool and the Filter (pure functions of
their inputs, whose properties would repeat their code), the listing of STAC collections, model evaluation, branding and build
scripts, formatting of answers, HTTP and TLS, request validation (inputs are assumed valid).

Of OpenWebUI, which is most of the repository's lines (chat middleware, retrieval, authentication, its models and
routers), only notes and the deletion of files are modelled: the platform neither changes nor calls the rest beyond
`upload_file_handler`, and most of it is request handling around a database without a protocol of its own. The modules therefore cover most of the
stateful code of the platform's own service and Tools, but less than two per cent of the repository's lines.

Left to prove: that the runs of `WorkflowGraph` and the calls of `Publication` have finitely many steps; that the registry of save tasks of
`NoteDocument` lists no task twice and none that has not been created; that a job of `JobTimes` with a limit below the visibility timeout is
delivered once.
