# ExecLoom: a verification project

ExecLoom lets a user define a workflow (a chain of steps), publish versions of
it, and trigger executions. An execution lives in PostgreSQL; the work itself
is handed to worker processes through BullMQ (Redis). This directory models the
parts in which things can go wrong without any single line being wrong: the
tables of an execution, the transactional outbox, the worker processes that
race, crash and retry around them, the requests that draft, publish and trigger
workflows and archive the credentials they use, the data that templates carry
from step to step, and the screens whose requests overtake each other.

## 1. The system

| Part | Source | State | Operations |
| --- | --- | --- | --- |
| State machines | `packages/workflow-core/src/index.ts` | – | allowed transitions of executions and step runs |
| Execution store | `packages/db/src/repositories/executions.ts` | `executions`, `step_runs`, `execution_events` | trigger, cancel, claim, complete, fail or retry, recover |
| Transactional outbox | `packages/db/src/repositories/execution-outbox.ts` | `execution_outbox` | create and discard intents, claim a batch under a lease, mark dispatched or failed, ensure a dispatch |
| Worker runtime | `apps/worker/src/worker.ts`, `outbox-dispatcher.ts` | one dispatcher, one reconciler, one recovery timer and five job processors per process | dispatch loop, reconciliation pass, recovery scan, job processor, shutdown |
| Queue | `packages/queue` (BullMQ) | jobs in Redis | add with a deterministic id; at-least-once delivery; stalled jobs; retention |
| Workflow registry | `repositories/workflows.ts`, `workflows.service.ts` | `workflows`, `workflow_versions` | drafts, publication, active version |
| Credentials | `repositories/credentials.ts`, `credentials.service.ts` | `credentials` | create, rotate, archive; used by published workflows |
| Expressions and validation | `packages/workflow-core/src/expressions.ts`, `workflow-validation.ts`, `packages/contracts` | – | references between steps, their resolution, what a definition may contain |
| Executors | `apps/worker/src/executors.ts` | the attempt in progress | one step, with a timeout and an error class |
| API | `apps/api` | – | authentication, ownership, detail and history pages, cancellation |
| Editor | `apps/web`: `lib/workflow-graph.ts`, `components/workflow-editor` | graph, baseline, selection, the text being typed | edit on the canvas and in the inspector, save, publish |
| Execution screens | `apps/web`: `components/executions` | the list with its cursor and filter, the shown execution, requests in flight | page, filter, poll, cancel |

How they interact: the API's trigger inserts an execution, its first step run,
an event and an outbox row in one transaction. A dispatcher leases due rows,
publishes each as a BullMQ job whose id is (execution, step run, attempt), and
marks the row. A job names an execution only; its processor claims the oldest
queued step of that execution together with the results of the earlier ones,
runs it outside any transaction, and reports. A completion queues the next step,
with its own intent; a retryable failure queues the same step again, with an
intent that becomes due after the backoff. The recovery does the same for steps
that have been running too long. The reconciler compares queued steps with the
outbox and with Redis and repairs what is missing. The web client sees all of
this through requests only: it polls an execution until it has ended, and an
edit is local until it is saved as a version.

What is hard: each of those transactions may interleave with every other; a
process may stop between any two of them; jobs are delivered twice, late or
never; leases and stall timeouts expire while their holder is alive; a request
decides on what it read before its transaction began; answers arrive late, out
of order or never. The `hazards` of `PROJECT.json` list these, each at its line.

## 2. The modules

| Module | What it is |
| --- | --- |
| `StateMachine` | the statuses and transition tables of `workflow-core` |
| `ExecutionLifecycle` | the abstract execution: what a user is promised, without queues, retries or workers |
| `ExecutionStore` | the four tables and every function that writes them, one transaction per action, and the recovery as a read and an action for each row |
| `WorkerRuntime` | `ExecutionStore` plus the worker processes and BullMQ |
| `WorkflowHistory` | the abstract workflow: the definitions saved, which one is active, whether the last is a draft |
| `WorkflowRegistry` | workflows, versions, credentials and the requests that change them |
| `StepExecution` | one execution from the data's side: templates, executors, answers, results |
| `WorkflowGraph` | the editor's graph: validation, compilation, loading and every edit |
| `WorkflowEditor` | `WorkflowGraph` plus the editor screen, its requests and the other sessions |
| `ExecutionScreens` | `ExecutionLifecycle` plus the history and the execution page that watch it |
| `MC...` | the instances TLC checks |
| `...Proofs` | theorems about the module of that name: `ExecutionStore`, `WorkerRuntime`, `WorkflowRegistry`, `StepExecution`, `WorkflowGraph`, `WorkflowEditor`, `ExecutionScreens` |
| `RetryPolicyProofs` | how often the store starts a step |

How they compose: `WorkerRuntime` extends the store and uses its transactions as
they are; `ExecutionStore` implements `ExecutionLifecycle`, which
`ExecutionScreens` extends, so that a screen watches the promise and not the
tables; `WorkflowRegistry` implements `WorkflowHistory` for every workflow, because
the row lock makes one step of a transaction; `WorkflowEditor` extends the graph,
and what it takes for the server implements `WorkflowHistory` too.

Definitions whose comment starts with *Broken:* are deliberately wrong variants
of the definition that follows them. No specification uses them; substituting
one for its definition must violate a property (`mutants` in `PROJECT.json`),
which is how we know that the property says something about that code.

### ExecutionStore

`status`, `stepRuns` and `events` are the rows of an execution; `outbox` maps
(execution, step, attempt number), which is what the job id encodes, to its
row. A step is its position in the published definition. Timestamps are reduced
to what they decide: an outbox row is `due` or not, and a lease may expire at
any moment. Payloads, results and errors are left out.

One action is one transaction, but for the recovery. All functions that write
execution state lock the `executions` row first, so they are serialised per
execution; the model allows them in any order with any arguments: a report may
come from a worker whose attempt was recovered long ago, a mark from a dispatcher
that lost its lease. `retrying` is visible only inside a transaction and appears
in the event log, not in the rows. `EnsureQueuedStepDispatch` is called with the
step's current attempt here, and with a stale one in `WorkerRuntime`.

The recovery's query joins `step_runs` with `executions` and locks the execution
rows only (`FOR UPDATE OF executions SKIP LOCKED`). The step rows are those of
the statement's snapshot, and a retry followed by a claim does not touch the
execution row, so getting the lock does not make PostgreSQL read them again.
`scan` is what a process has read and not dealt with; between the read and the
lock any other transaction may commit. `RecoverStalledExecutionStep` compares the
attempt count that was read with the policy; the `WHERE status = 'running'` of its
UPDATE and the attempt of its intent are those of the row.

Executions in `LegacyQueued` were queued before migration 0002 created the
outbox; the migration adds no rows for them.

### WorkerRuntime

Adds, per process, the dispatcher's batch and the row it has published and not yet
marked, the local variables of the reconciliation pass (each `await` is a step),
and the job processors; the recovery timer is the store's `scan`. `jobs` is what
Redis holds. A fault is a crash of a process, a failed publication or mark, a
recovery that is rolled back, a database error in a processor, a job whose lock
expires under a live worker, a lost job, or a lease that expires under a live
dispatcher; `MaxFaults` bounds them. What BullMQ does is external and modelled
from the options the code passes and the states it asks for.

### WorkflowRegistry

Here a request is a process, because a service reads and validates outside of
the transaction its repository runs: the validation, the locked read and the
commit are a step each, and the API process may stop between any two
(`RequestDies`). `rowLock` is `SELECT ... FOR UPDATE`. `versions[w]` are the rows
of a workflow in insertion order; `versionNo` is kept, computed as the code does,
because that it equals the position is a property and not an assumption. A
definition is the set of credentials its steps reference, which is all that
publication and archiving ask of it. PostgreSQL's READ COMMITTED gives each
statement its own snapshot: a statement is atomic, two in one transaction are
not. All rows belong to one owner, since every query compares the owner.

### StepExecution

The rows, the outbox and competing workers are the store's and the runtime's
business; here one worker works on one attempt at a time and the data is what
matters. A JSON value is known by its kind (null, text, number, object with
fields); a string of a configuration by what `parseTemplate` makes of it: plain
text, a single expression, text mixed with an expression, or malformed.
`Accepted` is what contract and semantic validation let through. An attempt goes
through the phases of `executeStep` (claimed, waiting for an answer, reading the
body, done), and remembers the cause of its failure, which the code knows as the
error class. Services answer anything, any status, or nothing.

### WorkflowGraph and WorkflowEditor

A graph is its nodes in the order they were added, and its edges. A step and its
canvas position together are the node's `config`, since both are saved and
nothing reads the position but layout. What `@xyflow/react` does to nodes and
edges before it calls the canvas' handlers is external. The traversals of the
validation are recursive functions, over the number of edges followed or of
nodes kept, which the provers can unfold.

`WorkflowEditor` has one request at a time, as `isSaving` and `isPublishing`
enforce, and a step each for sending, committing and answering it; editing goes
on wherever the code does not disable it. Other sessions save and publish at any
time, and a request may fail on either side of its commit. The first save leaves
for the new workflow's address, which is leaving the page and opening it again.

### ExecutionScreens

A request is sent, reads the database statement by statement, and is answered;
several are in flight and any of them may fail. Polls, cancellations, pages and
filter changes each go through those steps; a page of the list is two of them
(`CheckCursor`, which looks up the execution the cursor names, and
`ListExecutions`), without a transaction around them. Of the events the page shows only
the status they add up to, which `TimelineRebuildsState` of the store justifies.
`CreatedAt` has PostgreSQL's microseconds, a cursor the milliseconds of a
JavaScript date. `mixed` is a history variable: an answer has been applied to a
list that was replaced after it had been asked for.

## 3. The properties and the runs

`store_two_steps` (one execution, two steps, of two attempts and of one, two worker
processes):

- `ExecutionAndStepsAgree`: the two tables tell the same story; steps exist in
  definition order, one at a time.
- `OverrunsBoundedByScans`: a step starts at most `maxAttempts` times, plus once for
  every process that recovers. A stale read may grant an attempt more than the
  policy, but only one made before the last attempt began. "Never more than
  `maxAttempts`" is false of the code, see section 5.
- `QueuedStepHasIntent`, `IntentsFollowAttempts`: a queued step has an intent for
  exactly its next attempt, and none is ahead of its step, so
  `ON CONFLICT DO NOTHING` never keeps an old row in place of a new one.
- `IntentsEndWithCancellation`: cancellation discards all pending intents of its
  execution, and nothing else discards any.
- `TimelineRebuildsState`, `TimelineFollowsStateMachine`: reading the events gives
  back the rows, and no two consecutive events tell of a forbidden transition.
- `RunnableTransitionWritesIntent`: a step never becomes queued without a new
  intent in the same transaction.
- `ImplementsLifecycle`: the store implements `ExecutionLifecycle` (`phase` is
  the status, `completed` the set of succeeded steps).

`runtime_races` (two processes, one attempt, three faults):
`DispatchedAfterPublication` needs two dispatchers, a lease that expires and a
reconciler that resets the row.

`runtime_two_workers` (two processes, one attempt, an execution queued before the
outbox existed, one fault): `EveryExecutionEnds`, `EveryIntentIsSettled`: the races
of two reconcilers and two dispatchers lose no execution and no intent.

`runtime_liveness` (one process, two processors, two attempts, one fault):

- `AttemptHasOneWorker`: no attempt is worked on twice, although its job may be
  redelivered, stall or be published again.
- `RuntimeUsesStore`: every step of the runtime is a step of `ExecutionStore` or
  leaves its tables alone, so what holds of the store holds here.
- `EveryExecutionEnds`, with retries. A stale removal of a live job, which
  `RuntimeUsesStore` allows, must not lose the execution.

`runtime_stale_report`: `OnlyLatestAttemptFails` is violated, see section 5.

`registry_two_requests` (one workflow of up to three versions, one credential of
up to two secrets, two requests that may die between any two steps):

- `ActiveIsPublished`, `VersionNumbersDiffer`: one published version at most, the
  active one; the unique index never has to refuse an insert.
- `LockedReadsHold`: what a transaction read under its lock is still so at its
  commit.
- `ImplementsHistory`: the versions of a workflow are what saving and publishing
  one at a time makes of them; no save is lost, and a publication activates the
  definition saved last.
- `SerialRequestsKeepCredentials`: as long as requests do not overlap, every
  active version's credentials are active. The checks themselves are right; the
  race, which this premise leaves out, is what `registry_archive_race` shows.
- `TriggersLoseOnlyToPublication`: a trigger that answers `NO_ACTIVE_VERSION`
  although one is active has lost to a publication.

`registry_archive_race`: `ActiveVersionsHaveCredentials` is violated, see section 5.

`step_execution` (definitions of two and three steps over all shapes of
templates, triggers and answers of every kind, two attempts):

- `EarlierResultsAvailable`: what an accepted template names has a result, in the
  store and in the claim, when its step runs.
- `AiFieldsResolve`: a reference to a field of an AI step's schema finds it,
  because the schema requires it and the output was validated.
- `RetriesFollowTransientFailures`: a failure is retried exactly if attempts are
  left and it is one that may pass: a timeout, a connection, a transient status
  or a request that `fetch` refuses. A 503 whose body cannot be read is not.
- `EveryExecutionEnds`: services may stay silent, and the execution still ends. A
  body that never ends is excluded by the fairness.

`step_null_input`: `StepInputIsPreviousOutput` is violated, see section 5.

`workflow_graph` (all graphs of up to four steps that editing can reach; the keys
are alike, which is the symmetry used):

- `GraphIsPaths`: no sequence of edits ever branches, joins or turns back.
- `CompiledIsTheChain`: the walks and counts of the validation accept exactly the
  graphs that are one chain by definition, and compiling and loading are inverse.
  It also judges every graph one connection away.
- `RepairNeedsOneConnection`: a canvas with one missing connection can be
  repaired; with two it cannot, since each attempt is refused as a whole.
- `DeletionKeepsOrder`: deleting steps keeps the others in order.

`editor` (one step key, three configurations of which the contract accepts two,
three versions, other sessions):

- `SavedIsLoadedVersion`: while the page says that everything is saved, it shows
  the version it names.
- `ShownTextIsAccountedFor`: text that does not parse blocks saving for exactly as
  long as it is shown.
- `PublishesWhatIsShown`, `SaveShowsItsVersion`: what is published is what was
  shown, and a save ends on its own version, unless there is a newer version that
  the page does not know of.

`screens` (two executions, pages of one, two requests in flight):

- `ShownEndIsComplete`: the API reads an execution in three statements, and yet a
  page that shows an end, and polls no more, shows the last state.
- `OnlyCancellationIsTakenBack`: a success or failure that is shown stays; only
  the answer to a cancellation can be overtaken by an older poll.
- `ListIsInOrder`, `EveryExecutionIsListed`: paging lists every execution once, in
  order, unless answers mixed two lists; an execution that was there from the
  start can only be missed if it was created in the same millisecond as the last
  of a page. The instance has executions of different milliseconds; that no others
  are missed is the theorem `ListsReachAll`.
- `EndsAreShown`: no screen shows an ended execution as active for ever.

### Bounds

Attempts, steps and executions interact only through one row each. Two attempts
give a first, a last, a stale and a fresh one; two steps give a first, a next and
a last one; two processors or two processes give every pairwise race. Three
versions give a retired one, an active one and a draft; two requests give every
pairwise race over a row. The editor's races are between one page, its request and
another session over the version list, so one key is enough there, and four keys
for the shape of a graph: a chain of three with one loose node is the least that
has a middle, both ends and something to connect. Two executions with pages of one
give a cursor, a list that grows at its head and a second page, two requests in
flight every overtaking. Worker processes are interchangeable, which
`store_two_steps` and `runtime_races` use as symmetry; they check no liveness.
`MaxFaults`, `MaxVersions`, `MaxSecrets` and `MaxInFlight` bound counters only.
That more executions, processes, requests or versions change nothing is what the
theorems are for.

Deadlock is checked in `workflow_graph`, `editor` and `screens`, where a user can
always do something. Elsewhere the system legitimately stops: all executions have
ended, or every version has been created.

### Fairness

`WorkerRuntime` asks that the timers of every process keep firing and that a
crashed process is restarted, that an executor finishes (its request has a
timeout; once the headers of an HTTP step have arrived, `executeHttpStep` clears
it and the client library's own limit applies to the body), that BullMQ delivers
waiting jobs to idle processors and notices stalled ones, that the recovery scan
runs, and that time passes. Nothing is assumed of triggers, cancellations,
evictions and faults.

`StepExecution` asks only that the worker goes on: an unanswered request times
out, and a body that has begun ends.

`ExecutionScreens` asks that an open tab keeps polling (strongly: leaving the
page in between must not excuse it), that a request ends one way or the other,
and that the statements and answers of polls do not fail for ever. Nothing is
assumed of the workers: `EndsAreShown` is about executions that have ended.

## 4. What is proved

Every theorem is for all values of the constants, under the assumptions the
modules name.

`ExecutionStoreProofs` (any executions, dispatchers, number of steps and retry
policies; at least one step, at least one attempt per step, legacy executions are
executions, `NoOne` is no dispatcher):

- `StoreTypeCorrect`: `Spec => []TypeOK`.
- `StoreSafe`: `Spec => []StoreInvariant`, and its four parts one by one. The
  conjunction is the inductive invariant. None of the parts is inductive alone:
  that a retry finds no old intent in its way needs `IntentsFollowAttempts`; that
  the intent for the next step is new needs the order of the steps; that a queued
  step's intent is not discarded needs `IntentsEndWithCancellation` and the
  agreement of the two tables.
- `TerminalExecutionsAreFinal`, `RunnableStepsAreDispatched`: the action
  properties, from the same invariant.
- `TimelineIsAuditTrail`, `TimelineIsLegal`: `TimelineInv` says that each log,
  read from its beginning, is legal and arrives at the rows. A lemma says what one
  more event tells (`ToldAppend`), and there is one for each transaction.
- `StoreImplementsLifecycle`: the refinement. Claiming maps to starting or to a
  stutter, completing to completing the next step, everything about retries and
  the outbox to a stutter.

The step lemmas are about `StoreStep`: a step of the store in which a recovery is
either a running step queued again, whatever the policy says (`Requeue`), or a
failure that some worker could have reported. A stale recovery has to pass the
`WHERE status = 'running'` of its UPDATE and writes the intent for the row the
UPDATE returns, so it is one of these, and nothing above depends on what it has
read. Its `step.recovered` event may name an earlier attempt than the one it takes
back, and nothing that reads a timeline depends on that number.

`RetryPolicyProofs` (any finite set of worker processes), what does depend on it:
`AttemptsBounded`, `Spec => []OverrunsBoundedByScans`. The bound counts the scans
that could still overrun, and is inductive given that a scan reads a row once: a
stale recovery spends its scan on the attempt it grants.

`WorkerRuntimeProofs` (any number of processes, processors and faults):

- `RuntimeTypesHold`: the ids the loops remember are ids of rows; inductive.
- `RuntimeImplementsStore`: `RuntimeSpec => RuntimeUsesStore`, step by step from
  those types. Its point is that the theorems above then hold of the runtime:
  `RuntimeSafe`, `RuntimeAttemptsBounded`, `RuntimeWritesIntents`, `RuntimeTimelines`
  and `RuntimeImplementsLifecycle` are its corollaries, so workers that race, crash
  and retry implement what the user is promised.
- `AttemptsHaveOneWorker`: the strengthening is that an attempt a processor works
  on has begun (`ExecutingHasBegun`), which holds because a step run that exists
  is never overwritten and its count never shrinks; that in turn needs
  `StoreInvariant`. A claim then takes a number nobody holds.
- `MarksFollowPublication`: the strengthening (`PublishedIsConfirmed`) is that a
  dispatcher that still holds the lease of what it has published has it
  confirmed: a reset takes the lease away, and a lease is not given back to a
  dispatcher before its batch is empty.

`WorkflowRegistryProofs` (any workflows, credentials, requests and bounds; a
workflow is not a credential, `NoOne` is no request, the bounds are positive):

- `RegistryTypeCorrect`, `OneActiveVersion`, `VersionNumbersUnique` and
  `LockedReadsStay`: the parts of the inductive invariant `RegistryInvariant`.
  They need each other: a commit writes what its request remembers, so the first
  three need that the memory is still true; that it is, needs that the lock
  excludes other writers of the row, and that the draft found is the newest
  version needs that there is one draft and numbers are positions.
- `VersionContentIsImmutable`, `ActiveVersionNeverGoesBack`,
  `ExecutionsStartActive`, `ArchivedCredentialsStay`, `RefusedTriggersLost`: the
  action properties, from that invariant. The second rests on the draft being
  newer than the active version, the fourth on the rotation's locked read.
- `RegistryImplementsHistory`: every step of a request is a `Save` or a `Publish` of
  `WorkflowHistory` for its workflow, or changes nothing there. That is
  `LockedReadsHold` put to use: a commit which appends after the number it has
  read, or publishes the draft it has found, does so to the rows as they are.
- `SerialRequestsAreSafe`: what a request has checked (no active version uses the
  credential; the draft is usable) is still so when it commits, if no other
  request is at work (`SerialInvariant`). The premise, `[]OneAtATime`, is about
  whole behaviours; a step uses it before and after. Without it the theorem is
  false, which is the archive race of section 5.

`StepExecutionProofs` (any definitions, triggers and answers): `StepExecutionTypes`,
`ReferencesNeverFailAtStep`, `AiReferencesFindFields`, `RequestsCarryScalars` and
`RetriesAreForTransientFailures`. The invariant `IInv` carries what validation
established about the definition to the step that runs, and what the output
validation established about a result to the steps that read it.

`WorkflowGraphProofs` (any keys and configurations, any sequence of edits):

- `CanvasShowsPaths`: the inductive invariant `Paths`. Every node has at most one
  edge on each side, and there are ranks that rise along every edge. The ranks are
  what `GraphIsPaths` lacks: the validation sees a cycle that the walk from Start
  enters, while one apart from Start would pass for a disconnected part and turn
  up in a later edit. Each edit gives new ranks.
- `NeverBranches`: what validation reports of a set of paths.
- `CompilesChains`: after n edges the walk from Start has collected the first n
  nodes of the path; it collects every node exactly if the graph is one chain of
  all. The theorem judges graphs one connection away as well, which need not be
  paths.
- `RepairsOneConnection`: an accepted graph has an edge for every node; and if just
  one edge is missing there are two paths, and joining the end of the first to the
  start of the second makes one.
- `DeletionsKeepOrder`: deleting one step of a chain gives the chain without it, and
  a selection of a sequence is determined by its set, so the order of the deletions
  does not matter.

`WorkflowEditorProofs` (any keys, configurations, templates and versions; other
sessions save definitions, whose keys are unique and not `start`, as the schema in
`packages/contracts/src/index.ts`, lines 21 and 184, has it):

- `NotDirtyIsSaved`, `InvalidTextIsKnown`, `SavesAreShown`, from an invariant that
  says where the page's baseline and a request's memory of the graph come from.
- `PublicationsAreShown`: every version is a definition; the page knows no more
  versions than there are, and if it knows them all, what it takes for the draft is
  the draft (`PublishInv`). That a graph with the fingerprint of a definition is
  that definition needs that loading and compiling are inverse, and those need the
  graph's invariant.
- `ServerImplementsHistory`: the versions that the page and the other sessions
  make follow `WorkflowHistory`. Only the newest version can be the draft, which a
  publication needs in order to be that of the history.

`ExecutionScreensProofs` (any finite set of executions, any page size, filters and
requests in flight):

- `EndsAreComplete` and `EndsAreNotTakenBack`. The invariant says of every request
  in flight how its answer relates to what it has read: a reply whose first
  statement found an end has read the final rows, and nothing older than a shown
  end is left to arrive but behind a cancellation.
- `ListsAreInOrder`, `ListsReachAll`, from `HistoryInv`: a list ends at its cursor;
  each answer in flight is a page for its filter and cursor, as of some earlier
  moment; and what was there from the beginning is listed, skipped for its
  millisecond, or older than the cursor. Statuses change between two pages, and
  with them what the filter selects; the order of creation does not.
- `ScreensOnlyWatch`: `ScreensSpec` implies the `Spec` of `ExecutionLifecycle`.

Several theorems state properties that no run repeats, the type invariants among
them: `TypeOK`, `RegistryTypeOK`, `StepExecutionTypeOK`, `TerminalIsFinal`,
`VersionsAreImmutable`, `ExecutionsRunActiveVersion`, `ArchivedCredentialsAreFinal`,
`ActiveVersionMovesForward`, `TextIsScalar`.

The library's induction theorems take operators, which the provers cannot
instantiate. What is said of folds, walks and sorted pages is proved from the
well-foundedness of `<` instead: `LeastNatural` gives the least counterexample, and
the defining equation of the function refutes it.

Only model-checked are the liveness properties (`EveryExecutionEnds`,
`EveryIntentIsSettled`, `EndsAreShown`), since the prover has no means for
fairness, and the runs that expect a violation, which are about one behaviour.
Every safety and action property that a passing run checks is also the statement
of a theorem.

## 5. Findings

**Stale report** (`executions.ts:837`, `runtime_stale_report`). A worker that
takes longer than `WORKER_STALLED_STEP_TIMEOUT_MS` is not dead. Its step is
recovered and claimed again, and when the first worker then reports,
`failOrRetryClaimedExecutionStep` compares the step's status with `running` but
not the attempt: the report of attempt 1 is applied to attempt 2. If attempt 2 is
the last one and the report a failure, the execution is marked failed while
attempt 2 is still running, although `apps/worker/README.md` line 112 says that
this happens when attempts are exhausted. The timeline then attributes the failure
to attempt 2.

**Archive race** (`workflows.service.ts:135`, `registry_archive_race`).
`publishWorkflow` validates the credentials of the draft before the transaction
that publishes it, and archiving does not lock the workflows it reads. An
active version may end up using an archived credential, although
`docs/architecture/credential-management.md` lines 21 and 22 say that such a
credential cannot be archived and that publishing rejects it.

**Null is no input** (`worker.ts:78`, `step_null_input`). The processor passes
`claim.stepRun.inputJson ?? claim.execution.inputJson`, so a step whose
predecessor produced null gets the trigger's input, although
`docs/architecture/workflow-data-and-ai.md` line 49 says that a step's output
becomes the next step's input.

Two more are described by a property that holds, since it says exactly how far
they go:

- *Recovery overrun* (`executions.ts:1040`, `OverrunsBoundedByScans`). The recovery
  compares the attempt count it read before it had the lock. If a slow worker
  reports a retryable failure and the last attempt is claimed between the
  snapshot and the lock, the step is queued once more than the policy allows.
- *Trigger race* (`executions.ts:140`, `TriggersLoseOnlyToPublication`). A trigger
  reads the workflow in one statement and its active version in the next. A
  publication in between retires that version, and the trigger answers
  `NO_ACTIVE_VERSION` although some version was active all the time.

Met while modelling, and part of the models' behaviour without a property of
their own: a GET request with a body is refused by `fetch` and retried like a
connection failure; the cursor of a history page is refused when the execution
it names has left the filter; an execution created in the same millisecond as
the last one of a page can be skipped; the list of connection issues on the
canvas survives edits in the inspector.

## 6. Not modelled

- Authentication (`apps/api/src/modules/auth`): single statements around library
  calls; all queries compare the owner, so the models have one owner.
- Configuration, process start, the encryption of credentials, the vetting of
  request addresses, routing, rendering, the run dialog, and the screens that only
  list: pure I/O, library code or layout.
- Row locks below a transaction. `ensureQueuedStepDispatch`
  (`execution-outbox.ts:266`) locks a step row and then, by the foreign key of its
  insert, the execution row; a cancellation takes them in the other order.
  PostgreSQL fails one of the two, and the reconciler tries again.
- The backoff as a minimum delay (`executions.ts:503`): a redelivered job of an
  earlier attempt claims the retry early. The model allows it; nothing promises
  otherwise.
- The answer to `createWorkflow` may be lost, and saving again then creates a
  second workflow. `WorkflowEditor` follows one workflow.
