# Unity AI Asset Generator: formal model

This directory models the program in `src/`: a Python backend that generates
textures with a diffusion model, and a Unity editor package that drives it.
The models are TLA+ modules translated from the source; TLC checks them on
small instances and TLAPS proves the most important properties for every value
of the constants. `PROJECT.json` lists every run, every theorem, the source
lines each definition stands for, and the hazards the properties are for.

## 1. The system

Paths are relative to `src/src/unity_ai_assets` for the backend and to
`src/unity-package/Editor` for the Unity package.

| Component | State | Operations | Hard behaviour |
|---|---|---|---|
| **Job queue and workers** `services/job_service.py`, `services/job_store.py`, `domain/jobs.py` | one record per job, live in the index and as a JSON file; a FIFO of ids; one cancel event per execution; `accepting`, `stop`, the threads | start and recover, stop, submit, cancel, retry, claim, execute, record the outcome, isolate a failure | threads against requests; crashes between two saves; saves that fail after the live record changed; cancellation racing completion; a retry budget shared by four kinds of requeue |
| **Generation runtime** `services/job_executor.py`, `services/generation_service.py`, `inference/`, `processing/` | the generation lock, the cached pipeline and its own lock, the background removal session, the seam inpainting pipeline | validate, wait for the lock, load or reuse, sample, post-process, write; at every stage a safe point that reads the cancel event | cancellation between the last safe point and the write; hand-over of VRAM on every exit; two locks |
| **Remote executor** `services/job_executor.py`, `services/remote_worker_http.py` | the remote id, whether the cancel was sent | submit, poll, cancel | lost calls, a late answer, the same request id on a retry |
| **Batches** `services/batch_service.py`, `services/batch_store.py`, `domain/batches.py` | a record listing its member jobs and a cancel flag, live and as a file | submit (job by job), cancel, retry-failed, aggregate | requests on one live record without a lock; a crash in the middle of a submission; aggregates over a prefix of the members |
| **Batch expansion** `services/batch_expansion.py` | none | prompts x base seeds x variations to job specifications | stride arithmetic, bounds, names cut to a length |
| **Quota** `services/quota_service.py` | request times per client | check the rate, check the queue | check in the route, submit later |
| **Outputs** `services/output_service.py` | original, image and manifest of each generation, and their temporary files | persist, resolve, load | a crash or a full disk between two writes |
| **Models** `services/model_service.py`, `model_installer.py`, `model_registry.py`, `model_validator.py` | a directory and a metadata file per model, the active model in memory, on disk and in the settings, the staging area | install, validate, activate, delete, set the directory | request threads without a lock against each other, against loads and against a crash |
| **Policy, schema, capabilities** `domain/generation_policy.py`, `api/schemas/`, `services/capability_service.py`, the checks of `generation_service.py` | settings, the active model's family and manifest, whether the seam inpainter broke, what became of the background removal session | accept or refuse a request; describe what is accepted | one set of rules kept in four places; a server that changes between two judgements |
| **Unity capability cache and validator** `Capabilities/`, `Generation/GenerationRequestFactory.cs` | state and document per backend, shared by the windows | fetch, answer, lose; check a draft, build the request | two windows on one entry; a document that is stale |
| **Unity generation client** `Generation/GenerationController.cs`, `Api/GenerationApiClient.cs` | the state of the window, the job followed, the history | submit, poll, cancel, import | cancel while a call is in flight; two uses of one progress object |
| **Unity batch client** `Generation/BatchController.cs`, `Importing/ImportedGenerationRegistry.cs` | the selected batch, the poll loop, the registry of imports | submit, poll, select, cancel, import all | poll loops outliving the selection; import then mark |
| **Unity user interface, model controller, prompting, tileable tools** | presentation | | none modelled |

Interaction: the Unity clients call the routes; the routes check the quota and
call `JobService` or `BatchService`; `BatchService` is a client of `JobService`
(`submit`, `cancel`, `retry`); worker threads run an executor, which calls back
into `JobService` with progress and reads the cancel event that `cancel` sets.
All state that survives a crash is in the job, batch, output and model files.

### Properties that make each part correct, and what is hard

- *Job queue*: every record in progress belongs to a thread that executes it, the
  FIFO holds exactly the queued records, a job is executed a bounded number of
  times over its life, a completed job is final, a cancellation that was accepted
  ends, and so does a job that was queued. Hard: all of this across threads,
  crashes between any two saves, and saves that fail half way through a handler.
- *Batches*: the batch file and the job files agree, no flag or member is lost
  between two requests on the same record, a cancellation reaches every member.
- *Batch expansion*: the seeds of a prompt are distinct, dense and in range; what
  fits is not refused; names stay apart.
- *Generation runtime*: one diffusion pipeline resident at a time, no exit that
  keeps a lock, files that say what happened whatever was cancelled, failed or
  killed. Hard: some twenty exits, each of which must hand over memory and locks.
- *Models*: what counts as usable is whole, or lacks files in a way that is known; an
  activation that was answered took effect. Hard: multi-step operations without a lock, cut short by crashes.
- *Requests*: what the editor lets through the service accepts, what it blocks the
  service would refuse, and an accepted job is not refused when it is executed.
  Hard: the rules exist in four copies that only the capability document joins, two
  of them read a text as it is and one corrects it first, and the server changes
  between two judgements.
- *Remote execution*: no work on the hosted worker that nobody waits for or that
  is done twice; what is downloaded is completed for good; the quota holds.

`PROJECT.json` lists the hazards one by one, each at the line where it bites, with
the properties that would catch it, or with the reason why none does yet.

## 2. The modules

| Module | Models | Role |
|---|---|---|
| `JobQueue` | `JobService` over `JobStore` with the local executor's safe points | detailed specification |
| `JobLifecycle` | what the job API promises of one job | abstract specification |
| `BatchService` | `BatchService` over `BatchStore` and `JobLifecycle` | composition |
| `BatchExpansion` | `expand_batch` and its helpers | pure algorithm |
| `ModelStore` | `ModelService`, its registry, installer and validator, the directories on disk | component |
| `GenerationRuntime` | `generate_texture` under the generation lock, the resident models, `OutputService.persist` | composition: extends `ModelStore` |
| `RemoteExecution` | `RemoteGenerationExecutor`, its HTTP client, the queue quota, the clients that download | composition: extends `JobQueue` |
| `RequestPolicy` | the checks of a request in the editor, the HTTP schema and the service; the capability document and its cache | rules as operators, and the machine that applies them over time |
| `MC*` | | small instances for TLC |
| `JobQueueProofs`, `JobLifecycleProofs`, `BatchServiceProofs`, `BatchExpansionProofs`, `BatchNamesProofs`, `GenerationRuntimeProofs`, `RemoteExecutionProofs`, `RequestPolicyProofs` | | theorems and proofs |

The queue is proved and checked to implement `JobLifecycle`; `BatchService` then
uses `JobLifecycle` in place of the queue, and is proved to do nothing to jobs that
`JobLifecycle` does not allow. Everything checked of a batch is so
checked against what the queue promises and not against how it keeps the promise.

### JobQueue

*State.* `mem` is `JobStore._records` (the live objects), `disk` the files,
`queue` the FIFO; `pc`, `job` and `watch` are a worker thread's program point, the
record it claimed and the cancel event its executor was handed. `events` is
`JobService._cancel_events`; an event is named by its job and the claim that created
it. (The thread is not enough: a claim whose outcome could not be saved leaves its
event behind, and the thread's next claim creates another.) `signalled` holds the
events that are set. `phase` is the life of the process. `runs`, `crashes` and `faults`
are history.

*Atomicity.* The service does all its work on a record under one lock: a handler
is one action. The steps of a thread between two acquisitions of the lock are
separate actions: claim, look the event up, execute, write the outputs, report
the outcome, the `finally` block. `BeginExecute` is apart from `Claim` because the
event is looked up after the lock was released; `Cleanup` is apart from `Record`
because the `finally` block takes the lock again. In between anything may happen.

*Failed saves.* Handlers change the live record first and save it then; a save that
raises leaves `mem` and `disk` apart and takes the branch the exception takes:
out of `start()` (`Recover`), out of the worker loop (`Claim`, whose save is
outside the `try`), into `_fail_job` (`Record`), to the client (`Retry`,
`CancelQueued`, `CancelRunning`). `CancelRunning` sets the event only after the save.

*Abstracted.* Timestamps, progress, results and messages; the order of equal
creation times when the queue is rebuilt (any order); an error is retryable or
fatal; `wait_for_terminal`, `get` and `list` only read. The progress callback's
own save is not made to fail. Files that cannot be parsed are not modelled.

*A remark on the source.* `ALLOWED_TRANSITIONS` (`domain/jobs.py:18`) has no
running-to-queued edge that the automatic retry takes; nothing consults the table
there, so `JobLifecycle` states what the code does.

### JobLifecycle

Two functions, `status` and `attempt`, and the moves of one job. The refinement
mapping reads them from the job *files* (`disk[j].state`, `disk[j].retries`),
since these are what survives. A step of the queue that only changes live records
or threads is a stutter.

### BatchService

*State.* `status` and `attempt` are the job files, as in `JobLifecycle`; `mem`
and `disk` the live batch records and their files; each request thread has a
program point, the batch it works on and the member it comes to next. `visited`
is history: the attempt each member had when a cancellation passed it.

*Atomicity.* Batch requests take no lock: a thread is interrupted between any two
calls it makes. A call to the job service is atomic (it takes that service's
lock); setting the flag, appending to the list and saving are separate steps.
`SaveRecord` writes the live record *as it is then*, with whatever another
request has changed. A walk over the members is over the live list, as Python's
iteration is, so members listed meanwhile are visited too.

*Errors.* A save may fail: `submit` saves once more and raises (`GiveUp`), `cancel`
and `retry_failed` raise. `JobService.submit` may refuse; `retry_failed` may stop
half way when the service is stopping (`RetryRefused`); members that are not
eligible are passed over. Members are numbered by their place in the plan, which
is both their `batch_index` and the order of submission.

*Abstracted.* The payload of the jobs (that is `BatchExpansion`). A crash may come
at any moment; jobs then wait for the restart and recovery is a move of
`JobLifecycle`. Job files whose save fails belong to `JobQueue` and are not
repeated here: a job call either succeeds or is refused.

### BatchExpansion

The functions of `services/batch_expansion.py` as operators, with a one-step
machine that applies them to any request under any settings. All ways to refuse a
request but two (too many jobs, duplicate seed) have one result, "invalid". The
random base seed is any seed the code's range allows. A prompt is a token: blank,
too long, or a text. An output name is a sequence of characters, because how its
parts are cut and joined is what its property is about; the stem is given stripped.
The digits of a number are a recursive function, so that the module can be proved about.

### ModelStore

*State.* For each model `home` (its directory exists), `tree` (the parts in it),
`record` (`.metadata.json`); `active` and `saved` are the registry's active id in
memory and in `.registry.json`, `setting` is `Settings.model_id`. `op[a]` is the
operation a request thread is in and what it remembers from earlier steps.
`cache` and `loader` are `ModelManager._pipeline` and the holder of its lock, which
activation and deletion take too. The rest is history: the model of the last
activation that was answered, the models whose deletion ended half way with their
record in place (`cut`), those deleted while a revalidation or another deletion was
at them (`raced`), and those of which no full list of files was recorded (`untold`).

*Steps.* Handlers run in a thread pool without a lock, so an operation is cut at
every file operation and every shared variable: install is fetch, check, promote,
sidecar, finalize; deletion waits for the manager's lock if the model is active,
lists the files, removes them one by one, hidden files last, then the metadata, then
saves; activation checks the model, writes the registry, then the settings, then waits
for the manager's lock; revalidation hashes first and saves afterwards. Giving the
storage directory again may take files from the staging area of an install in any of
its first three stages. Any number of threads may be in any of these. Each
step may fail where the code may raise, and the clean-up of the `except` branch is part
of it. `StoreRestart` is what a new process reads back.

*Abstracted.* A directory holds two parts: "core", what the structural validation
asks for, and "extra", files whose absence only the recorded hashes reveal. The
settings are written in one step, since only the model they name is looked at.

### GenerationRuntime

*State.* `pc[r]` is the place of the thread of a generation; `need` the
post-processing asked for, of background removal, seam repair and palette reduction;
`lock` the generation lock's holder; `using[r]` the pipeline a thread holds a reference to, which may outlive the cache; `remover` and
`inpainter` the post-processing models; `out[r]` the files of the generation.

*Steps.* One action between any two points at which another thread can see or
change something: each safe point, each load and its end, each write. `End` is the
way out, shared by all exits: it releases the lock if the thread has it, as the
`with` does. `FindCached` and `Reuse` are two steps because `get_pipeline` tests the
cached pipeline and reads it again outside the manager's lock. A write is two
steps, temporary file and rename; a failed one removes the temporary file, a
crash does not. The original is written when `Preserve` is set and any of the three
changed the image (`KeepsOriginal`). Asking for the background removal session and
reading whether it is there are two steps, so that another thread may drop it in
between. A seam inpainter whose load failed is tried again by the next repair
("mended"); the error stays on record and counts again as soon as its weights are
dropped. `Metadata` and `Served` are what `resolve_artifacts` makes of the
files left.

*Abstracted.* Pixels, the content of the manifest, and every check of a request but
those that load a post-processing model (the rest is `RequestPolicy`).

### RemoteExecution

Extends `JobQueue`: records, FIFO, events, recovery and the claim are the same
actions; only what happens inside `execute()` differs. `step[w]` is the place in the
loop (submit, look at the event, ask for the status), `sent` is
`cancellation_sent`. `Raise` goes through `JobQueue`'s `Record`, so an error of a call
becomes the same retry, failure or cancellation as a local one.

The hosted worker is not in the repository. `remote`, `stopping` and `starts` are what
`docs/deployment.md` asks of it: a request id it knows is not run again while it is
active or completed; what it does with one that failed or was cancelled is left
open. A call may fail before or after it took effect, the worker may forget a
request, and the process may die.

Clients pass `check_queue`, then submit in another acquisition of the lock; they
download what they have read as completed.

### RequestPolicy

*Rules.* `Fails` has one operator per check of `generate_texture`, `SchemaFails` one
per constraint of `TextureGenerationRequest`, `Finds` one per check of the editor,
`Document` is the capability document. Each yields the set of checks that fail; the
program reports the first. `Wire` is the request factory. A text is its length, in
UTF-16 units for C# and in code points for Python; an image is its size, its bytes
and its largest luminance; a fraction is counted in hundredths. The four choices that
are read as text (operation, transparency strategy, pivot mode, atlas hint) are kept
as they were spelt: the service fills in for an empty one, strips it and, but for the
atlas hint, lowers its case (`Requested`, `Strategy`, `Pivot`), while the schema takes
it as it is. `Strip` and `Lower` are functions on the texts of an instance, of which
only that they leave the names themselves alone is assumed.

*Machine.* The capability cache shared by two windows (asked, answered, lost); one
request at a time from draft or post to submission and execution; the server, which
may activate another model, lose or mend its seam inpainter, have the session of
background removal dropped by another generation, loaded again or lost for good, or
restart in another environment, at any moment. `against` is the document a draft was judged by.

*Settings.* `ValidPolicy` is what `validate_policy_settings` lets the service start
with; `ValidProcessing` what the fields of `Settings` accept one by one, where neither
the order of the bounds nor the defaults are compared. Both are assumptions. So
are the types the editor's fields and JSON give a draft and a post: the numbers of a
draft are integers (in hundredths), its seed may be missing, its pivot is one of the
window's list; those of a post may be missing.

## 3. What is checked

| Run | Instance | Shows |
|---|---|---|
| `queue_safety` | 2 jobs, 2 threads, 1 retry, 1 crash, 1 failed save | types, clean queued records, retry budget; without a failed save also exclusive execution, ownership of records in progress, exactness of the FIFO |
| `queue_promises` | 2 jobs, 2 threads, 1 retry, 1 crash | refinement of `JobLifecycle`; completed is final; queued jobs and cancellations end |
| `queue_lone_worker` | 3 jobs, 1 thread, 1 retry, 1 crash | with the default single thread a cancellation reaches its execution |
| `queue_lost_cancel` | 2 jobs, 2 threads, 1 retry | violated: finding 1 |
| `queue_late_outputs` | 1 job, 1 thread | violated: finding 2 |
| `queue_claim_fault` | 2 jobs, 1 thread, 1 failed save, fairness | violated: finding 3 |
| `batch_requests` | 1 batch of 2 jobs, 2 request threads, 1 retry, 1 crash, 1 failed save | batch and job files agree; no change lost; cancellations reach members; ended batches stay ended |
| `batch_orphan` | 1 batch of 2 jobs, 1 thread, 1 crash | violated: finding 4 |
| `batch_expansion` | every request over 7 seeds, 0 to 4 variations, 7 lists of prompts, all modes, 3 settings | seeds distinct, dense and in range; what fits is accepted; names apart and short enough |
| `generation_runtime` | 2 generations with no post-processing, palette reduction, or background removal and seam repair, 1 managed model and a hub model, 2 administrators, exclusive VRAM, originals preserved, 3 units of work | one pipeline resident, no lock left behind, activations take effect, usable models are whole but for the losses the property names, files say what happened |
| `request_policy` | 3 environments, 2 families, 2 manifests, 38 drafts, 24 posts, 1 change of the server | editor, schema, submission and execution agree but for the differences the properties name; the cache is honest |
| `remote_execution` | 2 jobs, 1 thread, 2 clients, queue quota 1, 1 retry, 1 failed call, worker restart or process death | no orphaned work, no run twice, downloads are of completed jobs, no cancellation out of nothing, the quota |

*Bounds.* `MaxCrashes`, `MaxFaults` and `MaxRetries` bound the behaviours; the last is
a setting, the others are only for TLC. Two jobs and two threads are the
smallest instance in which a thread's clean-up meets another's claim; the third
job of the single-thread run makes the queue longer than what recovery and one
claim can empty. One crash is enough to come between any two steps, one fault to
fall on any save, and one retry reaches both sides of the budget. More
crashes and larger instances are covered, for the properties of section 5, by
the proofs. In `batch_requests` two threads are two requests on one record at a
time, of any two kinds, and each thread serves any number of them in turn; two
members give a prefix, and a member on each side of a walk.
The settings of `batch_expansion` put the seeds at both ends of their range, and the
name length above, at and below a suffix.

In `generation_runtime` a unit of `MaxWork` is an operation on models, a submission or a
crash: three allow two generations and an activation between them, or a generation
against an installation and a crash. Two generations are needed for the second to
find what the first left in memory. Two administrators are needed for a revalidation
to overlap a deletion, or the storage directory to be given again during an install;
the two are symmetric, as the requests are. The run has 1.5 million states. Each
exception of `UsableIsWhole` is needed: without `cut`, `raced` or `untold` TLC finds a
usable model without its files within nine steps. The three kinds of post-processing
are one that changes nothing, one that changes the image without a model, and one that
loads both models; any other choice is a value of `Needs`. `Exclusive`
and `Preserve` are the settings under which the properties say most; the proofs hold for both values.
In `request_policy` each draft or post breaks one rule or two, at its boundary
where there is one, and the environments are an ordinary one, one with narrower
bounds and odd defaults, and one of a newer version whose background removal has
no weights and that repairs no seams. The posts spell each of the four choices as the service corrects it. One
change reaches each "since" the properties speak of. The run has 0.5 million states.
In `remote_execution` the quota of 1 with two clients is the smallest that can be
exceeded; `MaxTrouble` of 1 lets each failure come at every point; there are no failed
saves in this run, which a state space of five minutes has no room for: `JobQueue` covers
them, and the proofs include them. Jobs and clients are symmetric
there; every property of that run is an invariant.

*Deadlock* is not checked, except in `request_policy`, which never stops: elsewhere the system may stop. When every job has ended, no
request is under way and the bounds are spent, nothing is left to do.

*Mutants.* Each property of a passing run has a variant of one definition, kept
beside it and marked "Variant" or "As a mutant", that breaks it: a forgotten reset, a check that
is left out, a save at the wrong moment.

## 4. Fairness

`FairSpec` assumes that a thread that can move does (each worker step, as the
operating system schedules it), that an execution ends somehow (`Outcome`: the
pipeline returns, fails, or meets a safe point), that `start()` runs through, and
that a process that is stopping ends and one that is down is started again:
`docs/deployment.md:7` promises recovery on the startup that follows. Nothing is assumed of clients, of crashes or of failed
saves, and no step needs strong fairness. Crashes are finitely many by their bound;
without it `QueuedJobEnds` would not hold, and the code does not promise it.

`GenerationRuntime`, `RemoteExecution` and `RequestPolicy` assume no fairness: their
properties are invariants. That nothing waits for ever on a lock is stated
without fairness, as `SomeoneCanMove`: nothing stops a thread but the two locks
(`OnlyLocksBlock`), and whenever a request or an operation is under way some thread
waits for neither (`SomeoneIsFree`). Whether the hosted worker ever answers is nothing
this code decides.

## 5. What is proved

Every invariant and action property of the passing runs but half of
`SomeoneCanMove` is proved, for every value of the constants that satisfies the
modules' assumptions (`None` is not a job, a thread, a model, a request or a value of a
field; `Jobs` and `Clients` are finite; the bounds are naturals; the settings are some
the service starts with; drafts and posts have fields of the types above; texts have at
least as many UTF-16 units as code points, and the names of choices are stripped and
in lower case). No theorem carries a hypothesis about behaviours: where the code does
not promise more, the property says so.

**`JobQueueProofs`**: *type correctness*; *the retry budget*, by `BudgetInv`: the claims of
a job never exceed the retries its record shows plus one, in memory and on disk, and
are already below that while it is queued, which is what makes a requeue count as
the next claim; *clean queued records*; *exclusive execution, ownership and exactness of
the FIFO*, all three from `OwnInv`: alone none is inductive, since a claim trusts the
FIFO to hold only queued records, the FIFO's exactness needs that a record in progress
is not also queued, and that needs its one owner. The lemmas about sequences it rests
on (removing an id, keeping a suffix, appending) are proved first.

**`JobLifecycleProofs`**: *the refinement*: every step of the queue maps to a lifecycle step
or a stutter, without failed saves (`MaxFaults = 0`: a fault leaves the two apart by
design); *completed is final*; *with one thread a cancellation reaches its execution*, by
`EventInv` (whose event is whose) and `AloneInv`. The same statement for two threads is
finding 1.

**`BatchServiceProofs`**:
- *type correctness*;
- *the batch file tracks the job files* (`FilesTrackJobs`), by `MemberInv`: it says for each
  program point of a submission what the live record, the file and the jobs have come
  to, that only one thread submits a batch, and that live record and file know the same
  batches. Steps that are no part of a submission are shown once and for all not to
  disturb it (`Frame`);
- *no change is lost* (`RecordsAreSaved`), by `AllSaved`: whoever changes a live record is at
  a place from which it saves (`ChangeIsPending`), and a save by anyone else in between
  writes the change too (`SaveSettles`);
- *a cancellation reaches every member* (`CancelIsThorough`), by `CancelInv`: the members a
  thread has passed are a prefix of the list, up to the place it is at; the list only
  grows at its end (`ListedGrows`), and a member it has passed does not wait or run again
  but by a requeue, which its attempt shows;
- *an ended batch stays ended* (`EndIsFinal`), from `MemberInv`: the members of a batch that
  has ended are at rest, a job at rest is taken up only by a requeue (`RestKept`), and
  while all are at rest the state depends on nothing but how they ended (`RestDecides`);
- *batches keep the lifecycle* (`BatchKeepsLifecycle`): `Spec => Job!Spec`, the other side of
  the composition: a request calls the queue for one member of its batch at a time
  (`RequestCalls`), and each call is a move `JobLifecycle` has.

**`BatchExpansionProofs`**, for every request and every settings:
- *seeds never collide* (`StrideIsInjective`: a base and a variation are the digits of a
  seed in base `stride`), so the duplicate check at `batch_expansion.py:359` is dead code;
- *plans keep their limits* (`PlansKeepLimits`), including that the loop counters stay in
  range;
- *what fits is accepted, and nothing else* (`AcceptanceIsExact`): the last variation of the
  last base has the largest seed (`LastSlot`), so that the checks slot by slot amount
  to one comparison with the size of the block, and every way to refuse a well-formed
  request before the expansion implies that comparison fails;
- *seeds are dense* (`SeedsFillTheBlock`): the three loop counters are decoded from the index
  of a job (`PlanLoops`), the jobs of a prompt are an interval of indices
  (`ItemsOfPrompt`), and every seed of the block is hit, by division (`SeedsOfPrompt`).

**`BatchNamesProofs`**: *names never collide* (`NamesNeverCollide`), for numbers of any length.
A name is read from its end: behind its last bar there is the variation, before that the
seed, before that the prompt (`TagsReadBack`), whatever the stem is and however it was cut
and stripped (`OutputNameFacts`). So two jobs with one name have the same prompt, seed and
variation, and from these the counters of the three loops follow (`JobsDiffer`): they are
one job. That `Digits` is defined everywhere and writes different numbers differently are
inductions over the numbers; both are proved from a least counterexample (`Least`), since
the library's induction theorems cannot be used here. Where a suffix does not fit, only
the lengths are promised: that is the setting named under the findings.

**`GenerationRuntimeProofs`**:
- *type correctness*;
- *one diffusion pipeline* (`Residency`), by `ResidencyInv`: the generation lock belongs to
  the one thread that is at a place under it (`LockInv`), and with exclusive VRAM what
  may be resident is a function of that place (`VramInv`): the property alone is not
  inductive, since a load checks nothing of the inpainter and relies on `Prepare`
  before it;
- *outcomes are honest* and *what is served is whole*, by `OutputInv`, which says for each
  place of a thread exactly which files there may be, a crash included;
- *usable models are whole* (`ModelsAreWhole`), by `WholeInv`: of every model that is not in
  `raced`, its record is true of its directory (`Recorded`), each operation at work on it
  may still count on what an earlier step read (`Grounded`), and who deletes it is alone
  with its record (`Alone`), which is just what a race takes away. Nothing is assumed
  of how operations overlap. What the service does not exclude is in the property:
  a revalidation that read the hashes before a deletion saves its record after it and
  brings the model back, without files; files a staging area lost before they were
  hashed are missing from then on; a deletion that can neither remove nor rewrite the
  metadata leaves the record as it was;
- *activations take effect* (`ActivationsTakeEffect`), by `EffectInv`: the registry in memory
  agrees with its file, a load holds the manager's lock, so that the unload of an
  activation comes after it, and while registry and settings name one model nothing
  else is cached unless an activation is still under way. Two activations that overlap
  may leave the two naming different models: of such a state the property says nothing,
  until an activation makes them agree again;
- *nobody is stuck* (`NobodyIsStuck`), by `FreeInv`: whoever holds the generation lock is at
  a place under it, whoever holds the manager's is loading, and a load waits for nothing.

**`RemoteExecutionProofs`**:
- *type correctness* of queue and remote execution together, on top of `JobQueueProofs`, and
  *the claims of the queue* (`RemoteKeepsOwnership`): `OwnInv` is preserved by the remote
  steps too, so the guarantees of the queue do not depend on the executor;
- *the budget and the events of the queue* (`RemoteBudget`, `RemoteLoneWorkerSeesCancel`):
  `BudgetInv` and `EventInv` are preserved too; with one run per attempt the hosted
  worker runs a request at most `MaxRetries + 1` times in the life of its job (`GpuBudget`);
- *completed is final* (`RemoteCompletedFinal`), from `DiskMoves` below;
- *the lifecycle, but for late cancellations* (`RemoteLifecycleKept`): the remote execution
  does not implement `JobLifecycle`, since a job that was cancelled and retried may end as
  cancelled again when the worker still reports the first cancellation. The theorem
  says that this is the only move it adds, and that it takes only jobs a client asked
  to cancel (`LateCancel`);
- *one run per attempt*, by `RunsPaid`: the runs begun, one more for each request accepted
  and not begun, and one more for each thread about to submit never exceed the
  executions of the job, which is why a forgotten request or a repeated submission
  cannot add one;
- *the quota* (`QuotaBound`), by `QuotaInv`: what is queued for the first time and the clients
  past the check together stay within limit and peak, and the files agree with memory,
  so that a restart brings back no more. It is stated for histories without a failed
  save, which can bring a record back as queued that memory knew as ended;
- *no orphaned work* (`NothingIsOrphaned`), by `PolledInv`: a request that is not over has a
  thread at a place from which it will look again. It needs no assumption on saves:
  a save of the queue fails before the request is submitted or after it is over, so
  the property speaks of histories with failed saves too;
- *downloads are of completed jobs* (`DownloadsAreFinal`), by `FinishedInv` and `OwnInv`: a file
  that says completed is written by nobody (`DiskMoves`), since only the thread that
  owns a record in progress writes its outcome, and its request is taken on by nobody,
  since no thread executes it;
- *no cancellation out of nothing* (`CancelledOnlyOnRequest`): a mark of a cancellation on a
  record, live or on disk, in the event a thread watches, or at the worker, goes back to
  a client, through retries, restarts and lost calls.

**`RequestPolicyProofs`**: *type correctness*; *the cache is honest*; *revalidation agrees*, by
`RequestInv` (what is queued was accepted by the server in `accepted`, with a seed in its
range; what is blocked was judged by the document in `against`), with the checks that
look at nothing that moves apart from the three that do (`StaticAgree`); *no surprise*, *no false
alarm* and *schema and service agree*: for every draft, settings, family and manifest
one lemma per check compares two of the four copies of the rules (editor against
service, schema against service), and shows that they differ only where the property
says so. The editor sends names, which service and schema read alike (`NamesAreRead`); a
post may spell them otherwise, which is what `Respelt` tells apart.

*Only model-checked*, and why:
- liveness (`QueuedJobEnds`, `CancellationEnds`) and `OnlyLocksBlock`: fairness and `ENABLED`
  are out of this prover's reach;
- the runs that expect a violation: a counterexample is a behaviour of an instance.

## 6. Findings

1. `job_service.py:413` drops the cancel event under the job id, not its own. With
   two worker threads a cancellation can be accepted and never reach the execution.
   The default of one thread is safe, and that is proved.
2. `generation_service.py:857`: outputs are published after a cancellation that
   comes behind the last safe point, against the contract at `job_executor.py:68`.
3. `job_service.py:457`: a save that fails during a claim ends the worker thread; no
   other replaces it and its job stays running until the next start.
4. `batch_service.py:147`: a crash between the save of a job and the save of the
   batch's list leaves a job that runs and that no batch lists. `MembershipIsExact`,
   which is proved, says that it is at most one job per submission.

Also met, and not counted as findings: `build_output_name` is called collision-safe
(`batch_expansion.py:72`), and it is while the maximum length has room for the
suffix; the setting has no such lower limit, and below it names can coincide.

Met while modelling the rest; where a doc promises nothing, the property states what
the code does and names the difference:

- *Requests.* The editor sends the pivot's coordinates whatever the pivot mode is, and
  the schema refuses them out of range though the service would ignore them
  (`IdlePivot` in `NoSurprise`, `Ignored` in `SchemaAgrees`). The service corrects blanks and
  case of the operation, the transparency strategy and the pivot mode, and blanks of the
  atlas hint, and fills in for empty ones; the schema in front of it refuses what it
  would correct (`Respelt`). The editor does not check the
  fields in `Unchecked`. It counts text in UTF-16 units and calls a mask empty below
  luminance 8 where the service says 1, so it blocks a little more (`Stricter`). Its
  resolver asks for text-to-image whatever the operation is. A manifest restricts what is
  advertised but not what is executed. The defaults of `alpha_threshold` and of
  the pivot mode are not compared with their bounds at start: such a server refuses
  requests that leave the field out.
- *Capability cache.* An incompatible document becomes "stale" when a refresh fails
  (`CapabilityCache.cs:93`). A window that finds the entry loading and empty gives up
  without a word. A cancelled fetch leaves it unavailable, and Generate does not fetch again.
- *Remote execution.* An unreachable worker is not retryable while an HTTP error is. A
  cancellation the worker kept ends the retried job as cancelled, a move from running
  that `JobLifecycle`, which is about the local executor, does not have. A worker that
  reports completed without a result is polled for ever. A failed call leaves work
  on the worker that nobody waits for: `NoOrphanedWork` is stated without one.
- *Models.* A sidecar that fails after the promotion, or a crash there, leaves a directory
  that is not registered and blocks a reinstall. A revalidation that overlaps a deletion
  brings the model back as installed without its files. A deletion that leaves the
  metadata behind and cannot rewrite it leaves an installed record of files that are gone.
  Giving the storage directory again empties the staging area of an install under
  way: the hashes are taken of what is left, and no later check misses the rest;
  metadata that lists no files at all are filled in from whatever is there. Two
  activations that overlap may leave the registry and the settings naming different
  models. The identity in the manifest of a generation is read from the settings after
  sampling.
- *Runtime.* Asking whether background removal is available loads its session, outside the
  generation lock: it may be resident next to a diffusion pipeline, which is why
  `OneDiffusionPipeline` is about the diffusion models only. With exclusive VRAM a
  generation drops that session, and a validation that has just loaded it may then find
  it gone and refuse a request for no lasting reason; one load that fails is remembered,
  and refuses every later job of the process. The seam inpainter is the other way
  round: a failed load is tried again by a repair that was accepted before, but a load that
  then succeeds leaves the error on record, and with the weights dropped the inpainter
  is unavailable to requests again.

## 7. Order of the work

`JobQueue`, `JobLifecycle`, `BatchExpansion`, `BatchService`, then `ModelStore`,
`GenerationRuntime`, `RequestPolicy`, `RemoteExecution`; each checked first, then
proved. What would add most next: the batch window's poll loops over `BatchService`; the
content of a generation's manifest against the model that sampled it.

## 8. Not modelled

- *Moving the storage directory and additional search paths* of models: giving the same
  directory again is modelled. Moving is a choice of another registry with its own
  models, which would double the store to show nothing its operations do not.
- *The rate limit* (`QuotaService.check_request`): a window over a clock, used by one
  route after another, with no state shared with the rest.
- *Generation profiles*: static JSON, read once.
- *The manifest's layout and versions*, pixel arithmetic, diffusers and torch: data. That
  the manifest is written last and what a missing one means is in `GenerationRuntime`.
- *Authentication, error envelopes, health and version routes*: no state.
- *The editor's windows, registry of imports, batch window and history*: files and fields
  of the editor; their hazards are listed with the reason in `PROJECT.json`.
- *Two jobs of different clients under one request policy*: `RequestPolicy` follows one
  request, since validation reads the server and the request only.
- *Scripts, fixtures and tests*: read as evidence of what the code promises.
