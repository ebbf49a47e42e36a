------------------------------ MODULE JobQueue ------------------------------
(***************************************************************************)
(* The local job queue of the backend: JobService (services/job_service.py)*)
(* over JobStore (services/job_store.py).                                  *)
(*                                                                         *)
(* A job is a record that lives twice: the live object in the store's      *)
(* index (mem) and the JSON file written by the last successful save       *)
(* (disk).  Worker threads claim queued ids in FIFO order, run the local   *)
(* executor outside the service lock and report the outcome under it;      *)
(* clients submit, cancel and retry at any time; the process may die at    *)
(* any step and be started again, and a save may fail.  Everything the     *)
(* code does while it holds the service lock is one action.                *)
(***************************************************************************)
EXTENDS Naturals, SequencesExt

CONSTANTS
    Jobs,           \* job ids the clients may create
    Workers,        \* worker threads: max_concurrent_generations
    MaxRetries,     \* settings.max_job_retries
    AutoRetry,      \* settings.job_auto_retry
    MaxCrashes,     \* bound: process deaths in a behaviour
    MaxFaults,      \* bound: failed saves in a behaviour
    None            \* "no job"

ASSUME JobQueueAssumption ==
    /\ IsFiniteSet(Jobs)
    /\ MaxRetries \in Nat
    /\ AutoRetry \in BOOLEAN
    /\ MaxCrashes \in Nat
    /\ MaxFaults \in Nat
    /\ None \notin Jobs

VARIABLES
    phase,          \* life of the process
    mem,            \* JobStore._records: the live record objects
    disk,           \* the job files
    queue,          \* JobStore._queue
    pc,             \* where each worker thread is
    job,            \* the record each worker thread claimed
    events,         \* JobService._cancel_events: an event belongs to a job and
                    \* is named by the claim that created it, 0 for no event
    signalled,      \* the events that are set, as <<job, claim>>
    watch,          \* the event each running executor was handed
    runs,           \* history: claims of each job over its whole life
    crashes,        \* process deaths so far
    faults          \* failed saves so far

process == <<phase, crashes>>
store   == <<mem, disk, queue>>
thread  == <<pc, job, watch>>
cancels == <<events, signalled>>
vars    == <<process, store, thread, cancels, runs, faults>>

-----------------------------------------------------------------------------
States     == {"queued", "running", "completed", "failed", "cancelling",
               "cancelled", "interrupted"}
Terminal   == {"completed", "failed", "cancelled", "interrupted"}
Retryable  == {"failed", "interrupted", "cancelled"}
InProgress == {"running", "cancelling"}
Errors     == {"none", "retryable", "fatal"}

\* The fields of JobRecord that the control flow reads.
Records == [state : States, cancel : BOOLEAN, retries : Nat, error : Errors]

\* An id the store does not know.
NoRecord == [state |-> "absent", cancel |-> FALSE, retries |-> 0, error |-> "none"]

Phases  == {"down", "recovering", "serving", "stopping"}
Working == {"claimed", "executing", "publishing", "published"}
Pcs     == Working \cup {"idle", "raised", "cleanup", "exited"}

\* The worker threads exist and requests are answered.
Alive == phase \in {"serving", "stopping"}

-----------------------------------------------------------------------------
(* The record each handler leaves behind.                                  *)

NewRecord   == [NoRecord EXCEPT !.state = "queued"]
Claimed(r)  == [r EXCEPT !.state = "running"]
Cancelled(r) ==
    [r EXCEPT !.state = "cancelled", !.cancel = TRUE, !.error = "retryable"]
Cancelling(r) == [r EXCEPT !.state = "cancelling", !.cancel = TRUE]
\* Variant: the requeue forgets to clear the flag.
RequeuedStillFlagged(r) ==
    [r EXCEPT !.state = "queued", !.retries = @ + 1, !.error = "none"]
Requeued(r) ==
    [state |-> "queued", cancel |-> FALSE, retries |-> r.retries + 1,
     error |-> "none"]
Completed(r)   == [r EXCEPT !.state = "completed", !.error = "none"]
Failed(r, err) == [r EXCEPT !.state = "failed", !.error = err]
Interrupted(r) ==
    [r EXCEPT !.state = "interrupted", !.cancel = FALSE, !.error = "retryable"]

CancelPending(r) == r.cancel \/ r.state = "cancelling"

\* _handle_failure: cancellation wins, then the automatic retry.
AutoRetried(r, err) ==
    /\ ~CancelPending(r)
    /\ AutoRetry
    /\ err = "retryable"
    /\ r.retries < MaxRetries

AfterFailure(r, err) ==
    IF CancelPending(r) THEN Cancelled(r)
    ELSE IF AutoRetried(r, err) THEN Requeued(r)
    ELSE Failed(r, err)

\* Variants: a late cancellation is overlooked, or noticed and not recorded.
AfterSuccessUnchecked(r) == Completed(r)
AfterSuccessUnmarked(r) == IF CancelPending(r) THEN r ELSE Completed(r)

\* The record after a successful execute(): a late cancellation still wins.
AfterSuccess(r) == IF CancelPending(r) THEN Cancelled(r) ELSE Completed(r)

\* Variant: a requeue after a crash is not charged to the retry budget.
AfterCrashUncharged(r) ==
    IF r.state = "running" /\ r.retries < MaxRetries
    THEN [Requeued(r) EXCEPT !.retries = r.retries] ELSE Interrupted(r)

\* _recover_locked: what becomes of a record found running or cancelling.
AfterCrash(r) ==
    IF r.state = "running" /\ r.retries < MaxRetries
    THEN Requeued(r) ELSE Interrupted(r)

\* Variants: any ended job can be retried, or any job not yet completed.
CanRetryEnded(r) ==
    r.state \in Terminal /\ r.retries < MaxRetries /\ r.error # "fatal"
CanRetryUnfinished(r) ==
    /\ r.state \in Retryable \cup InProgress
    /\ r.retries < MaxRetries
    /\ r.error # "fatal"

CanRetry(r) ==
    /\ r.state \in Retryable
    /\ r.retries < MaxRetries
    /\ r.error # "fatal"

-----------------------------------------------------------------------------
(* JobStore.  The handlers change the live record first and save it after: *)
(* when the write fails the exception leaves the two apart.                *)

Save(j, r) ==
    /\ mem' = [mem EXCEPT ![j] = r]
    /\ disk' = [disk EXCEPT ![j] = r]
    /\ UNCHANGED faults

SaveFails(j, r) ==
    /\ faults < MaxFaults
    /\ faults' = faults + 1
    /\ mem' = [mem EXCEPT ![j] = r]
    /\ UNCHANGED disk

Enqueue(j) == queue' = IF Contains(queue, j) THEN queue ELSE Append(queue, j)

\* Variant: a cancelled id is left for claim_next to skip.
LeaveInQueue(j) == UNCHANGED queue

RemoveFromQueue(j) ==
    IF Contains(queue, j)
    THEN \E i \in 1..Len(queue) : queue[i] = j /\ queue' = RemoveAt(queue, i)
    ELSE UNCHANGED queue

\* claim_next skips the ids whose record is no longer queued: n is the
\* position of the first id it returns.
FirstQueued(n) ==
    /\ mem[queue[n]].state = "queued"
    /\ \A i \in 1..(n - 1) : mem[queue[i]].state # "queued"

QueuedJobs == {j \in Jobs : mem[j].state = "queued"}

Init ==
    /\ phase = "down"
    /\ mem = [j \in Jobs |-> NoRecord]
    /\ disk = [j \in Jobs |-> NoRecord]
    /\ queue = <<>>
    /\ pc = [w \in Workers |-> "exited"]
    /\ job = [w \in Workers |-> None]
    /\ events = [j \in Jobs |-> 0]
    /\ signalled = {}
    /\ watch = [w \in Workers |-> 0]
    /\ runs = [j \in Jobs |-> 0]
    /\ crashes = 0
    /\ faults = 0

-----------------------------------------------------------------------------
(* The life of the process: start() reloads the files, repairs one record  *)
(* at a time and then starts the threads, all under the lock and before a  *)
(* request is answered; the process may die at any step.                   *)

Start ==
    /\ phase = "down"
    /\ phase' = "recovering"
    /\ mem' = disk
    /\ UNCHANGED <<crashes, disk, queue, thread, cancels, runs, faults>>

\* A save that fails here escapes start(): the process gives up.
Recover(j) ==
    /\ phase = "recovering"
    /\ mem[j].state \in InProgress
    /\ \/ Save(j, AfterCrash(mem[j])) /\ UNCHANGED phase
       \/ SaveFails(j, AfterCrash(mem[j])) /\ phase' = "down"
    /\ UNCHANGED <<crashes, queue, thread, cancels, runs>>

\* Variant: only the records that recovery requeued itself are enqueued.
FinishStartForgetful ==
    /\ phase = "recovering"
    /\ \A j \in Jobs : mem[j].state \notin InProgress
    /\ phase' = "serving"
    /\ queue' \in SetToSeqs({j \in QueuedJobs : mem[j].retries > 0})
    /\ pc' = [w \in Workers |-> "idle"]
    /\ UNCHANGED <<crashes, mem, disk, job, watch, cancels, runs, faults>>

\* The queue is rebuilt from the queued records, by creation time and id:
\* here in any order.
FinishStart ==
    /\ phase = "recovering"
    /\ \A j \in Jobs : mem[j].state \notin InProgress
    /\ phase' = "serving"
    /\ queue' \in SetToSeqs(QueuedJobs)
    /\ pc' = [w \in Workers |-> "idle"]
    /\ UNCHANGED <<crashes, mem, disk, job, watch, cancels, runs, faults>>

\* stop(): no new work; the idle threads leave, the busy ones finish first.
Stop ==
    /\ phase = "serving"
    /\ crashes < MaxCrashes
    /\ phase' = "stopping"
    /\ UNCHANGED <<crashes, store, thread, cancels, runs, faults>>

\* A crash, or the end of a stopped process: its join gives up after a
\* timeout and the threads are daemons, so work may still be in flight.
ProcessExit ==
    /\ phase # "down"
    /\ crashes < MaxCrashes
    /\ crashes' = crashes + 1
    /\ phase' = "down"
    /\ mem' = [j \in Jobs |-> NoRecord]
    /\ queue' = <<>>
    /\ pc' = [w \in Workers |-> "exited"]
    /\ job' = [w \in Workers |-> None]
    /\ watch' = [w \in Workers |-> 0]
    /\ events' = [j \in Jobs |-> 0]
    /\ signalled' = {}
    /\ UNCHANGED <<disk, runs, faults>>

-----------------------------------------------------------------------------
(* Requests.                                                               *)

\* A new record whose save fails leaves nothing behind.
Submit(j) ==
    /\ phase = "serving"
    /\ mem[j] = NoRecord
    /\ Save(j, NewRecord)
    /\ Enqueue(j)
    /\ UNCHANGED <<process, thread, cancels, runs>>

CancelQueued(j) ==
    /\ Alive
    /\ mem[j].state = "queued"
    /\ RemoveFromQueue(j)
    /\ Save(j, Cancelled(mem[j])) \/ SaveFails(j, Cancelled(mem[j]))
    /\ UNCHANGED <<process, thread, cancels, runs>>

\* The event is set after the save: a failed save never reaches it.
CancelRunning(j) ==
    /\ Alive
    /\ mem[j].state = "running"
    /\ \/ /\ Save(j, Cancelling(mem[j]))
          /\ signalled' = signalled \cup ({<<j, events[j]>>} \ {<<j, 0>>})
       \/ /\ SaveFails(j, Cancelling(mem[j]))
          /\ UNCHANGED signalled
    /\ UNCHANGED <<process, queue, thread, events, runs>>

Retry(j) ==
    /\ phase = "serving"
    /\ CanRetry(mem[j])
    /\ \/ Save(j, Requeued(mem[j])) /\ Enqueue(j)
       \/ SaveFails(j, Requeued(mem[j])) /\ UNCHANGED queue
    /\ UNCHANGED <<process, thread, cancels, runs>>

-----------------------------------------------------------------------------
(* A worker thread.                                                        *)

MoveTo(w, p) ==
    /\ pc' = [pc EXCEPT ![w] = p]
    /\ UNCHANGED <<job, watch>>

\* A claim whose save fails leaves the loop through no handler: the thread
\* is gone and its job stays running in memory.  The queued record is never
\* cancel_requested (QueuedIsFresh), so the branch for it is dead code.
Claim(w) ==
    /\ phase = "serving"
    /\ pc[w] = "idle"
    /\ \E n \in 1..Len(queue) :
        LET j == queue[n] IN
        /\ FirstQueued(n)
        /\ queue' = SubSeq(queue, n + 1, Len(queue))
        /\ \/ /\ Save(j, Claimed(mem[j]))
              /\ pc' = [pc EXCEPT ![w] = "claimed"]
              /\ job' = [job EXCEPT ![w] = j]
              /\ events' = [events EXCEPT ![j] = runs[j] + 1]
              /\ runs' = [runs EXCEPT ![j] = @ + 1]
           \/ /\ SaveFails(j, Claimed(mem[j]))
              /\ pc' = [pc EXCEPT ![w] = "exited"]
              /\ UNCHANGED <<job, events, runs>>
    /\ UNCHANGED <<process, watch, signalled>>

\* Only ids whose record has left the queued state: claim_next drops them.
SkipStale(w) ==
    /\ phase = "serving"
    /\ pc[w] = "idle"
    /\ queue # <<>>
    /\ \A n \in 1..Len(queue) : mem[queue[n]].state # "queued"
    /\ queue' = <<>>
    /\ UNCHANGED <<process, mem, disk, thread, cancels, runs, faults>>

\* Variant: a stopped thread leaves without finishing its job.
LeaveLoopBusy(w) ==
    /\ phase = "stopping"
    /\ pc[w] # "exited"
    /\ MoveTo(w, "exited")
    /\ UNCHANGED <<process, store, cancels, runs, faults>>

LeaveLoop(w) ==
    /\ phase = "stopping"
    /\ pc[w] = "idle"
    /\ MoveTo(w, "exited")
    /\ UNCHANGED <<process, store, cancels, runs, faults>>

\* Variant: the event is created here and not under the claim's lock.
BeginExecuteFreshEvent(w) ==
    /\ pc[w] = "claimed"
    /\ pc' = [pc EXCEPT ![w] = "executing"]
    /\ watch' = [watch EXCEPT ![w] = runs[job[w]]]
    /\ events' = [events EXCEPT ![job[w]] = runs[job[w]]]
    /\ signalled' = signalled \ {<<job[w], runs[job[w]]>>}
    /\ UNCHANGED <<process, store, job, runs, faults>>

\* The event is looked up after the claim released the lock; an id with no
\* event gets a private one that nobody can set.
BeginExecute(w) ==
    /\ pc[w] = "claimed"
    /\ pc' = [pc EXCEPT ![w] = "executing"]
    /\ watch' = [watch EXCEPT ![w] = events[job[w]]]
    /\ UNCHANGED <<process, store, job, cancels, runs, faults>>

\* The executor saves the live record with its coarse progress.
SaveProgress(w) ==
    /\ pc[w] = "executing"
    /\ mem[job[w]].state \in InProgress
    /\ disk' = [disk EXCEPT ![job[w]] = mem[job[w]]]
    /\ UNCHANGED <<process, mem, queue, thread, cancels, runs, faults>>

\* The event the executor was handed is set.
IsSet(w) == <<job[w], watch[w]>> \in signalled

\* The last raise_if_cancelled before the outputs are written.
PassLastCheck(w) ==
    /\ pc[w] = "executing"
    /\ ~IsSet(w)
    /\ MoveTo(w, "publishing")
    /\ UNCHANGED <<process, store, cancels, runs, faults>>

PublishOutputs(w) ==
    /\ pc[w] = "publishing"
    /\ MoveTo(w, "published")
    /\ UNCHANGED <<process, store, cancels, runs, faults>>

\* The outcome of an execution is recorded; a failed save is an unexpected
\* exception for the worker loop.
Record(w, r) ==
    \/ Save(job[w], r) /\ MoveTo(w, "cleanup")
    \/ SaveFails(job[w], r) /\ MoveTo(w, "raised")

\* Any raise_if_cancelled that finds the event set.
ObserveCancel(w) ==
    /\ pc[w] = "executing"
    /\ IsSet(w)
    /\ Record(w, Cancelled(mem[job[w]]))
    /\ UNCHANGED <<process, queue, cancels, runs>>

ExecuteFails(w) ==
    LET j == job[w] IN
    /\ pc[w] \in {"executing", "publishing"}
    /\ \E err \in Errors \ {"none"} :
        /\ Record(w, AfterFailure(mem[j], err))
        /\ IF AutoRetried(mem[j], err) /\ pc'[w] = "cleanup"
           THEN Enqueue(j) ELSE UNCHANGED queue
    /\ UNCHANGED <<process, cancels, runs>>

\* The executor's own check after publishing ends in the same record as the
\* one made here under the lock.
ExecuteReturns(w) ==
    /\ pc[w] = "published"
    /\ Record(w, AfterSuccess(mem[job[w]]))
    /\ UNCHANGED <<process, queue, cancels, runs>>

\* _fail_job, whatever the job has become since the exception.
FailJob(w) ==
    LET r == mem[job[w]] IN
    /\ pc[w] = "raised"
    /\ IF r.state \in Terminal
       THEN UNCHANGED <<mem, disk, faults>>
       ELSE \/ Save(job[w], Failed(r, "retryable"))
            \/ SaveFails(job[w], Failed(r, "retryable"))
    /\ MoveTo(w, "cleanup")
    /\ UNCHANGED <<process, queue, cancels, runs>>

\* The finally block: the event under this job id is dropped, whoever put
\* it there.
Cleanup(w) ==
    /\ pc[w] = "cleanup"
    /\ pc' = [pc EXCEPT ![w] = "idle"]
    /\ job' = [job EXCEPT ![w] = None]
    /\ watch' = [watch EXCEPT ![w] = 0]
    /\ events' = [events EXCEPT ![job[w]] = 0]
    /\ UNCHANGED <<process, store, signalled, runs, faults>>

-----------------------------------------------------------------------------
Lifecycle ==
    Start \/ FinishStart \/ Stop \/ ProcessExit \/ \E j \in Jobs : Recover(j)

Client ==
    \E j \in Jobs : Submit(j) \/ CancelQueued(j) \/ CancelRunning(j) \/ Retry(j)

Worker(w) ==
    \/ Claim(w) \/ SkipStale(w) \/ LeaveLoop(w)
    \/ BeginExecute(w) \/ SaveProgress(w) \/ PassLastCheck(w)
    \/ PublishOutputs(w) \/ ObserveCancel(w) \/ ExecuteFails(w)
    \/ ExecuteReturns(w) \/ FailJob(w) \/ Cleanup(w)

Next == Lifecycle \/ Client \/ \E w \in Workers : Worker(w)

Spec == Init /\ [][Next]_vars

\* Threads that can move do, an execution ends, and a process that is down
\* is started again.  Nothing is assumed of clients, crashes or faults.
Outcome(w) == PassLastCheck(w) \/ ObserveCancel(w) \/ ExecuteFails(w)

Fairness ==
    /\ WF_vars(Start)
    /\ WF_vars(FinishStart)
    /\ \A j \in Jobs : WF_vars(Recover(j))
    /\ WF_vars(phase = "stopping" /\ ProcessExit)
    /\ \A w \in Workers :
        /\ WF_vars(Claim(w) \/ SkipStale(w))
        /\ WF_vars(BeginExecute(w))
        /\ WF_vars(Outcome(w))
        /\ WF_vars(PublishOutputs(w))
        /\ WF_vars(ExecuteReturns(w))
        /\ WF_vars(FailJob(w))
        /\ WF_vars(Cleanup(w))

FairSpec == Spec /\ Fairness

-----------------------------------------------------------------------------
(* Properties.                                                             *)

\* The shape of the state: records of known jobs, one program point per
\* thread; a thread holds a job exactly from its claim to its finally block
\* and there are no threads before start() is done.
TypeOK ==
    /\ phase \in Phases
    /\ mem \in [Jobs -> Records \cup {NoRecord}]
    /\ disk \in [Jobs -> Records \cup {NoRecord}]
    /\ queue \in Seq(Jobs)
    /\ pc \in [Workers -> Pcs]
    /\ job \in [Workers -> Jobs \cup {None}]
    /\ events \in [Jobs -> Nat]
    /\ signalled \in SUBSET (Jobs \X Nat)
    /\ watch \in [Workers -> Nat]
    /\ runs \in [Jobs -> Nat]
    /\ crashes \in Nat
    /\ faults \in Nat
    /\ \A w \in Workers : job[w] = None <=> pc[w] \in {"idle", "exited"}
    /\ Alive \/ \A w \in Workers : pc[w] = "exited"

\* A queued record is never flagged for cancellation, whatever handler
\* queued it: a claim always starts from a clean record, and the branch of
\* _claim_next_locked for a flagged one cannot be taken.
QueuedIsFresh ==
    \A j \in Jobs : \A r \in {mem[j], disk[j]} : r.state = "queued" => ~r.cancel

\* Retries are a budget over the whole life of a job: automatic retries,
\* client retries and requeues after a crash all draw on it, so that a job
\* that keeps killing the process is executed at most MaxRetries + 1 times,
\* whatever crashes and failed saves come between.
RunBudget == \A j \in Jobs : runs[j] <= MaxRetries + 1

\* While every save has succeeded, two threads never execute the same job.
ExclusiveExecution ==
    faults = 0 =>
        \A v, w \in Workers :
            (v # w /\ pc[v] \in Working /\ pc[w] \in Working) => job[v] # job[w]

\* While every save has succeeded, a job is running or cancelling exactly
\* while a thread executes it: none is stuck in progress without a thread,
\* none is executed after its record left these states.
InProgressIsOwned ==
    (faults = 0 /\ Alive) =>
        \A j \in Jobs :
            mem[j].state \in InProgress
                <=> \E w \in Workers : pc[w] \in Working /\ job[w] = j

\* While every save has succeeded, the FIFO holds every queued job exactly
\* once and nothing else: no queued job waits for ever outside it, and none
\* is claimed twice.
QueueIsExact ==
    (faults = 0 /\ Alive) =>
        /\ ToSet(queue) = QueuedJobs
        /\ IsInjective(queue)

\* The cancellation of a running job reaches the execution it is meant for.
CancelReachesExecutor ==
    faults = 0 =>
        \A w \in Workers :
            /\ pc[w] = "executing" /\ mem[job[w]].state = "cancelling"
                => IsSet(w)
            /\ pc[w] = "claimed" /\ mem[job[w]].state = "cancelling"
                => <<job[w], events[job[w]]>> \in signalled

\* The outputs of a job are not written once its cancellation was accepted.
NoOutputsAfterCancel ==
    [][\A w \in Workers :
        (pc[w] = "publishing" /\ pc'[w] = "published")
            => mem[job[w]].state # "cancelling"]_vars

\* While every save has succeeded, a completed job stays completed: no
\* retry, late failure, cancellation or recovery reopens it.
CompletedIsFinal ==
    [][faults' = 0 =>
        \A j \in Jobs :
            disk[j].state = "completed" => disk'[j].state = "completed"]_vars

\* Every queued job ends, and so does every accepted cancellation, through
\* crashes and restarts.
QueuedJobEnds ==
    \A j \in Jobs : disk[j].state = "queued" ~> disk[j].state \in Terminal

CancellationEnds ==
    \A j \in Jobs : disk[j].state = "cancelling" ~> disk[j].state \in Terminal

-----------------------------------------------------------------------------
(* The queue implements the lifecycle: its state is read from the files.   *)

Life == INSTANCE JobLifecycle WITH
    status  <- [j \in Jobs |-> disk[j].state],
    attempt <- [j \in Jobs |-> disk[j].retries]

\* Every step of the threads, the clients, the crashes and the recovery is a
\* step of the job lifecycle or invisible in the files.
ImplementsLifecycle == Life!Spec

=============================================================================
