--------------------------- MODULE RemoteExecution ---------------------------
(***************************************************************************)
(* The job queue with WORKER_MODE=remote: the worker threads hand a job to *)
(* a hosted worker (RemoteGenerationExecutor, services/job_executor.py,    *)
(* over HttpRemoteWorkerClient, services/remote_worker_http.py), poll it   *)
(* and relay one cancellation; clients are admitted by the queue quota     *)
(* (services/quota_service.py) and import what they polled as completed    *)
(* (GenerationController.cs).                                              *)
(*                                                                         *)
(* The queue, the records, the recovery and the cancel events are those of *)
(* JobQueue; only the steps inside execute() differ.  The hosted worker is *)
(* outside the repository: it answers as docs/deployment.md asks, and a    *)
(* call to it may fail before or after it took effect.                     *)
(***************************************************************************)
EXTENDS JobQueue

CONSTANTS
    Clients,        \* requests the API serves at the same time
    MaxQueued,      \* settings.max_queued_jobs; 0: no limit
    MaxTrouble      \* bound: failed calls, restarts of the hosted worker and
                    \* process deaths, together

ASSUME RemoteAssumption ==
    /\ IsFiniteSet(Clients)
    /\ MaxQueued \in Nat
    /\ MaxTrouble \in Nat

VARIABLES
    step,           \* where each thread is inside execute()
    sent,           \* the threads whose cancellation_sent is True
    remote,         \* the hosted worker's state of each request id
    stopping,       \* the request ids it was asked to cancel
    starts,         \* history: how often it began to run each request id
    lost,           \* failed calls so far
    stage,          \* where each client is
    target,         \* the job each client downloads
    peak,           \* history: most requests at once past the quota check
    wanted          \* history: jobs whose cancellation was accepted

executor   == <<step, sent>>
hosted     == <<remote, stopping, starts>>
editor     == <<stage, target, peak>>
remoteVars == <<executor, hosted, lost, editor, wanted>>
allVars    == <<vars, remoteVars>>

Steps   == {"none", "submit", "loop", "status", "cancelled", "retryable", "fatal"}
Active  == {"accepted", "working"}
Ended   == {"completed", "failed", "cancelled"}
Stages  == {"idle", "checked", "downloading"}

RemoteInit ==
    /\ Init
    /\ step = [w \in Workers |-> "none"]
    /\ sent = {}
    /\ remote = [j \in Jobs |-> "absent"]
    /\ stopping = {}
    /\ starts = [j \in Jobs |-> 0]
    /\ lost = 0
    /\ stage = [c \in Clients |-> "idle"]
    /\ target = [c \in Clients |-> None]
    /\ peak = 0
    /\ wanted = {}

-----------------------------------------------------------------------------
(* The hosted worker.  A request id it knows is not run twice: while it is *)
(* active, or completed, a repeated submission changes nothing; one that   *)
(* failed or was cancelled is kept as it is or taken again.                *)

Known(j) == remote[j] # "absent"

Accept(j) ==
    \/ /\ remote[j] \in {"absent", "failed", "cancelled"}
       /\ remote' = [remote EXCEPT ![j] = "accepted"]
       /\ stopping' = stopping \ {j}
    \/ Known(j) /\ UNCHANGED <<remote, stopping>>

RemoteMoves(j, from, to) ==
    /\ remote[j] \in from
    /\ remote' = [remote EXCEPT ![j] = to]
    /\ UNCHANGED <<vars, executor, stopping, lost, editor, wanted>>

RemoteBegins(j) ==
    /\ RemoteMoves(j, {"accepted"}, "working")
    /\ starts' = [starts EXCEPT ![j] = @ + 1]

\* A cancellation that comes too late does not undo the work.
RemoteEnds(j) ==
    /\ \/ RemoteMoves(j, {"working"}, "completed")
       \/ RemoteMoves(j, {"working"}, "failed")
       \/ j \in stopping /\ RemoteMoves(j, Active, "cancelled")
    /\ UNCHANGED starts

\* A restart that forgets the request.
RemoteForgets(j) ==
    /\ lost + crashes < MaxTrouble
    /\ Known(j)
    /\ lost' = lost + 1
    /\ remote' = [remote EXCEPT ![j] = "absent"]
    /\ stopping' = stopping \ {j}
    /\ UNCHANGED <<vars, executor, starts, editor, wanted>>

-----------------------------------------------------------------------------
(* RemoteGenerationExecutor.execute in a worker thread.                    *)

GoTo(w, s) == step' = [step EXCEPT ![w] = s]

\* An HTTP error, an unreadable answer or a read timeout is retryable; an
\* unreachable worker (JOB_SERVICE_UNAVAILABLE) is not.
CallFails(w) ==
    /\ lost + crashes < MaxTrouble
    /\ lost' = lost + 1
    /\ GoTo(w, "retryable") \/ GoTo(w, "fatal")
    /\ UNCHANGED sent

EnterExecute(w) ==
    /\ BeginExecute(w)
    /\ GoTo(w, "submit")
    /\ UNCHANGED <<sent, hosted, lost, editor, wanted>>

\* The job id is the request id: each attempt of a job submits the same one.
SubmitRequest(w) ==
    /\ pc[w] = "executing"
    /\ step[w] = "submit"
    /\ \/ Accept(job[w]) /\ GoTo(w, "loop") /\ UNCHANGED <<sent, lost>>
       \/ CallFails(w) /\ (Accept(job[w]) \/ UNCHANGED <<remote, stopping>>)
    /\ UNCHANGED <<vars, starts, editor, wanted>>

\* Variant: the cancellation is taken for granted once it was sent.
RelayCancelAndLeave(w) ==
    /\ pc[w] = "executing"
    /\ step[w] = "loop"
    /\ IF IsSet(w)
       THEN /\ stopping' = stopping \cup {job[w]}
            /\ sent' = sent \cup {w}
            /\ GoTo(w, "cancelled")
       ELSE /\ GoTo(w, "status")
            /\ UNCHANGED <<sent, stopping>>
    /\ UNCHANGED <<vars, remote, starts, lost, editor, wanted>>

\* The event is looked at once per turn of the loop and relayed once.
RelayCancel(w) ==
    /\ pc[w] = "executing"
    /\ step[w] = "loop"
    /\ IF IsSet(w) /\ w \notin sent
       THEN \/ /\ stopping' = stopping \cup {job[w]}
               /\ sent' = sent \cup {w}
               /\ GoTo(w, "status")
               /\ UNCHANGED lost
            \/ /\ CallFails(w)
               /\ stopping' \in {stopping, stopping \cup {job[w]}}
       ELSE /\ GoTo(w, "status")
            /\ UNCHANGED <<sent, stopping, lost>>
    /\ UNCHANGED <<vars, remote, starts, editor, wanted>>

\* on_progress: the record is saved while it is still in progress.
OnProgress(w) ==
    \/ SaveProgress(w)
    \/ mem[job[w]].state \notin InProgress /\ UNCHANGED vars

\* Variant: a forgotten request is submitted again by the running attempt.
PollStatusResubmits(w) ==
    LET j == job[w] IN
    /\ pc[w] = "executing"
    /\ step[w] = "status"
    /\ \/ Known(j) /\ remote[j] \in Active /\ OnProgress(w) /\ GoTo(w, "loop")
          /\ UNCHANGED hosted
       \/ ~Known(j) /\ GoTo(w, "loop") /\ Accept(j) /\ UNCHANGED <<vars, starts>>
    /\ UNCHANGED <<sent, lost, editor, wanted>>

\* get_status: a request in progress is polled again, one that failed
\* brings the worker's error, one it does not know is an HTTP error, and a
\* completed one ends execute().
PollStatus(w) ==
    LET j == job[w] IN
    /\ pc[w] = "executing"
    /\ step[w] = "status"
    /\ \/ /\ remote[j] \in Active
          /\ OnProgress(w)
          /\ GoTo(w, "loop")
       \/ /\ remote[j] = "completed"
          /\ MoveTo(w, "published")
          /\ GoTo(w, "none")
          /\ UNCHANGED <<process, store, cancels, runs, faults>>
       \/ /\ remote[j] = "cancelled"
          /\ GoTo(w, "cancelled")
          /\ UNCHANGED vars
       \/ /\ remote[j] = "failed"
          /\ GoTo(w, "retryable") \/ GoTo(w, "fatal")
          /\ UNCHANGED vars
       \/ /\ ~Known(j)
          /\ GoTo(w, "retryable")
          /\ UNCHANGED vars
    /\ UNCHANGED <<sent, hosted, lost, editor, wanted>>

StatusLost(w) ==
    /\ pc[w] = "executing"
    /\ step[w] = "status"
    /\ CallFails(w)
    /\ UNCHANGED <<vars, hosted, editor, wanted>>

\* Variant: every exception of execute() is taken for a cancellation.
RaiseAnyAsCancelled(w) ==
    /\ pc[w] = "executing"
    /\ step[w] \in {"cancelled", "retryable", "fatal"}
    /\ Record(w, Cancelled(mem[job[w]]))
    /\ UNCHANGED <<process, queue, cancels, runs>>
    /\ GoTo(w, "none")
    /\ UNCHANGED <<sent, hosted, lost, editor, wanted>>

\* The exception reaches the worker loop, which records what it means for
\* the job as it is by then.
Raise(w) ==
    LET j == job[w] IN
    /\ pc[w] = "executing"
    /\ \/ /\ step[w] = "cancelled"
          /\ Record(w, Cancelled(mem[j]))
          /\ UNCHANGED queue
       \/ /\ step[w] \in {"retryable", "fatal"}
          /\ Record(w, AfterFailure(mem[j], step[w]))
          /\ IF AutoRetried(mem[j], step[w]) /\ pc'[w] = "cleanup"
             THEN Enqueue(j) ELSE UNCHANGED queue
    /\ GoTo(w, "none")
    /\ UNCHANGED <<process, cancels, runs, sent, hosted, lost, editor, wanted>>

RemoteThread(w) ==
    \/ EnterExecute(w) \/ SubmitRequest(w) \/ RelayCancel(w)
    \/ PollStatus(w) \/ StatusLost(w) \/ Raise(w)
    \/ /\ Cleanup(w)
       /\ sent' = sent \ {w}
       /\ UNCHANGED <<step, hosted, lost, editor, wanted>>
    \/ /\ Claim(w) \/ SkipStale(w) \/ LeaveLoop(w) \/ ExecuteReturns(w)
          \/ FailJob(w)
       /\ UNCHANGED remoteVars

-----------------------------------------------------------------------------
(* The clients.                                                            *)

\* Variant: the request itself is not counted.
HasRoomWithoutItself == MaxQueued = 0 \/ Cardinality(QueuedJobs) <= MaxQueued

Checked == {c \in Clients : stage[c] = "checked"}

\* check_queue counts the queued records; nothing is reserved.
HasRoom == MaxQueued = 0 \/ Cardinality(QueuedJobs) + 1 <= MaxQueued

\* The route asks the quota first ...
CheckQueue(c) ==
    /\ Alive
    /\ stage[c] = "idle"
    /\ HasRoom
    /\ stage' = [stage EXCEPT ![c] = "checked"]
    /\ peak' = IF Cardinality(Checked') > peak THEN Cardinality(Checked') ELSE peak
    /\ UNCHANGED <<vars, executor, hosted, lost, target, wanted>>

\* ... and submits after, in another acquisition of the lock; a stopping
\* service refuses.
SubmitChecked(c) ==
    /\ stage[c] = "checked"
    /\ stage' = [stage EXCEPT ![c] = "idle"]
    /\ \/ \E j \in Jobs : Submit(j)
       \/ phase # "serving" /\ UNCHANGED vars
    /\ UNCHANGED <<executor, hosted, lost, target, peak, wanted>>

\* Variant: the state of the finished job is not looked at.
ImportableOnceOver(r) == r.state \in Terminal

\* The branches on the record WaitForJobAsync and ImportHistoryJobAsync read.
Importable(r) == r.state = "completed"

\* A wait changes nothing until the record it reads can be imported, in the
\* window that submitted the job or from the history of another.
BeginDownload(c) ==
    /\ Alive
    /\ stage[c] = "idle"
    /\ stage' = [stage EXCEPT ![c] = "downloading"]
    /\ \E j \in Jobs :
        /\ Importable(mem[j])
        /\ target' = [target EXCEPT ![c] = j]
    /\ UNCHANGED <<vars, executor, hosted, lost, peak, wanted>>

\* Variant: the window is free again and still holds the job.
EndDownloadHoldsJob(c) ==
    /\ stage[c] = "downloading"
    /\ stage' = [stage EXCEPT ![c] = "idle"]
    /\ UNCHANGED <<vars, executor, hosted, lost, target, peak, wanted>>

\* The image is imported, or the user cancels or a download fails.
EndDownload(c) ==
    /\ stage[c] = "downloading"
    /\ stage' = [stage EXCEPT ![c] = "idle"]
    /\ target' = [target EXCEPT ![c] = None]
    /\ UNCHANGED <<vars, executor, hosted, lost, peak, wanted>>

\* Any client may cancel or retry any job of the history.
CancelJob(j) ==
    /\ CancelQueued(j) \/ CancelRunning(j)
    /\ wanted' = wanted \cup {j}
    /\ UNCHANGED <<executor, hosted, lost, editor>>

-----------------------------------------------------------------------------
\* Requests in flight die with the process.
Exit ==
    /\ lost + crashes < MaxTrouble
    /\ ProcessExit
    /\ step' = [w \in Workers |-> "none"]
    /\ sent' = {}
    /\ stage' = [c \in Clients |->
                    IF stage[c] = "checked" THEN "idle" ELSE stage[c]]
    /\ UNCHANGED <<hosted, lost, target, peak, wanted>>

RemoteLifecycle ==
    \/ Exit
    \/ /\ Start \/ FinishStart \/ Stop \/ \E j \in Jobs : Recover(j)
       /\ UNCHANGED remoteVars

RemoteNext ==
    \/ RemoteLifecycle
    \/ \E w \in Workers : RemoteThread(w)
    \/ \E j \in Jobs : RemoteBegins(j) \/ RemoteEnds(j) \/ RemoteForgets(j)
    \/ \E j \in Jobs : CancelJob(j) \/ (Retry(j) /\ UNCHANGED remoteVars)
    \/ \E c \in Clients :
        CheckQueue(c) \/ SubmitChecked(c) \/ BeginDownload(c) \/ EndDownload(c)

RemoteSpec == RemoteInit /\ [][RemoteNext]_allVars

-----------------------------------------------------------------------------
(* Properties.                                                             *)

\* The shape of the state; a thread is inside execute() exactly while it is
\* at one of its steps, and only then has it relayed a cancellation; a
\* client has a target exactly while it downloads it.
RemoteTypeOK ==
    /\ step \in [Workers -> Steps]
    /\ sent \in SUBSET Workers
    /\ remote \in [Jobs -> Active \cup Ended \cup {"absent"}]
    /\ stopping \in SUBSET Jobs
    /\ starts \in [Jobs -> Nat]
    /\ lost \in Nat
    /\ stage \in [Clients -> Stages]
    /\ target \in [Clients -> Jobs \cup {None}]
    /\ peak \in Nat
    /\ wanted \in SUBSET Jobs
    /\ \A w \in Workers : step[w] # "none" <=> pc[w] = "executing"
    /\ \A w \in sent : job[w] # None
    /\ \A c \in Clients :
        target[c] # None <=> stage[c] = "downloading"

\* The hosted worker never works on a request nobody waits for: as long as
\* no call failed and the process did not die, a thread polls every request
\* that is not over, through cancellations, failures, failed saves and
\* retries under the same request id.
NoOrphanedWork ==
    (lost = 0 /\ crashes = 0) =>
        \A j \in Jobs :
            remote[j] \in Active
                => \E w \in Workers : pc[w] = "executing" /\ job[w] = j

\* The hosted worker runs a request at most once for each time a thread
\* executed its job, whatever is lost, retried or restarted: no GPU time is
\* spent twice for one attempt.
OneRunPerAttempt == \A j \in Jobs : starts[j] <= runs[j]

\* A job ends as cancelled only if a client asked for it, in this attempt
\* or in an earlier one whose request the worker still reports.
CancelledWasWanted ==
    \A j \in Jobs : mem[j].state = "cancelled" => j \in wanted

\* What a client downloads and imports is the result of a job that is
\* completed for good: no retry, cancellation or restart reopens it while
\* the download goes on, and the hosted worker has not begun it again.
DownloadIsCompleted ==
    faults = 0 =>
        \A c \in Clients :
            stage[c] = "downloading"
                => /\ disk[target[c]].state = "completed"
                   /\ remote[target[c]] \in {"completed", "absent"}

\* The quota is checked and the job submitted without a lock over both: the
\* jobs queued for the first time exceed the limit only by requests that
\* had been let through at the same time.  A save that failed may bring back
\* more of them when the files are read again.
AdmissionBound ==
    (faults = 0 /\ MaxQueued > 0 /\ peak > 0) =>
        Cardinality({j \in QueuedJobs : mem[j].retries = 0}) <= MaxQueued + peak - 1

=============================================================================
