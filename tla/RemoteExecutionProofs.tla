------------------------ MODULE RemoteExecutionProofs ------------------------
(***************************************************************************)
(* Proofs about RemoteExecution, for any number of jobs, threads and       *)
(* clients and any number of failed calls, restarts and failed saves: the  *)
(* shape of the state, that the hosted worker runs a request at most once  *)
(* for each attempt, how far the queue quota may be exceeded, that no work *)
(* is orphaned, what a client downloads, and that nothing is cancelled but *)
(* by a client.                                                            *)
(***************************************************************************)
EXTENDS RemoteExecution, JobLifecycleProofs

-----------------------------------------------------------------------------
(* Type correctness.  All but two steps of the remote execution are, for   *)
(* the queue, steps of JobQueue; the two end an execution as it never does *)
(* there: a completed answer that is not checked for a cancellation once   *)
(* more, and a cancellation the worker reports.                            *)

Odd(w) ==
    \/ pc[w] = "executing" /\ MoveTo(w, "published")
         /\ UNCHANGED <<process, store, cancels, runs, faults>>
    \/ pc[w] = "executing" /\ Record(w, Cancelled(mem[job[w]]))
         /\ UNCHANGED <<process, queue, cancels, runs>>

\* The steps of the queue but a submission.
Quiet ==
    \/ UNCHANGED vars
    \/ Lifecycle
    \/ \E j \in Jobs : CancelQueued(j) \/ CancelRunning(j) \/ Retry(j)
    \/ \E w \in Workers : Worker(w) \/ Odd(w)

LEMMA QueueSteps ==
    ASSUME [RemoteNext]_allVars
    PROVE  Quiet \/ \E j \in Jobs, c \in Clients : Submit(j) /\ SubmitChecked(c)
<1>1. CASE UNCHANGED allVars
    BY <1>1 DEF allVars, Quiet
<1>2. CASE RemoteLifecycle
    BY <1>2 DEF RemoteLifecycle, Exit, Quiet, Lifecycle
<1>3. ASSUME NEW w \in Workers, RemoteThread(w)
      PROVE  Quiet
    <2>1. CASE EnterExecute(w)
        BY <2>1 DEF EnterExecute, Quiet, Worker
    <2>2. CASE SubmitRequest(w) \/ RelayCancel(w) \/ StatusLost(w)
        BY <2>2 DEF SubmitRequest, RelayCancel, StatusLost, Quiet
    <2>3. CASE PollStatus(w)
        <3>1. CASE OnProgress(w)
            BY <3>1 DEF OnProgress, Quiet, Worker
        <3>2. CASE MoveTo(w, "published") /\ UNCHANGED <<process, store, cancels, runs, faults>>
            BY <2>3, <3>2 DEF PollStatus, Odd, Quiet
        <3>3. CASE UNCHANGED vars
            BY <3>3 DEF Quiet
        <3> QED BY <2>3, <3>1, <3>2, <3>3 DEF PollStatus
    <2>4. CASE Raise(w)
        <3>1. CASE step[w] = "cancelled"
            <4>1. /\ pc[w] = "executing" /\ Record(w, Cancelled(mem[job[w]]))
                  /\ UNCHANGED <<process, queue, cancels, runs>>
                BY <2>4, <3>1 DEF Raise
            <4> QED BY <4>1 DEF Odd, Quiet
        <3>2. CASE step[w] \in {"retryable", "fatal"}
            <4>1. step[w] \in Errors \ {"none"}
                BY <3>2 DEF Errors
            <4>2. /\ pc[w] \in {"executing", "publishing"}
                  /\ Record(w, AfterFailure(mem[job[w]], step[w]))
                  /\ IF AutoRetried(mem[job[w]], step[w]) /\ pc'[w] = "cleanup"
                     THEN Enqueue(job[w]) ELSE UNCHANGED queue
                  /\ UNCHANGED <<process, cancels, runs>>
                BY <2>4, <3>2 DEF Raise
            <4>3. ExecuteFails(w)
                BY <4>1, <4>2 DEF ExecuteFails
            <4> QED BY <4>3 DEF Quiet, Worker
        <3> QED BY <2>4, <3>1, <3>2 DEF Raise
    <2>5. CASE Cleanup(w) \/ Claim(w) \/ SkipStale(w) \/ LeaveLoop(w)
                 \/ ExecuteReturns(w) \/ FailJob(w)
        BY <2>5 DEF Quiet, Worker
    <2> QED BY <1>3, <2>1, <2>2, <2>3, <2>4, <2>5 DEF RemoteThread
<1>4. ASSUME NEW j \in Jobs, RemoteBegins(j) \/ RemoteEnds(j) \/ RemoteForgets(j)
      PROVE  Quiet
    BY <1>4 DEF RemoteBegins, RemoteEnds, RemoteForgets, RemoteMoves, Quiet
<1>5. ASSUME NEW j \in Jobs, CancelJob(j) \/ Retry(j)
      PROVE  Quiet
    BY <1>5 DEF CancelJob, Quiet
<1>6. ASSUME NEW c \in Clients,
             CheckQueue(c) \/ SubmitChecked(c) \/ BeginDownload(c) \/ EndDownload(c)
      PROVE  Quiet \/ \E j \in Jobs : Submit(j) /\ SubmitChecked(c)
    <2>1. CASE CheckQueue(c) \/ BeginDownload(c) \/ EndDownload(c)
        BY <2>1 DEF CheckQueue, BeginDownload, EndDownload, Quiet
    <2>2. CASE SubmitChecked(c)
        BY <2>2 DEF SubmitChecked, Quiet
    <2> QED BY <1>6, <2>1, <2>2
<1> QED BY <1>1, <1>2, <1>3, <1>4, <1>5, <1>6 DEF RemoteNext

LEMMA OddTypes ==
    ASSUME TypeOK, NEW w \in Workers, Odd(w)
    PROVE  TypeOK'
<1> USE JobQueueAssumption DEF Alive
<1>1. pc[w] \in Pcs \ {"idle", "exited"} /\ job[w] \in Jobs
    BY DEF TypeOK, Odd, Pcs, Working
<1>2. CASE MoveTo(w, "published") /\ UNCHANGED <<process, store, cancels, runs, faults>>
    BY <1>1, <1>2 DEF TypeOK, MoveTo, process, store, cancels, Pcs, Working
<1>3. CASE Record(w, Cancelled(mem[job[w]])) /\ UNCHANGED <<process, queue, cancels, runs>>
    <2>1. Cancelled(mem[job[w]]) \in Records
        <3>1. mem[job[w]] \in JobRecords /\ "none" \in Errors
            BY <1>1 DEF TypeOK, JobRecords, Errors
        <3> QED BY <3>1, RecordTypes
    <2>2. /\ UNCHANGED <<process, queue, cancels, runs>>
          /\ mem' \in [Jobs -> JobRecords] /\ disk' \in [Jobs -> JobRecords]
          /\ faults' \in Nat /\ pc' \in [Workers -> Pcs]
          /\ job' \in [Workers -> Jobs \cup {None}]
          /\ watch' \in [Workers -> Nat]
          /\ \A v \in Workers : job'[v] = None <=> pc'[v] \in {"idle", "exited"}
        BY <1>1, <1>3, <2>1, RecordStepTypes
    <2>3. Alive
        BY <1>1 DEF TypeOK
    <2> QED BY <2>2, <2>3 DEF TypeOK, process, cancels, JobRecords
<1> QED BY <1>2, <1>3 DEF Odd

LEMMA QueueTypes ==
    ASSUME TypeOK, [RemoteNext]_allVars
    PROVE  TypeOK'
<1>1. [Next]_vars \/ \E w \in Workers : Odd(w)
    BY QueueSteps DEF Quiet, Next, Client
<1> QED BY <1>1, OddTypes, TypeStep

\* A thread is inside execute() exactly while it is at a step of it, and has
\* relayed a cancellation only while it holds a job.
StepsFit ==
    /\ \A w \in Workers : step[w] # "none" <=> pc[w] = "executing"
    /\ \A w \in sent : job[w] # None

\* The rest of RemoteTypeOK.
RemoteShape ==
    /\ step \in [Workers -> Steps]
    /\ sent \in SUBSET Workers
    /\ remote \in [Jobs -> Active \cup Ended \cup {"absent"}]
    /\ stopping \in SUBSET Jobs
    /\ starts \in [Jobs -> Nat]
    /\ lost \in Nat
    /\ stage \in [Clients -> Stages]
    /\ target \in [Clients -> Jobs \cup {None}]
    /\ peak \in Nat
    /\ wanted \in SUBSET Jobs
    /\ \A c \in Clients : target[c] # None <=> stage[c] = "downloading"

LEMMA RemoteTypeParts == RemoteTypeOK <=> RemoteShape /\ StepsFit
BY DEF RemoteTypeOK, RemoteShape, StepsFit

LEMMA ThreadShape ==
    ASSUME TypeOK, RemoteShape, StepsFit, NEW w \in Workers, RemoteThread(w)
    PROVE  RemoteShape'
<1>1. job \in [Workers -> Jobs \cup {None}] /\ None \notin Jobs
      /\ \A v \in Workers : job[v] = None <=> pc[v] \in {"idle", "exited"}
    BY JobQueueAssumption DEF TypeOK
<1>2. ASSUME pc[w] = "executing" \/ pc[w] = "claimed" PROVE job[w] \in Jobs
    BY <1>1, <1>2
<1>3. CASE EnterExecute(w)
    BY <1>3 DEF EnterExecute, GoTo, hosted, editor, RemoteShape, Steps
<1>4. CASE SubmitRequest(w)
    BY <1>2, <1>4 DEF SubmitRequest, CallFails, Accept, Known, GoTo, editor, RemoteShape, Steps, Active
<1>5. CASE RelayCancel(w)
    BY <1>2, <1>5 DEF RelayCancel, CallFails, GoTo, editor, RemoteShape, Steps
<1>6. CASE PollStatus(w)
    BY <1>6 DEF PollStatus, GoTo, hosted, editor, RemoteShape, Steps
<1>7. CASE StatusLost(w)
    BY <1>7 DEF StatusLost, CallFails, GoTo, hosted, editor, RemoteShape, Steps
<1>8. CASE Raise(w)
    BY <1>8 DEF Raise, GoTo, hosted, editor, RemoteShape, Steps
<1>9. CASE sent' = sent \ {w} /\ UNCHANGED <<step, hosted, lost, editor, wanted>>
    BY <1>9 DEF hosted, editor, RemoteShape
<1>10. CASE UNCHANGED remoteVars
    BY <1>10 DEF remoteVars, executor, hosted, editor, RemoteShape
<1> QED BY <1>3, <1>4, <1>5, <1>6, <1>7, <1>8, <1>9, <1>10 DEF RemoteThread

\* A thread that does not enter or leave execute() and keeps its job.
LEMMA FitFrame ==
    ASSUME StepsFit, UNCHANGED <<step, sent>>,
           \A w \in Workers : pc'[w] = "executing" <=> pc[w] = "executing",
           \A w \in sent : job[w] # None => job'[w] # None
    PROVE  StepsFit'
BY DEF StepsFit

LEMMA ThreadFit ==
    ASSUME TypeOK, RemoteShape, StepsFit, NEW w \in Workers, RemoteThread(w)
    PROVE  StepsFit'
<1>1. /\ job \in [Workers -> Jobs \cup {None}] /\ None \notin Jobs
      /\ pc \in [Workers -> Pcs] /\ step \in [Workers -> Steps]
      /\ sent \in SUBSET Workers /\ queue \in Seq(Jobs)
      /\ \A v \in Workers : job[v] = None <=> pc[v] \in {"idle", "exited"}
    BY JobQueueAssumption DEF TypeOK, RemoteShape
<1>2. CASE EnterExecute(w)
    BY <1>1, <1>2 DEF EnterExecute, BeginExecute, GoTo, StepsFit
<1>3. CASE SubmitRequest(w)
    BY <1>1, <1>3 DEF SubmitRequest, CallFails, GoTo, StepsFit, vars, thread
<1>4. CASE RelayCancel(w)
    BY <1>1, <1>4 DEF RelayCancel, CallFails, GoTo, StepsFit, vars, thread
<1>5. CASE PollStatus(w)
    <2>1. CASE OnProgress(w) /\ GoTo(w, "loop")
        BY <1>1, <1>5, <2>1 DEF PollStatus, OnProgress, SaveProgress, GoTo, StepsFit, vars, thread
    <2>2. CASE MoveTo(w, "published") /\ GoTo(w, "none")
        BY <1>1, <1>5, <2>2 DEF PollStatus, MoveTo, GoTo, StepsFit
    <2>3. CASE UNCHANGED vars /\ (GoTo(w, "cancelled") \/ GoTo(w, "retryable") \/ GoTo(w, "fatal"))
        BY <1>1, <1>5, <2>3 DEF PollStatus, GoTo, StepsFit, vars, thread
    <2> QED BY <1>5, <2>1, <2>2, <2>3 DEF PollStatus
<1>6. CASE StatusLost(w)
    BY <1>1, <1>6 DEF StatusLost, CallFails, GoTo, StepsFit, vars, thread
<1>7. CASE Raise(w)
    <2>1. /\ pc' = [pc EXCEPT ![w] = "cleanup"] \/ pc' = [pc EXCEPT ![w] = "raised"]
          /\ job' = job /\ step' = [step EXCEPT ![w] = "none"] /\ sent' = sent
        BY <1>7 DEF Raise, Record, MoveTo, GoTo
    <2> QED BY <1>1, <2>1 DEF StepsFit
<1>8. CASE Cleanup(w) /\ sent' = sent \ {w} /\ UNCHANGED step
    BY <1>1, <1>8 DEF Cleanup, StepsFit
<1>9. CASE /\ Claim(w) \/ SkipStale(w) \/ LeaveLoop(w) \/ ExecuteReturns(w) \/ FailJob(w)
           /\ UNCHANGED remoteVars
    <2>1. UNCHANGED <<step, sent>>
        BY <1>9 DEF remoteVars, executor
    <2>2. CASE Claim(w)
        <3>1. pc[w] = "idle"
            BY <2>2 DEF Claim
        <3>2. /\ pc' = [pc EXCEPT ![w] = "claimed"] \/ pc' = [pc EXCEPT ![w] = "exited"]
              /\ job' = job \/ \E j \in Jobs : job' = [job EXCEPT ![w] = j]
            BY <1>1, <2>2 DEF Claim
        <3>3. \A v \in Workers : pc'[v] = "executing" <=> pc[v] = "executing"
            BY <1>1, <3>1, <3>2
        <3>4. \A v \in sent : job[v] # None => job'[v] # None
            BY <1>1, <3>2
        <3> QED BY <2>1, <3>3, <3>4, FitFrame
    <2>3. CASE SkipStale(w)
        BY <2>1, <2>3, FitFrame DEF SkipStale, thread
    <2>4. CASE LeaveLoop(w)
        BY <1>1, <2>1, <2>4, FitFrame DEF LeaveLoop, MoveTo
    <2>5. CASE ExecuteReturns(w)
        <3>1. /\ pc[w] = "published" /\ job' = job
              /\ pc' = [pc EXCEPT ![w] = "cleanup"] \/ pc' = [pc EXCEPT ![w] = "raised"]
            BY <2>5 DEF ExecuteReturns, Record, MoveTo
        <3> QED BY <1>1, <2>1, <3>1, FitFrame
    <2>6. CASE FailJob(w)
        <3>1. pc[w] = "raised" /\ job' = job /\ pc' = [pc EXCEPT ![w] = "cleanup"]
            BY <2>6 DEF FailJob, MoveTo
        <3> QED BY <1>1, <2>1, <3>1, FitFrame
    <2> QED BY <1>9, <2>2, <2>3, <2>4, <2>5, <2>6
<1> QED BY <1>2, <1>3, <1>4, <1>5, <1>6, <1>7, <1>8, <1>9 DEF RemoteThread

LEMMA RemoteTypeStep ==
    ASSUME TypeOK, RemoteTypeOK, [RemoteNext]_allVars
    PROVE  TypeOK' /\ RemoteTypeOK'
<1>1. TypeOK' /\ RemoteShape /\ StepsFit
    BY QueueTypes, RemoteTypeParts
<1>2. /\ None \notin Jobs /\ pc \in [Workers -> Pcs]
      /\ \A w \in Workers : job[w] = None <=> pc[w] \in {"idle", "exited"}
      /\ Alive \/ \A w \in Workers : pc[w] = "exited"
    BY JobQueueAssumption DEF TypeOK
<1>3. SUFFICES RemoteShape' /\ StepsFit'
    BY <1>1 DEF RemoteTypeOK, RemoteShape, StepsFit
<1>4. CASE UNCHANGED allVars
    BY <1>1, <1>4 DEF allVars, vars, thread, remoteVars, executor, hosted, editor,
                      RemoteShape, StepsFit
<1>5. CASE Exit
    <2>1. RemoteShape'
        BY <1>1, <1>5 DEF Exit, hosted, RemoteShape, Steps, Stages
    <2>2. StepsFit'
        BY <1>5 DEF Exit, ProcessExit, StepsFit
    <2> QED BY <2>1, <2>2
<1>6. CASE /\ Start \/ FinishStart \/ Stop \/ \E j \in Jobs : Recover(j)
           /\ UNCHANGED remoteVars
    <2>1. RemoteShape'
        BY <1>1, <1>6 DEF remoteVars, executor, hosted, editor, RemoteShape
    <2>2. UNCHANGED <<step, sent, job>>
        BY <1>6 DEF remoteVars, executor, Start, FinishStart, Stop, Recover, thread
    <2>3. \A w \in Workers : pc'[w] = "executing" <=> pc[w] = "executing"
        <3>1. CASE FinishStart
            BY <1>2, <3>1 DEF FinishStart, Alive
        <3>2. CASE Start \/ Stop \/ \E j \in Jobs : Recover(j)
            BY <3>2 DEF Start, Stop, Recover, thread
        <3> QED BY <1>6, <3>1, <3>2
    <2>4. StepsFit'
        BY <1>1, <2>2, <2>3, FitFrame
    <2> QED BY <2>1, <2>4
<1>7. ASSUME NEW w \in Workers, RemoteThread(w) PROVE RemoteShape' /\ StepsFit'
    BY <1>1, <1>7, ThreadShape, ThreadFit
<1>8. ASSUME NEW j \in Jobs, RemoteBegins(j) \/ RemoteEnds(j) \/ RemoteForgets(j)
      PROVE  RemoteShape' /\ StepsFit'
    <2>1. RemoteShape'
        BY <1>1, <1>8 DEF RemoteBegins, RemoteEnds, RemoteForgets, RemoteMoves, executor,
                          editor, RemoteShape, Active, Ended
    <2>2. UNCHANGED <<step, sent, pc, job>>
        BY <1>8 DEF RemoteBegins, RemoteEnds, RemoteForgets, RemoteMoves, vars, thread,
                    executor
    <2> QED BY <1>1, <2>1, <2>2, FitFrame
<1>9. ASSUME NEW j \in Jobs, CancelJob(j) \/ (Retry(j) /\ UNCHANGED remoteVars)
      PROVE  RemoteShape' /\ StepsFit'
    <2>1. RemoteShape'
        BY <1>1, <1>9 DEF CancelJob, remoteVars, executor, hosted, editor, RemoteShape
    <2>2. UNCHANGED <<step, sent, pc, job>>
        BY <1>9 DEF CancelJob, CancelQueued, CancelRunning, Retry, thread, remoteVars,
                    executor
    <2> QED BY <1>1, <2>1, <2>2, FitFrame
<1>10. ASSUME NEW c \in Clients,
              CheckQueue(c) \/ SubmitChecked(c) \/ BeginDownload(c) \/ EndDownload(c)
       PROVE  RemoteShape' /\ StepsFit'
    <2>1. UNCHANGED <<step, sent, remote, stopping, starts, lost, wanted, pc, job>>
        BY <1>10 DEF CheckQueue, SubmitChecked, BeginDownload, EndDownload, Submit, vars,
                     thread, executor, hosted
    <2>2. peak' \in Nat
        <3>1. CASE CheckQueue(c)
            <4>1. Cardinality(Checked') \in Nat
                <5>1. IsFiniteSet(Clients) /\ Checked' \in SUBSET Clients
                    BY RemoteAssumption DEF Checked
                <5> QED BY <5>1, FS_Subset, FS_CardinalityType
            <4> QED BY <1>1, <3>1, <4>1 DEF CheckQueue, RemoteShape
        <3>2. CASE SubmitChecked(c) \/ BeginDownload(c) \/ EndDownload(c)
            BY <1>1, <3>2 DEF SubmitChecked, BeginDownload, EndDownload, RemoteShape
        <3> QED BY <1>10, <3>1, <3>2
    <2>3. /\ stage' \in [Clients -> Stages] /\ target' \in [Clients -> Jobs \cup {None}]
          /\ \A d \in Clients : target'[d] # None <=> stage'[d] = "downloading"
        <3>1. CASE CheckQueue(c) \/ SubmitChecked(c)
            BY <1>1, <3>1 DEF CheckQueue, SubmitChecked, RemoteShape, Stages
        <3>2. CASE BeginDownload(c)
            BY <1>1, <1>2, <3>2 DEF BeginDownload, RemoteShape, Stages
        <3>3. CASE EndDownload(c)
            BY <1>1, <3>3 DEF EndDownload, RemoteShape, Stages
        <3> QED BY <1>10, <3>1, <3>2, <3>3
    <2>4. RemoteShape'
        BY <1>1, <2>1, <2>2, <2>3 DEF RemoteShape
    <2> QED BY <1>1, <2>1, <2>4, FitFrame
<1> QED BY <1>4, <1>5, <1>6, <1>7, <1>8, <1>9, <1>10 DEF RemoteNext, RemoteLifecycle

\* The shape of the state in every reachable state: a thread that left
\* execute() by any way, a lost call included, has left its steps behind, and
\* no client holds a job it is not downloading.
THEOREM RemoteTypeCorrect == RemoteSpec => [](TypeOK /\ RemoteTypeOK)
<1>1. RemoteInit => TypeOK /\ RemoteTypeOK
    <2> SUFFICES ASSUME RemoteInit PROVE TypeOK /\ RemoteTypeOK
        OBVIOUS
    <2>1. TypeOK
        BY JobQueueAssumption DEF RemoteInit, Init, TypeOK, Phases, Pcs, NoRecord, JobRecords
    <2>2. RemoteTypeOK
        BY DEF RemoteInit, Init, RemoteTypeOK, Steps, Stages
    <2> QED BY <2>1, <2>2
<1> QED BY <1>1, RemoteTypeStep, PTL DEF RemoteSpec

-----------------------------------------------------------------------------
(* One run per attempt.  A claim pays for one run of the hosted worker; the *)
(* thread carries that run until it submits the request, the request until  *)
(* the worker begins it.  Nothing else gives one.                           *)

Pending(j) == {w \in Workers : job[w] = j /\ (pc[w] = "claimed" \/ step[w] = "submit")}

Paid(j) == IF remote[j] = "accepted" THEN 1 ELSE 0

RunsPaid ==
    \A j \in Jobs :
        IsFiniteSet(Pending(j)) /\ starts[j] + Paid(j) + Cardinality(Pending(j)) <= runs[j]

\* Steps after which no more runs are pending than before.
LEMMA RunsFrame ==
    ASSUME TypeOK, RemoteTypeOK, RunsPaid, UNCHANGED <<runs, starts>>,
           \A j \in Jobs : Pending(j)' \subseteq Pending(j),
           \A j \in Jobs : remote'[j] = "accepted" => remote[j] = "accepted"
    PROVE  RunsPaid'
<1> SUFFICES ASSUME NEW j \in Jobs
             PROVE  /\ IsFiniteSet(Pending(j)')
                    /\ starts'[j] + Paid(j)' + Cardinality(Pending(j)') <= runs'[j]
    BY DEF RunsPaid
<1>1. IsFiniteSet(Pending(j)) /\ starts[j] + Paid(j) + Cardinality(Pending(j)) <= runs[j]
    BY DEF RunsPaid
<1>2. IsFiniteSet(Pending(j)') /\ Cardinality(Pending(j)') <= Cardinality(Pending(j))
    BY <1>1, FS_Subset
<1>3. Cardinality(Pending(j)') \in Nat /\ Cardinality(Pending(j)) \in Nat
    BY <1>1, <1>2, FS_CardinalityType
<1>4. Paid(j) \in {0, 1} /\ Paid(j)' \in {0, 1} /\ Paid(j)' <= Paid(j)
    BY DEF Paid
<1>5. starts[j] \in Nat /\ runs[j] \in Nat /\ starts'[j] = starts[j] /\ runs'[j] = runs[j]
    BY DEF TypeOK, RemoteTypeOK
<1> QED BY <1>1, <1>2, <1>3, <1>4, <1>5

\* Threads that do not come to "claimed" or to "submit" give no run.
LEMMA PendingFrame ==
    ASSUME \A w \in Workers :
              job'[w] # None /\ (pc'[w] = "claimed" \/ step'[w] = "submit") =>
                  /\ job'[w] = job[w]
                  /\ pc[w] = "claimed" \/ step[w] = "submit",
           NEW j \in Jobs
    PROVE  Pending(j)' \subseteq Pending(j)
<1>1. None \notin Jobs
    BY JobQueueAssumption
<1> QED BY <1>1 DEF Pending

\* The claim gives a run and a thread that carries it.
LEMMA ClaimPays ==
    ASSUME TypeOK, RemoteTypeOK, RunsPaid, NEW w \in Workers, Claim(w), UNCHANGED remoteVars
    PROVE  RunsPaid'
<1>1. /\ job \in [Workers -> Jobs \cup {None}] /\ pc \in [Workers -> Pcs]
      /\ runs \in [Jobs -> Nat] /\ starts \in [Jobs -> Nat] /\ queue \in Seq(Jobs)
    BY DEF TypeOK, RemoteTypeOK
<1>2. UNCHANGED <<step, remote, starts>> /\ pc[w] = "idle" /\ step[w] = "none"
    BY DEF remoteVars, executor, hosted, Claim, RemoteTypeOK
<1>3. CASE UNCHANGED <<job, events, runs>> /\ pc' = [pc EXCEPT ![w] = "exited"]
    <2>1. \A j \in Jobs : Pending(j)' \subseteq Pending(j)
        BY <1>1, <1>2, <1>3 DEF Pending
    <2> QED BY <1>2, <1>3, <2>1, RunsFrame
<1>4. ASSUME NEW k \in Jobs, pc' = [pc EXCEPT ![w] = "claimed"],
             job' = [job EXCEPT ![w] = k], runs' = [runs EXCEPT ![k] = @ + 1]
      PROVE  RunsPaid'
    <2> SUFFICES ASSUME NEW j \in Jobs
                 PROVE  /\ IsFiniteSet(Pending(j)')
                        /\ starts'[j] + Paid(j)' + Cardinality(Pending(j)') <= runs'[j]
        BY DEF RunsPaid
    <2>1. IsFiniteSet(Pending(j)) /\ starts[j] + Paid(j) + Cardinality(Pending(j)) <= runs[j]
        BY DEF RunsPaid
    <2>2. Cardinality(Pending(j)) \in Nat /\ Paid(j) \in {0, 1} /\ Paid(j)' = Paid(j)
        BY <1>2, <2>1, FS_CardinalityType DEF Paid
    <2>3. CASE j = k
        <3>1. Pending(j)' \subseteq Pending(j) \cup {w}
            BY <1>1, <1>2, <1>4 DEF Pending
        <3>2. /\ IsFiniteSet(Pending(j) \cup {w})
              /\ Cardinality(Pending(j) \cup {w}) <= Cardinality(Pending(j)) + 1
              /\ Cardinality(Pending(j) \cup {w}) \in Nat
            BY <2>1, <2>2, FS_AddElement
        <3>3. /\ IsFiniteSet(Pending(j)') /\ Cardinality(Pending(j)') \in Nat
              /\ Cardinality(Pending(j)') <= Cardinality(Pending(j) \cup {w})
            BY <3>1, <3>2, FS_Subset, FS_CardinalityType
        <3>4. runs'[j] = runs[j] + 1 /\ starts'[j] = starts[j] /\ runs[j] \in Nat
              /\ starts[j] \in Nat
            BY <1>1, <1>2, <1>4, <2>3
        <3> QED BY <2>1, <2>2, <3>2, <3>3, <3>4
    <2>4. CASE j # k
        <3>1. Pending(j)' = Pending(j)
            BY <1>1, <1>2, <1>4, <2>4 DEF Pending
        <3>2. runs'[j] = runs[j] /\ starts'[j] = starts[j]
            BY <1>1, <1>2, <1>4, <2>4
        <3> QED BY <2>1, <2>2, <3>1, <3>2
    <2> QED BY <2>3, <2>4
<1>5. PICK n \in 1..Len(queue) :
        \/ /\ pc' = [pc EXCEPT ![w] = "claimed"]
           /\ job' = [job EXCEPT ![w] = queue[n]]
           /\ runs' = [runs EXCEPT ![queue[n]] = @ + 1]
        \/ UNCHANGED <<job, events, runs>> /\ pc' = [pc EXCEPT ![w] = "exited"]
    BY DEF Claim
<1>6. queue[n] \in Jobs
    BY <1>1
<1> QED BY <1>3, <1>4, <1>5, <1>6

\* A submission hands the run of the thread to the request, whether or not
\* the call came back.
LEMMA SubmitPays ==
    ASSUME TypeOK, RemoteTypeOK, RunsPaid, NEW w \in Workers, SubmitRequest(w)
    PROVE  RunsPaid'
<1> DEFINE k == job[w]
<1>1. /\ job \in [Workers -> Jobs \cup {None}] /\ None \notin Jobs
      /\ step \in [Workers -> Steps] /\ runs \in [Jobs -> Nat]
      /\ starts \in [Jobs -> Nat]
      /\ remote \in [Jobs -> Active \cup Ended \cup {"absent"}]
    BY JobQueueAssumption DEF TypeOK, RemoteTypeOK
<1>2. pc[w] = "executing" /\ step[w] = "submit" /\ k \in Jobs
    BY <1>1 DEF SubmitRequest, TypeOK
<1>3. UNCHANGED <<job, pc, runs, starts>>
    BY DEF SubmitRequest, vars, thread
<1>4. step' \in {[step EXCEPT ![w] = s] : s \in {"loop", "retryable", "fatal"}}
    BY DEF SubmitRequest, CallFails, GoTo
<1>5. remote' = remote \/ remote' = [remote EXCEPT ![k] = "accepted"]
    BY DEF SubmitRequest, Accept
<1> SUFFICES ASSUME NEW j \in Jobs
             PROVE  /\ IsFiniteSet(Pending(j)')
                    /\ starts'[j] + Paid(j)' + Cardinality(Pending(j)') <= runs'[j]
    BY DEF RunsPaid
<1>6. IsFiniteSet(Pending(j)) /\ starts[j] + Paid(j) + Cardinality(Pending(j)) <= runs[j]
    BY DEF RunsPaid
<1>7. /\ Cardinality(Pending(j)) \in Nat /\ Paid(j) \in {0, 1} /\ Paid(j)' \in {0, 1}
      /\ starts'[j] = starts[j] /\ runs'[j] = runs[j]
      /\ starts[j] \in Nat /\ runs[j] \in Nat
    BY <1>1, <1>3, <1>6, FS_CardinalityType DEF Paid
<1>8. Pending(j)' = Pending(j) \ {w}
    BY <1>1, <1>2, <1>3, <1>4 DEF Pending
<1>9. /\ IsFiniteSet(Pending(j) \ {w})
      /\ Cardinality(Pending(j) \ {w}) =
            IF w \in Pending(j) THEN Cardinality(Pending(j)) - 1 ELSE Cardinality(Pending(j))
    BY <1>6, FS_RemoveElement
<1>10. CASE j = k
    <2>1. w \in Pending(j)
        BY <1>2, <1>10 DEF Pending
    <2> QED BY <1>6, <1>7, <1>8, <1>9, <2>1
<1>11. CASE j # k
    <2>1. w \notin Pending(j)
        BY <1>11 DEF Pending
    <2>2. Paid(j)' = Paid(j)
        BY <1>1, <1>2, <1>5, <1>11 DEF Paid
    <2> QED BY <1>6, <1>7, <1>8, <1>9, <2>1, <2>2
<1> QED BY <1>10, <1>11

\* The hosted worker spends the run of the request when it begins it.
LEMMA BeginPays ==
    ASSUME TypeOK, RemoteTypeOK, RunsPaid, NEW k \in Jobs, RemoteBegins(k)
    PROVE  RunsPaid'
<1>1. /\ runs \in [Jobs -> Nat] /\ starts \in [Jobs -> Nat]
      /\ remote \in [Jobs -> Active \cup Ended \cup {"absent"}]
    BY DEF TypeOK, RemoteTypeOK
<1>2. /\ remote[k] = "accepted" /\ remote' = [remote EXCEPT ![k] = "working"]
      /\ starts' = [starts EXCEPT ![k] = @ + 1]
      /\ UNCHANGED <<job, pc, step, runs>>
    BY DEF RemoteBegins, RemoteMoves, vars, thread, executor
<1> SUFFICES ASSUME NEW j \in Jobs
             PROVE  /\ IsFiniteSet(Pending(j)')
                    /\ starts'[j] + Paid(j)' + Cardinality(Pending(j)') <= runs'[j]
    BY DEF RunsPaid
<1>3. IsFiniteSet(Pending(j)) /\ starts[j] + Paid(j) + Cardinality(Pending(j)) <= runs[j]
    BY DEF RunsPaid
<1>4. Cardinality(Pending(j)) \in Nat /\ Pending(j)' = Pending(j) /\ runs'[j] = runs[j]
    BY <1>2, <1>3, FS_CardinalityType DEF Pending
<1>5. CASE j = k
    <2>1. Paid(j) = 1 /\ Paid(j)' = 0 /\ starts'[j] = starts[j] + 1
        BY <1>1, <1>2, <1>5 DEF Paid
    <2> QED BY <1>1, <1>3, <1>4, <2>1
<1>6. CASE j # k
    <2>1. Paid(j)' = Paid(j) /\ starts'[j] = starts[j]
        BY <1>1, <1>2, <1>6 DEF Paid
    <2> QED BY <1>3, <1>4, <2>1
<1> QED BY <1>5, <1>6

LEMMA ThreadPays ==
    ASSUME TypeOK, RemoteTypeOK, RunsPaid, NEW w \in Workers, RemoteThread(w)
    PROVE  RunsPaid'
<1>1. /\ job \in [Workers -> Jobs \cup {None}] /\ pc \in [Workers -> Pcs]
      /\ step \in [Workers -> Steps]
      /\ \A v \in Workers : job[v] = None <=> pc[v] \in {"idle", "exited"}
    BY DEF TypeOK, RemoteTypeOK
<1>2. CASE EnterExecute(w)
    <2>1. /\ pc[w] = "claimed" /\ pc' = [pc EXCEPT ![w] = "executing"]
          /\ step' = [step EXCEPT ![w] = "submit"]
          /\ UNCHANGED <<job, runs, remote, starts>>
        BY <1>2 DEF EnterExecute, BeginExecute, GoTo, hosted
    <2> QED BY <1>1, <2>1, PendingFrame, RunsFrame
<1>3. CASE SubmitRequest(w)
    BY <1>3, SubmitPays
<1>4. CASE RelayCancel(w) \/ StatusLost(w)
    <2>1. /\ \E s \in Steps \ {"submit"} : step' = [step EXCEPT ![w] = s]
          /\ UNCHANGED <<job, pc, runs, remote, starts>>
        BY <1>4 DEF RelayCancel, StatusLost, CallFails, GoTo, Steps, hosted, vars, thread
    <2> QED BY <1>1, <2>1, PendingFrame, RunsFrame
<1>5. CASE PollStatus(w)
    <2>1. /\ \E s \in Steps \ {"submit"} : step' = [step EXCEPT ![w] = s]
          /\ UNCHANGED <<remote, starts>>
        BY <1>5 DEF PollStatus, GoTo, Steps, hosted
    <2>2. job' = job /\ runs' = runs /\ (pc' = pc \/ pc' = [pc EXCEPT ![w] = "published"])
        BY <1>5 DEF PollStatus, OnProgress, SaveProgress, MoveTo, vars, thread
    <2> QED BY <1>1, <2>1, <2>2, PendingFrame, RunsFrame
<1>6. CASE Raise(w)
    <2>1. /\ pc' = [pc EXCEPT ![w] = "cleanup"] \/ pc' = [pc EXCEPT ![w] = "raised"]
          /\ step' = [step EXCEPT ![w] = "none"]
          /\ UNCHANGED <<job, runs, remote, starts>>
        BY <1>6 DEF Raise, Record, MoveTo, GoTo, hosted
    <2> QED BY <1>1, <2>1, PendingFrame, RunsFrame
<1>7. CASE Cleanup(w) /\ UNCHANGED <<step, hosted, lost, editor, wanted>>
    <2>1. /\ pc' = [pc EXCEPT ![w] = "idle"] /\ job' = [job EXCEPT ![w] = None]
          /\ UNCHANGED <<step, runs, remote, starts>>
        BY <1>7 DEF Cleanup, hosted
    <2> QED BY <1>1, <2>1, PendingFrame, RunsFrame
<1>8. CASE Claim(w) /\ UNCHANGED remoteVars
    BY <1>8, ClaimPays
<1>9. CASE /\ SkipStale(w) \/ LeaveLoop(w) \/ ExecuteReturns(w) \/ FailJob(w)
           /\ UNCHANGED remoteVars
    <2>1. /\ \E p \in Pcs \ {"claimed"} : pc' = pc \/ pc' = [pc EXCEPT ![w] = p]
          /\ UNCHANGED <<job, step, runs, remote, starts>>
        BY <1>9 DEF SkipStale, LeaveLoop, ExecuteReturns, FailJob, Record, MoveTo, thread,
                    Pcs, Working, remoteVars, executor, hosted
    <2> QED BY <1>1, <2>1, PendingFrame, RunsFrame
<1> QED BY <1>2, <1>3, <1>4, <1>5, <1>6, <1>7, <1>8, <1>9 DEF RemoteThread

LEMMA RunsPaidStep ==
    ASSUME TypeOK, RemoteTypeOK, RunsPaid, [RemoteNext]_allVars
    PROVE  RunsPaid'
<1>1. /\ pc \in [Workers -> Pcs] /\ remote \in [Jobs -> Active \cup Ended \cup {"absent"}]
      /\ Alive \/ \A w \in Workers : pc[w] = "exited"
    BY DEF TypeOK, RemoteTypeOK
<1>2. ASSUME UNCHANGED <<job, pc, step, runs, starts, remote>> PROVE RunsPaid'
    BY <1>2, PendingFrame, RunsFrame
<1>3. CASE UNCHANGED allVars
    BY <1>2, <1>3 DEF allVars, vars, thread, remoteVars, executor, hosted
<1>4. CASE Exit
    <2>1. /\ \A w \in Workers : pc'[w] = "exited" /\ step'[w] = "none"
          /\ UNCHANGED <<runs, starts, remote>>
        BY <1>4 DEF Exit, ProcessExit, hosted
    <2> QED BY <2>1, PendingFrame, RunsFrame
<1>5. CASE FinishStart /\ UNCHANGED remoteVars
    <2>1. /\ \A w \in Workers : pc'[w] = "idle"
          /\ UNCHANGED <<job, step, runs, starts, remote>>
        BY <1>5 DEF FinishStart, remoteVars, executor, hosted
    <2> QED BY <2>1, PendingFrame, RunsFrame
<1>6. CASE /\ Start \/ Stop \/ \E j \in Jobs : Recover(j)
           /\ UNCHANGED remoteVars
    BY <1>2, <1>6 DEF Start, Stop, Recover, thread, remoteVars, executor, hosted
<1>7. ASSUME NEW w \in Workers, RemoteThread(w) PROVE RunsPaid'
    BY <1>7, ThreadPays
<1>8. ASSUME NEW j \in Jobs, RemoteBegins(j) PROVE RunsPaid'
    BY <1>8, BeginPays
<1>9. ASSUME NEW j \in Jobs, RemoteEnds(j) \/ RemoteForgets(j) PROVE RunsPaid'
    <2>1. /\ \E s \in Ended \cup {"absent"} : remote' = [remote EXCEPT ![j] = s]
          /\ UNCHANGED <<job, pc, step, runs, starts>>
        BY <1>9 DEF RemoteEnds, RemoteForgets, RemoteMoves, Ended, vars, thread, executor
    <2>2. \A k \in Jobs : remote'[k] = "accepted" => remote[k] = "accepted"
        BY <1>1, <2>1 DEF Ended
    <2> QED BY <2>1, <2>2, PendingFrame, RunsFrame
<1>10. ASSUME NEW j \in Jobs, CancelJob(j) \/ (Retry(j) /\ UNCHANGED remoteVars)
       PROVE  RunsPaid'
    BY <1>2, <1>10 DEF CancelJob, CancelQueued, CancelRunning, Retry, thread, remoteVars,
                       executor, hosted
<1>11. ASSUME NEW c \in Clients,
              CheckQueue(c) \/ SubmitChecked(c) \/ BeginDownload(c) \/ EndDownload(c)
       PROVE  RunsPaid'
    BY <1>2, <1>11 DEF CheckQueue, SubmitChecked, BeginDownload, EndDownload, Submit, vars,
                       thread, executor, hosted
<1> QED BY <1>3, <1>4, <1>5, <1>6, <1>7, <1>8, <1>9, <1>10, <1>11
        DEF RemoteNext, RemoteLifecycle

\* No GPU time is spent twice for one attempt, whatever calls are lost, jobs
\* retried and processes restarted, and however many threads execute one job
\* after a failed save.
THEOREM RunPerAttempt == RemoteSpec => []OneRunPerAttempt
<1>1. RemoteInit => RunsPaid
    <2> SUFFICES ASSUME RemoteInit, NEW j \in Jobs
                 PROVE  /\ IsFiniteSet(Pending(j))
                        /\ starts[j] + Paid(j) + Cardinality(Pending(j)) <= runs[j]
        BY DEF RunsPaid
    <2>1. Pending(j) = {} /\ Paid(j) = 0 /\ starts[j] = 0 /\ runs[j] = 0
        BY DEF RemoteInit, Init, Pending, Paid
    <2> QED BY <2>1, FS_EmptySet
<1>2. TypeOK /\ RemoteTypeOK /\ RunsPaid => OneRunPerAttempt
    <2> SUFFICES ASSUME TypeOK, RemoteTypeOK, RunsPaid, NEW j \in Jobs
                 PROVE  starts[j] <= runs[j]
        BY DEF OneRunPerAttempt
    <2>1. IsFiniteSet(Pending(j)) /\ starts[j] + Paid(j) + Cardinality(Pending(j)) <= runs[j]
        BY DEF RunsPaid
    <2>2. Cardinality(Pending(j)) \in Nat /\ Paid(j) \in {0, 1}
        BY <2>1, FS_CardinalityType DEF Paid
    <2>3. starts[j] \in Nat /\ runs[j] \in Nat
        BY DEF TypeOK, RemoteTypeOK
    <2> QED BY <2>1, <2>2, <2>3
<1> QED BY <1>1, <1>2, RunsPaidStep, RemoteTypeCorrect, PTL DEF RemoteSpec

-----------------------------------------------------------------------------
(* The quota.  The jobs queued for the first time and the requests that are *)
(* past the check share the room there is; only a submission adds to the    *)
(* first, and takes from the second.  They are counted on disk, where a     *)
(* restart finds them again.                                                *)

Admitted == {j \in Jobs : disk[j].state = "queued" /\ disk[j].retries = 0}

\* As long as no save failed memory and files agree, and a process that is down
\* has nothing in memory.
Synced ==
    /\ phase # "down" => mem = disk
    /\ phase = "down" => QueuedJobs = {}

Room ==
    IF peak = 0 THEN Admitted = {} /\ Checked = {}
    ELSE Cardinality(Admitted) + Cardinality(Checked) <= MaxQueued + peak - 1

QuotaInv == faults = 0 => Synced /\ (MaxQueued > 0 => Room)

LEMMA CountedSets ==
    ASSUME NEW S, S \subseteq Jobs \/ S \subseteq Clients
    PROVE  IsFiniteSet(S) /\ Cardinality(S) \in Nat
BY JobQueueAssumption, RemoteAssumption, FS_Subset, FS_CardinalityType

\* A record that is queued again has been retried, so no handler but submit
\* adds a job that is queued for the first time.
LEMMA SaveQuota ==
    ASSUME TypeOK, faults = 0, faults' = 0, NEW j \in Jobs, NEW r,
           Save(j, r) \/ SaveFails(j, r), r.state = "queued" => r.retries # 0
    PROVE  /\ Admitted' \subseteq Admitted
           /\ mem = disk => mem' = disk'
<1>1. mem' = [mem EXCEPT ![j] = r] /\ disk' = [disk EXCEPT ![j] = r]
    BY DEF Save, SaveFails
<1>2. disk \in [Jobs -> JobRecords]
    BY DEF TypeOK, JobRecords
<1>3. Admitted' \subseteq Admitted
    BY <1>1, <1>2 DEF Admitted
<1> QED BY <1>1, <1>3

\* What the handlers leave that is queued has been retried at least once.
LEMMA Requeues ==
    ASSUME NEW r \in JobRecords, NEW err \in Errors
    PROVE  /\ Requeued(r).retries # 0
           /\ Cancelled(r).state = "cancelled" /\ Cancelling(r).state = "cancelling"
           /\ Claimed(r).state = "running" /\ Failed(r, err).state = "failed"
           /\ AfterFailure(r, err).state = "queued" => AfterFailure(r, err).retries # 0
           /\ AfterSuccess(r).state # "queued"
           /\ AfterCrash(r).state = "queued" => AfterCrash(r).retries # 0
<1>1. r.retries \in Nat /\ DOMAIN r = {"state", "cancel", "retries", "error"}
    BY DEF JobRecords, Records, NoRecord
<1>2. Requeued(r).retries # 0
    BY <1>1 DEF Requeued
<1>3. /\ Cancelled(r).state = "cancelled" /\ Cancelling(r).state = "cancelling"
      /\ Claimed(r).state = "running" /\ Failed(r, err).state = "failed"
      /\ Completed(r).state = "completed" /\ Interrupted(r).state = "interrupted"
    BY <1>1 DEF Cancelled, Cancelling, Claimed, Failed, Completed, Interrupted
<1>4. AfterFailure(r, err).state = "queued" => AfterFailure(r, err).retries # 0
    BY <1>2, <1>3 DEF AfterFailure
<1>5. AfterSuccess(r).state # "queued"
    BY <1>3 DEF AfterSuccess
<1>6. AfterCrash(r).state = "queued" => AfterCrash(r).retries # 0
    BY <1>2, <1>3 DEF AfterCrash
<1> QED BY <1>2, <1>3, <1>4, <1>5, <1>6

\* A step that is not a submission admits nothing.
LEMMA QueueQuota ==
    ASSUME TypeOK, Synced, faults = 0, faults' = 0,
           Quiet
    PROVE  Synced' /\ Admitted' \subseteq Admitted
<1>1. /\ mem \in [Jobs -> JobRecords] /\ disk \in [Jobs -> JobRecords]
      /\ "retryable" \in Errors
      /\ \A w \in Workers : pc[w] \notin {"idle", "exited"} => job[w] \in Jobs
      /\ Alive \/ \A w \in Workers : pc[w] = "exited"
      /\ queue \in Seq(Jobs)
    BY DEF TypeOK, JobRecords, Errors
<1>2. ASSUME UNCHANGED <<disk, phase, mem>> PROVE Synced' /\ Admitted' \subseteq Admitted
    BY <1>2 DEF Synced, Admitted, QueuedJobs
<1>3. ASSUME NEW j \in Jobs, NEW r, Save(j, r) \/ SaveFails(j, r), phase # "down", phase' = phase,
             r.state = "queued" => r.retries # 0
      PROVE  Synced' /\ Admitted' \subseteq Admitted
    BY <1>3, SaveQuota DEF Synced
<1>4. CASE UNCHANGED vars
    BY <1>2, <1>4 DEF vars, process, store
<1>5. CASE Start \/ ProcessExit
    BY <1>5 DEF Start, ProcessExit, Synced, Admitted, QueuedJobs, NoRecord
<1>6. CASE FinishStart \/ Stop
    BY <1>6 DEF FinishStart, Stop, store, Synced, Admitted
<1>7. ASSUME NEW j \in Jobs, Recover(j) PROVE Synced' /\ Admitted' \subseteq Admitted
    <2>1. AfterCrash(mem[j]).state = "queued" => AfterCrash(mem[j]).retries # 0
        BY <1>1, Requeues
    <2>2. Save(j, AfterCrash(mem[j])) /\ phase # "down" /\ phase' = phase
        BY <1>7 DEF Recover, SaveFails
    <2> QED BY <1>3, <2>1, <2>2
<1>9. ASSUME NEW j \in Jobs, CancelQueued(j) \/ CancelRunning(j) \/ Retry(j)
      PROVE  Synced' /\ Admitted' \subseteq Admitted
    <2>1. phase # "down" /\ phase' = phase
        BY <1>9 DEF CancelQueued, CancelRunning, Retry, Alive, process
    <2>2. PICK r \in {Cancelled(mem[j]), Cancelling(mem[j]), Requeued(mem[j])} :
              Save(j, r) \/ SaveFails(j, r)
        BY <1>9 DEF CancelQueued, CancelRunning, Retry
    <2>3. r.state = "queued" => r.retries # 0
        BY <1>1, <2>2, Requeues
    <2> QED BY <1>3, <2>1, <2>2, <2>3
<1>10. ASSUME NEW w \in Workers, Claim(w) PROVE Synced' /\ Admitted' \subseteq Admitted
    <2>1. PICK n \in 1..Len(queue) :
              \/ Save(queue[n], Claimed(mem[queue[n]]))
              \/ SaveFails(queue[n], Claimed(mem[queue[n]]))
        BY <1>10 DEF Claim
    <2>2. queue[n] \in Jobs /\ phase # "down" /\ phase' = phase
        BY <1>1, <1>10 DEF Claim, process
    <2>3. Claimed(mem[queue[n]]).state = "running"
        BY <1>1, <2>2, Requeues
    <2> QED BY <1>3, <2>1, <2>2, <2>3
<1>11. ASSUME NEW w \in Workers, SaveProgress(w)
       PROVE  Synced' /\ Admitted' \subseteq Admitted
    <2>1. phase # "down" /\ job[w] \in Jobs
        BY <1>1, <1>11 DEF SaveProgress, Alive
    <2>2. disk' = [disk EXCEPT ![job[w]] = mem[job[w]]] /\ mem' = mem /\ mem = disk
          /\ phase' = phase
        BY <1>11, <2>1 DEF SaveProgress, process, Synced
    <2>3. disk' = disk
        BY <1>1, <2>1, <2>2
    <2> QED BY <1>2, <2>2, <2>3
<1>12. ASSUME NEW w \in Workers, NEW r, Record(w, r), pc[w] \notin {"idle", "exited"},
              phase' = phase, r.state = "queued" => r.retries # 0
       PROVE  Synced' /\ Admitted' \subseteq Admitted
    BY <1>1, <1>3, <1>12 DEF Record, Alive
<1>13. ASSUME NEW w \in Workers, ObserveCancel(w) \/ Odd(w)
       PROVE  Synced' /\ Admitted' \subseteq Admitted
    <2>1. pc[w] = "executing" /\ job[w] \in Jobs /\ phase' = phase
        BY <1>1, <1>13 DEF ObserveCancel, Odd, process
    <2>2. CASE Record(w, Cancelled(mem[job[w]]))
        BY <1>1, <1>12, <2>1, <2>2, Requeues
    <2>3. CASE UNCHANGED <<process, store>>
        BY <1>2, <2>3 DEF process, store
    <2> QED BY <1>13, <2>2, <2>3 DEF ObserveCancel, Odd
<1>14. ASSUME NEW w \in Workers, ExecuteFails(w)
       PROVE  Synced' /\ Admitted' \subseteq Admitted
    <2>1. pc[w] \notin {"idle", "exited"} /\ job[w] \in Jobs /\ phase' = phase
        BY <1>1, <1>14 DEF ExecuteFails, process
    <2>2. PICK err \in Errors : Record(w, AfterFailure(mem[job[w]], err))
        BY <1>14 DEF ExecuteFails
    <2> QED BY <1>1, <1>12, <2>1, <2>2, Requeues
<1>15. ASSUME NEW w \in Workers, ExecuteReturns(w)
       PROVE  Synced' /\ Admitted' \subseteq Admitted
    <2>1. pc[w] \notin {"idle", "exited"} /\ job[w] \in Jobs /\ phase' = phase
          /\ Record(w, AfterSuccess(mem[job[w]]))
        BY <1>1, <1>15 DEF ExecuteReturns, process
    <2>2. AfterSuccess(mem[job[w]]).state # "queued"
        BY <1>1, <2>1, Requeues
    <2> QED BY <1>12, <2>1, <2>2
<1>16. ASSUME NEW w \in Workers, FailJob(w) PROVE Synced' /\ Admitted' \subseteq Admitted
    <2>1. pc[w] = "raised" /\ job[w] \in Jobs /\ phase # "down" /\ phase' = phase
        BY <1>1, <1>16 DEF FailJob, Alive, process
    <2>2. Failed(mem[job[w]], "retryable").state = "failed"
        BY <1>1, <2>1, Requeues
    <2>3. CASE UNCHANGED <<mem, disk>>
        BY <1>2, <2>1, <2>3
    <2> QED BY <1>3, <1>16, <2>1, <2>2, <2>3 DEF FailJob
<1>17. ASSUME NEW w \in Workers, SkipStale(w) \/ LeaveLoop(w) \/ BeginExecute(w)
              \/ PassLastCheck(w) \/ PublishOutputs(w) \/ Cleanup(w)
       PROVE  Synced' /\ Admitted' \subseteq Admitted
    BY <1>2, <1>17 DEF SkipStale, LeaveLoop, BeginExecute, PassLastCheck, PublishOutputs,
                       Cleanup, process, store
<1> QED BY <1>4, <1>5, <1>6, <1>7, <1>9, <1>10, <1>11, <1>13, <1>14, <1>15, <1>16, <1>17
        DEF Quiet, Lifecycle, Worker

LEMMA SubmitQuota ==
    ASSUME TypeOK, Synced, NEW j \in Jobs, Submit(j)
    PROVE  Synced' /\ Admitted' \subseteq Admitted \cup {j}
<1>1. disk \in [Jobs -> JobRecords]
    BY DEF TypeOK, JobRecords
<1>2. phase # "down" /\ phase' = phase /\ Save(j, NewRecord)
    BY DEF Submit, process
<1>3. mem' = disk'
    BY <1>2 DEF Save, Synced
<1>4. Admitted' \subseteq Admitted \cup {j}
    BY <1>1, <1>2 DEF Save, Admitted
<1> QED BY <1>2, <1>3, <1>4 DEF Synced

\* Fewer admitted jobs or fewer requests past the check leave room.
LEMMA RoomFrame ==
    ASSUME RemoteTypeOK, RemoteTypeOK', Room, peak' = peak,
           Admitted' \subseteq Admitted, Checked' \subseteq Checked
    PROVE  Room'
<1>1. Admitted \subseteq Jobs /\ Checked \subseteq Clients
    BY DEF Admitted, Checked
<1>2. /\ Cardinality(Admitted) \in Nat /\ Cardinality(Checked) \in Nat
      /\ IsFiniteSet(Admitted) /\ IsFiniteSet(Checked)
    BY <1>1, CountedSets
<1>3. Cardinality(Admitted') <= Cardinality(Admitted) /\ Cardinality(Admitted') \in Nat
    BY <1>2, FS_Subset, FS_CardinalityType
<1>4. Cardinality(Checked') <= Cardinality(Checked) /\ Cardinality(Checked') \in Nat
    BY <1>2, FS_Subset, FS_CardinalityType
<1>5. peak \in Nat /\ MaxQueued \in Nat
    BY RemoteAssumption DEF RemoteTypeOK
<1> QED BY <1>2, <1>3, <1>4, <1>5 DEF Room

\* Nothing is forgotten about a failed save.
LEMMA RemoteFaults ==
    ASSUME TypeOK, [RemoteNext]_allVars, faults' = 0
    PROVE  faults = 0
<1>1. faults \in Nat
    BY DEF TypeOK
<1>2. faults' = faults \/ faults' = faults + 1
    <2>1. CASE \E w \in Workers : Odd(w)
        BY <2>1 DEF Odd, Record, Save, SaveFails
    <2>2. CASE UNCHANGED vars
        BY <2>2 DEF vars
    <2>3. CASE Lifecycle
        BY <2>3 DEF Lifecycle, Start, Recover, FinishStart, Stop, ProcessExit, Save, SaveFails
    <2>4. CASE \E j \in Jobs : Submit(j) \/ CancelQueued(j) \/ CancelRunning(j) \/ Retry(j)
        BY <2>4 DEF Submit, CancelQueued, CancelRunning, Retry, Save, SaveFails
    <2>5. CASE \E w \in Workers : Worker(w)
        BY <2>5 DEF Worker, Claim, SkipStale, LeaveLoop, BeginExecute, SaveProgress,
                    PassLastCheck, PublishOutputs, ObserveCancel, ExecuteFails,
                    ExecuteReturns, FailJob, Cleanup, Record, Save, SaveFails
    <2> QED BY QueueSteps, <2>1, <2>2, <2>3, <2>4, <2>5 DEF Quiet
<1> QED BY <1>1, <1>2

LEMMA QuotaStep ==
    ASSUME TypeOK, RemoteTypeOK, QuotaInv, [RemoteNext]_allVars
    PROVE  QuotaInv'
<1>1. /\ TypeOK' /\ RemoteTypeOK'
      /\ Quiet \/ \E j \in Jobs, c \in Clients : Submit(j) /\ SubmitChecked(c)
    BY RemoteTypeStep, QueueSteps
<1> SUFFICES ASSUME faults' = 0
             PROVE  Synced' /\ (MaxQueued > 0 => Room')
    BY DEF QuotaInv
<1>2. faults = 0
    BY RemoteFaults
<1>3. Synced /\ (MaxQueued > 0 => Room)
    BY <1>2 DEF QuotaInv
<1>4. Synced'
    BY <1>1, <1>2, <1>3, QueueQuota, SubmitQuota
<1> SUFFICES ASSUME MaxQueued > 0 PROVE Room'
    BY <1>4
<1>5. Room /\ stage \in [Clients -> Stages] /\ peak \in Nat /\ MaxQueued \in Nat
    BY <1>3, RemoteAssumption DEF RemoteTypeOK
<1>6. CASE UNCHANGED peak /\ Checked' \subseteq Checked /\ Quiet
    BY <1>1, <1>2, <1>3, <1>5, <1>6, QueueQuota, RoomFrame
<1>7. ASSUME NEW c \in Clients, CheckQueue(c) PROVE Room'
    <2>1. /\ Admitted' = Admitted /\ mem = disk /\ stage[c] = "idle" /\ HasRoom
          /\ stage' = [stage EXCEPT ![c] = "checked"]
          /\ peak' = IF Cardinality(Checked') > peak THEN Cardinality(Checked') ELSE peak
        BY <1>3, <1>7 DEF CheckQueue, Alive, Synced, vars, store, Admitted
    <2>2. Checked' = Checked \cup {c} /\ c \notin Checked
        BY <1>5, <2>1 DEF Checked
    <2>3. Admitted \subseteq QueuedJobs /\ QueuedJobs \subseteq Jobs /\ Checked \subseteq Clients
        BY <2>1 DEF Admitted, QueuedJobs, Checked
    <2>4. /\ Cardinality(Admitted) <= Cardinality(QueuedJobs)
          /\ Cardinality(QueuedJobs) + 1 <= MaxQueued
          /\ Cardinality(Admitted) \in Nat /\ Cardinality(QueuedJobs) \in Nat
        BY <1>5, <2>1, <2>3, CountedSets, FS_Subset DEF HasRoom
    <2>5. Cardinality(Checked') = Cardinality(Checked) + 1 /\ Cardinality(Checked) \in Nat
        BY <2>2, <2>3, CountedSets, FS_AddElement
    <2>6. peak' >= Cardinality(Checked') /\ peak' \in Nat /\ peak' # 0
        BY <1>5, <2>1, <2>5
    <2> QED BY <1>5, <2>1, <2>4, <2>5, <2>6 DEF Room
<1>8. ASSUME NEW c \in Clients, SubmitChecked(c) PROVE Room'
    <2>1. /\ stage[c] = "checked" /\ stage' = [stage EXCEPT ![c] = "idle"] /\ peak' = peak
        BY <1>8 DEF SubmitChecked
    <2>2. c \in Checked /\ Checked' = Checked \ {c} /\ Checked \subseteq Clients
        BY <1>5, <2>1 DEF Checked, Stages
    <2>3. PICK j \in Jobs \cup {None} : Admitted' \subseteq Admitted \cup {j}
        <3>1. Admitted' \subseteq Admitted \/ \E i \in Jobs : Admitted' \subseteq Admitted \cup {i}
            BY <1>1, <1>2, <1>3, QueueQuota, SubmitQuota
        <3> QED BY <3>1
    <2>4. Admitted \subseteq Jobs
        BY DEF Admitted
    <2>5. /\ IsFiniteSet(Admitted) /\ Cardinality(Admitted) \in Nat
          /\ IsFiniteSet(Checked) /\ Cardinality(Checked) \in Nat
        BY <2>2, <2>4, CountedSets
    <2>6. Cardinality(Admitted') <= Cardinality(Admitted) + 1 /\ Cardinality(Admitted') \in Nat
        <3>1. /\ IsFiniteSet(Admitted \cup {j})
              /\ Cardinality(Admitted \cup {j}) <= Cardinality(Admitted) + 1
              /\ Cardinality(Admitted \cup {j}) \in Nat
            <4>1. /\ IsFiniteSet(Admitted \cup {j})
                  /\ Cardinality(Admitted \cup {j}) =
                        IF j \in Admitted THEN Cardinality(Admitted)
                                         ELSE Cardinality(Admitted) + 1
                BY <2>5, FS_AddElement
            <4> QED BY <2>5, <4>1
        <3> QED BY <2>3, <2>5, <3>1, FS_Subset, FS_CardinalityType
    <2>7. Cardinality(Checked') = Cardinality(Checked) - 1
        BY <2>2, <2>5, FS_RemoveElement
    <2>8. peak # 0
        BY <1>5, <2>2 DEF Room
    <2> QED BY <1>5, <2>1, <2>5, <2>6, <2>7, <2>8 DEF Room
<1>9. ASSUME Quiet, UNCHANGED <<peak, stage>> PROVE Room'
    BY <1>6, <1>9 DEF Checked
<1>10. CASE UNCHANGED allVars
    BY <1>9, <1>10 DEF allVars, remoteVars, editor, Quiet
<1>11. CASE Exit
    <2>1. Quiet /\ peak' = peak
        BY <1>11 DEF Exit, Quiet, Lifecycle
    <2>2. Checked' \subseteq Checked
        BY <1>5, <1>11 DEF Exit, Checked
    <2> QED BY <1>6, <2>1, <2>2
<1>12. CASE /\ Start \/ FinishStart \/ Stop \/ \E j \in Jobs : Recover(j)
            /\ UNCHANGED remoteVars
    BY <1>9, <1>12 DEF Quiet, Lifecycle, remoteVars, editor
<1>13. ASSUME NEW w \in Workers, RemoteThread(w) PROVE Room'
    <2>1. UNCHANGED <<peak, stage>>
        BY <1>13 DEF RemoteThread, EnterExecute, SubmitRequest, RelayCancel, PollStatus,
                     StatusLost, Raise, remoteVars, editor
    <2>2. CASE Quiet
        BY <1>9, <2>1, <2>2
    <2>3. CASE \E c \in Clients : SubmitChecked(c)
        BY <1>8, <2>3
    <2> QED BY <1>1, <2>2, <2>3
<1>14. ASSUME NEW j \in Jobs, RemoteBegins(j) \/ RemoteEnds(j) \/ RemoteForgets(j)
       PROVE  Room'
    BY <1>9, <1>14 DEF RemoteBegins, RemoteEnds, RemoteForgets, RemoteMoves, editor, Quiet
<1>15. ASSUME NEW j \in Jobs, CancelJob(j) \/ (Retry(j) /\ UNCHANGED remoteVars)
       PROVE  Room'
    BY <1>9, <1>15 DEF CancelJob, remoteVars, editor, Quiet
<1>16. ASSUME NEW c \in Clients, BeginDownload(c) \/ EndDownload(c) PROVE Room'
    <2>1. Quiet /\ peak' = peak
        BY <1>16 DEF BeginDownload, EndDownload, Quiet
    <2>2. Checked' \subseteq Checked
        BY <1>5, <1>16 DEF BeginDownload, EndDownload, Checked
    <2> QED BY <1>6, <2>1, <2>2
<1> QED BY <1>7, <1>8, <1>10, <1>11, <1>12, <1>13, <1>14, <1>15, <1>16
        DEF RemoteNext, RemoteLifecycle

\* The queue quota is exceeded only by the requests that raced past it, for any
\* number of clients and jobs, through restarts: a retry, a requeue and a
\* recovery never put back a job as if it were new.
THEOREM QuotaBound == RemoteSpec => []AdmissionBound
<1>1. RemoteInit => QuotaInv
    BY DEF RemoteInit, Init, QuotaInv, Synced, QueuedJobs, Room, Admitted, Checked, NoRecord
<1>2. TypeOK /\ RemoteTypeOK /\ QuotaInv => AdmissionBound
    <2> SUFFICES ASSUME TypeOK, RemoteTypeOK, QuotaInv, faults = 0, MaxQueued > 0, peak > 0
                 PROVE  Cardinality({j \in QueuedJobs : mem[j].retries = 0})
                            <= MaxQueued + peak - 1
        BY DEF AdmissionBound
    <2> DEFINE queued == {j \in QueuedJobs : mem[j].retries = 0}
    <2>1. Synced /\ Room /\ peak \in Nat /\ MaxQueued \in Nat
        BY RemoteAssumption DEF QuotaInv, RemoteTypeOK
    <2>2. queued \subseteq Admitted
        <3>1. CASE phase = "down"
            BY <2>1, <3>1 DEF Synced
        <3>2. CASE phase # "down"
            BY <2>1, <3>2 DEF Synced, QueuedJobs, Admitted
        <3> QED BY <3>1, <3>2
    <2>3. Admitted \subseteq Jobs /\ Checked \subseteq Clients
        BY DEF Admitted, Checked
    <2>4. /\ IsFiniteSet(Admitted) /\ Cardinality(Admitted) \in Nat
          /\ Cardinality(Checked) \in Nat
        BY <2>3, CountedSets
    <2>5. Cardinality(queued) <= Cardinality(Admitted) /\ Cardinality(queued) \in Nat
        BY <2>2, <2>4, FS_Subset, FS_CardinalityType
    <2>6. Cardinality(Admitted) + Cardinality(Checked) <= MaxQueued + peak - 1
        BY <2>1 DEF Room
    <2> HIDE DEF queued
    <2>7. Cardinality(queued) <= MaxQueued + peak - 1
        BY <2>1, <2>4, <2>5, <2>6
    <2> QED BY <2>7 DEF queued
<1> QED BY <1>1, <1>2, QuotaStep, RemoteTypeCorrect, PTL DEF RemoteSpec

-----------------------------------------------------------------------------
(* No orphaned work.  A request is taken on by the submission of a thread  *)
(* that then polls it, and only an answer that it is over lets the thread  *)
(* go; a call that fails, a restart and a process death are what breaks    *)
(* the pair.                                                               *)

Polls(w, j) == pc[w] = "executing" /\ job[w] = j /\ step[w] \in {"loop", "status"}

Polled == \A j \in Jobs : remote[j] \in Active => \E w \in Workers : Polls(w, j)

PolledInv == (lost = 0 /\ crashes = 0) => Polled

\* A step that takes on no request and whose threads keep polling what is
\* still active.
LEMMA PolledFrame ==
    ASSUME Polled,
           \A j \in Jobs : remote'[j] \in Active => remote[j] \in Active,
           \A j \in Jobs, w \in Workers :
              (Polls(w, j) /\ remote'[j] \in Active) => Polls(w, j)'
    PROVE  Polled'
BY DEF Polled

LEMMA ThreadPolls ==
    ASSUME TypeOK, RemoteTypeOK, Polled, lost = 0, lost' = 0, NEW w \in Workers,
           RemoteThread(w)
    PROVE  Polled'
<1>1. /\ pc \in [Workers -> Pcs] /\ step \in [Workers -> Steps]
      /\ job \in [Workers -> Jobs \cup {None}] /\ None \notin Jobs
      /\ remote \in [Jobs -> Active \cup Ended \cup {"absent"}]
      /\ \A v \in Workers : job[v] = None <=> pc[v] \in {"idle", "exited"}
    BY JobQueueAssumption DEF TypeOK, RemoteTypeOK
<1>2. ~CallFails(w)
    BY DEF CallFails
<1>3. ASSUME remote' = remote,
             \A v \in Workers :
                v # w => pc'[v] = pc[v] /\ job'[v] = job[v] /\ step'[v] = step[v],
             \A j \in Jobs : Polls(w, j) /\ remote[j] \in Active => Polls(w, j)'
      PROVE  Polled'
    <2>1. \A j \in Jobs, v \in Workers :
             (Polls(v, j) /\ remote'[j] \in Active) => Polls(v, j)'
        BY <1>3 DEF Polls
    <2> QED BY <1>3, <2>1, PolledFrame
<1>4. CASE EnterExecute(w)
    <2>1. /\ pc[w] = "claimed" /\ pc' = [pc EXCEPT ![w] = "executing"]
          /\ step' = [step EXCEPT ![w] = "submit"] /\ job' = job /\ remote' = remote
        BY <1>4 DEF EnterExecute, BeginExecute, GoTo, hosted
    <2> QED BY <1>1, <1>3, <2>1 DEF Polls
<1>5. CASE SubmitRequest(w)
    <2>1. /\ pc[w] = "executing" /\ step[w] = "submit" /\ pc' = pc /\ job' = job
          /\ step' = [step EXCEPT ![w] = "loop"]
          /\ remote' = remote \/ remote' = [remote EXCEPT ![job[w]] = "accepted"]
        BY <1>2, <1>5 DEF SubmitRequest, Accept, GoTo, vars, thread
    <2>2. \A v \in Workers, j \in Jobs : Polls(v, j) => Polls(v, j)'
        BY <1>1, <2>1 DEF Polls
    <2>3. job[w] \in Jobs /\ Polls(w, job[w])'
        BY <1>1, <2>1 DEF Polls
    <2>4. \A j \in Jobs : j # job[w] => remote'[j] = remote[j]
        BY <1>1, <2>1
    <2>5. ASSUME NEW j \in Jobs, remote'[j] \in Active
          PROVE  \E v \in Workers : Polls(v, j)'
        <3>1. CASE j = job[w]
            BY <2>1, <2>3, <3>1 DEF Polls
        <3>2. CASE j # job[w]
            BY <2>2, <2>4, <2>5, <3>2 DEF Polled
        <3> QED BY <3>1, <3>2
    <2> QED BY <2>5 DEF Polled
<1>6. CASE RelayCancel(w)
    <2>1. /\ pc[w] = "executing" /\ step[w] = "loop" /\ pc' = pc /\ job' = job
          /\ step' = [step EXCEPT ![w] = "status"] /\ remote' = remote
        BY <1>2, <1>6 DEF RelayCancel, GoTo, vars, thread
    <2> QED BY <1>1, <1>3, <2>1 DEF Polls
<1>7. CASE PollStatus(w)
    <2>1. CASE remote[job[w]] \in Active
        <3>1. /\ step[w] = "status" /\ remote' = remote /\ pc' = pc /\ job' = job
              /\ step' = [step EXCEPT ![w] = "loop"]
            BY <1>7, <2>1 DEF PollStatus, OnProgress, SaveProgress, GoTo, Active, Known,
                              hosted, vars, thread
        <3> QED BY <1>1, <1>3, <3>1 DEF Polls
    <2>2. CASE remote[job[w]] \notin Active
        <3>1. /\ remote' = remote /\ job' = job
              /\ \E p \in Pcs : pc' = pc \/ pc' = [pc EXCEPT ![w] = p]
              /\ \E s \in Steps : step' = [step EXCEPT ![w] = s]
            BY <1>7, <2>2 DEF PollStatus, MoveTo, GoTo, hosted, vars, thread, Steps, Pcs,
                              Working
        <3> QED BY <1>1, <1>3, <2>2, <3>1 DEF Polls
    <2> QED BY <2>1, <2>2
<1>8. CASE StatusLost(w)
    BY <1>2, <1>8 DEF StatusLost
<1>9. CASE Raise(w)
    <2>1. /\ step[w] \in {"cancelled", "retryable", "fatal"}
          /\ \E p \in Pcs : pc' = [pc EXCEPT ![w] = p]
          /\ step' = [step EXCEPT ![w] = "none"] /\ job' = job /\ remote' = remote
        BY <1>9 DEF Raise, Record, MoveTo, GoTo, hosted, Pcs
    <2> QED BY <1>1, <1>3, <2>1 DEF Polls
<1>10. CASE Cleanup(w) /\ UNCHANGED <<step, hosted, lost, editor, wanted>>
    <2>1. /\ pc[w] = "cleanup" /\ pc' = [pc EXCEPT ![w] = "idle"]
          /\ job' = [job EXCEPT ![w] = None] /\ step' = step /\ remote' = remote
        BY <1>10 DEF Cleanup, hosted
    <2> QED BY <1>1, <1>3, <2>1 DEF Polls
<1>11. CASE /\ Claim(w) \/ SkipStale(w) \/ LeaveLoop(w) \/ ExecuteReturns(w)
               \/ FailJob(w)
            /\ UNCHANGED remoteVars
    <2>1. /\ pc[w] # "executing" /\ step' = step /\ remote' = remote
          /\ \E p \in Pcs : pc' = pc \/ pc' = [pc EXCEPT ![w] = p]
          /\ \E j : job' = job \/ job' = [job EXCEPT ![w] = j]
        BY <1>11 DEF Claim, SkipStale, LeaveLoop, ExecuteReturns, FailJob, Record,
                     MoveTo, thread, Pcs, Working, remoteVars, executor, hosted
    <2> QED BY <1>1, <1>3, <2>1 DEF Polls
<1> QED BY <1>4, <1>5, <1>6, <1>7, <1>8, <1>9, <1>10, <1>11 DEF RemoteThread

\* Neither failed calls nor process deaths are forgotten.
LEMMA TroubleOnlyGrows ==
    ASSUME TypeOK, RemoteTypeOK, [RemoteNext]_allVars, lost' = 0, crashes' = 0
    PROVE  lost = 0 /\ crashes = 0
<1>1. lost \in Nat /\ crashes \in Nat
    BY DEF TypeOK, RemoteTypeOK
<1>2. lost' = lost \/ lost' = lost + 1
    BY DEF RemoteNext, allVars, remoteVars, RemoteLifecycle, Exit, RemoteThread,
           EnterExecute, SubmitRequest, RelayCancel, PollStatus, StatusLost, Raise,
           CallFails, RemoteBegins, RemoteEnds, RemoteForgets, RemoteMoves, CancelJob,
           CheckQueue, SubmitChecked, BeginDownload, EndDownload
<1>3. crashes' = crashes \/ crashes' = crashes + 1
    <2>1. ASSUME Quiet PROVE crashes' = crashes \/ crashes' = crashes + 1
        BY <2>1
           DEF Quiet, vars, process, Lifecycle, Start, Recover, FinishStart, Stop,
               ProcessExit, CancelQueued, CancelRunning, Retry, Worker, Claim,
               SkipStale, LeaveLoop, BeginExecute, SaveProgress, PassLastCheck,
               PublishOutputs, ObserveCancel, ExecuteFails, ExecuteReturns, FailJob,
               Cleanup, Odd
    <2>2. ASSUME NEW j \in Jobs, Submit(j) PROVE crashes' = crashes
        BY <2>2 DEF Submit, process
    <2> QED BY <2>1, <2>2, QueueSteps
<1> QED BY <1>1, <1>2, <1>3

LEMMA PolledStep ==
    ASSUME TypeOK, RemoteTypeOK, PolledInv, [RemoteNext]_allVars
    PROVE  PolledInv'
<1> SUFFICES ASSUME lost' = 0, crashes' = 0 PROVE Polled'
    BY DEF PolledInv
<1>1. lost = 0 /\ crashes = 0 /\ Polled
    BY TroubleOnlyGrows DEF PolledInv
<1>2. ASSUME UNCHANGED <<pc, job, step>>,
             \A j \in Jobs : remote'[j] \in Active => remote[j] \in Active
      PROVE  Polled'
    BY <1>1, <1>2, PolledFrame DEF Polls
<1>3. CASE UNCHANGED allVars
    BY <1>2, <1>3 DEF allVars, vars, thread, remoteVars, executor, hosted
<1>4. CASE Exit
    BY <1>1, <1>4 DEF Exit, ProcessExit
<1>5. CASE FinishStart /\ UNCHANGED remoteVars
    <2>1. \A w \in Workers : pc[w] = "exited"
        BY <1>5 DEF FinishStart, TypeOK, Alive
    <2>2. \A j \in Jobs : remote'[j] = remote[j] /\ remote[j] \notin Active
        BY <1>1, <1>5, <2>1 DEF Polled, Polls, remoteVars, hosted
    <2> QED BY <2>2 DEF Polled
<1>6. CASE /\ Start \/ Stop \/ \E j \in Jobs : Recover(j)
           /\ UNCHANGED remoteVars
    BY <1>2, <1>6 DEF Start, Stop, Recover, thread, remoteVars, executor, hosted
<1>7. ASSUME NEW w \in Workers, RemoteThread(w) PROVE Polled'
    BY <1>1, <1>7, ThreadPolls
<1>8. ASSUME NEW j \in Jobs, RemoteBegins(j) \/ RemoteEnds(j) PROVE Polled'
    <2>1. /\ remote[j] \in Active /\ UNCHANGED <<pc, job, step>>
          /\ \E s : remote' = [remote EXCEPT ![j] = s]
        BY <1>8 DEF RemoteBegins, RemoteEnds, RemoteMoves, Active, vars, thread, executor
    <2>2. \A k \in Jobs : remote'[k] \in Active => remote[k] \in Active
        BY <2>1 DEF RemoteTypeOK
    <2> QED BY <1>2, <2>1, <2>2
<1>9. ASSUME NEW j \in Jobs, RemoteForgets(j) PROVE Polled'
    BY <1>1, <1>9 DEF RemoteForgets
<1>10. ASSUME NEW j \in Jobs, CancelJob(j) \/ (Retry(j) /\ UNCHANGED remoteVars)
       PROVE  Polled'
    BY <1>2, <1>10 DEF CancelJob, CancelQueued, CancelRunning, Retry, thread, remoteVars,
                       executor, hosted
<1>11. ASSUME NEW c \in Clients,
              CheckQueue(c) \/ SubmitChecked(c) \/ BeginDownload(c) \/ EndDownload(c)
       PROVE  Polled'
    BY <1>2, <1>11 DEF CheckQueue, SubmitChecked, BeginDownload, EndDownload, Submit, vars,
                       thread, executor, hosted
<1> QED BY <1>3, <1>4, <1>5, <1>6, <1>7, <1>8, <1>9, <1>10, <1>11
        DEF RemoteNext, RemoteLifecycle

\* The hosted worker never works on a request no thread polls, until a call
\* to it fails or the process dies: cancellations, failures, retries and
\* failed saves leave no work behind.
THEOREM NothingIsOrphaned == RemoteSpec => []NoOrphanedWork
<1>1. RemoteInit => PolledInv
    BY DEF RemoteInit, PolledInv, Polled, Active
<1>2. PolledInv => NoOrphanedWork
    BY DEF PolledInv, Polled, Polls, NoOrphanedWork
<1> QED BY <1>1, <1>2, PolledStep, RemoteTypeCorrect, PTL DEF RemoteSpec

-----------------------------------------------------------------------------
(* Ownership holds for the remote execution too: the two steps it adds end *)
(* an execution as the others do.                                          *)

LEMMA RemoteOwnStep ==
    ASSUME TypeOK, OwnInv, [RemoteNext]_allVars
    PROVE  OwnInv'
<1>1. CASE [Next]_vars
    BY <1>1, OwnStep
<1>2. ASSUME NEW w \in Workers, Odd(w) PROVE OwnInv'
    <2> SUFFICES ASSUME faults' = 0 PROVE Ownership'
        BY DEF OwnInv
    <2>1. faults \in Nat /\ pc[w] = "executing" /\ pc[w] \in Working /\ UNCHANGED process
          /\ job[w] \in Jobs
        BY <1>2, JobQueueAssumption DEF TypeOK, Odd, Working
    <2>2. CASE MoveTo(w, "published") /\ UNCHANGED <<process, store, cancels, runs, faults>>
        <3>1. Ownership
            BY <2>2 DEF OwnInv
        <3>2. /\ UNCHANGED <<mem, disk, queue, phase, job>>
              /\ \A v \in Workers : pc'[v] = IF v = w THEN "published" ELSE pc[v]
            BY <2>2 DEF MoveTo, store, process, TypeOK
        <3>3. /\ \A v \in Workers : pc'[v] # "raised"
              /\ \A v \in Workers : pc'[v] \in Working <=> pc[v] \in Working
            BY <2>1, <3>1, <3>2 DEF Ownership, Working
        <3> QED BY <3>1, <3>2, <3>3, OwnFrame DEF Alive
    <2>3. CASE Record(w, Cancelled(mem[job[w]])) /\ UNCHANGED <<process, queue, cancels, runs>>
        <3>1. /\ faults = 0 /\ Save(job[w], Cancelled(mem[job[w]]))
              /\ MoveTo(w, "cleanup") /\ UNCHANGED queue
            BY <2>1, <2>3 DEF Record, Save, SaveFails
        <3>2. Ownership
            BY <3>1 DEF OwnInv
        <3>3. Cancelled(mem[job[w]]).state = "cancelled"
            <4>1. mem[job[w]] \in JobRecords /\ "none" \in Errors
                BY <2>1 DEF TypeOK, JobRecords, Errors
            <4> QED BY <4>1, Requeues
        <3> QED BY <2>1, <3>1, <3>2, <3>3, OwnOutcome DEF InProgress
    <2> QED BY <1>2, <2>2, <2>3 DEF Odd
<1> QED BY <1>1, <1>2, QueueSteps DEF Quiet, Next, Client

LEMMA RemoteOwnAlways == RemoteSpec => [](TypeOK /\ RemoteTypeOK /\ OwnInv)
<1>1. RemoteInit => OwnInv
    BY DEF RemoteInit, Init, OwnInv, Ownership, Alive, Working
<1> QED BY <1>1, RemoteTypeCorrect, RemoteOwnStep, PTL DEF RemoteSpec

\* What the queue promises of its threads until a save fails it promises with
\* the remote executor as well: one thread to a job, none in progress without
\* a thread, each queued job once in the FIFO.
THEOREM RemoteKeepsOwnership ==
    RemoteSpec => [](ExclusiveExecution /\ InProgressIsOwned /\ QueueIsExact)
<1>1. OwnInv => ExclusiveExecution /\ QueueIsExact
    BY DEF OwnInv, Ownership, ExclusiveExecution, QueueIsExact
<1>2. OwnInv => InProgressIsOwned
    BY DEF OwnInv, Ownership, InProgressIsOwned, Works
<1> QED BY <1>1, <1>2, RemoteOwnAlways, PTL

-----------------------------------------------------------------------------
(* Downloads, while every save has succeeded.  A completed file stays      *)
(* completed, because a thread only records the outcome of a job that is   *)
(* still in progress; and its request is never taken on again, because no  *)
(* thread executes the job.                                                *)

Over(j) == remote[j] \in {"completed", "absent"}

Finished ==
    /\ \A j \in Jobs : disk[j].state = "completed" => Over(j)
    /\ \A w \in Workers : pc[w] = "published" => Over(job[w])
    /\ \A c \in Clients :
         stage[c] = "downloading" => disk[target[c]].state = "completed"

FinishedInv == faults = 0 => Finished

\* A file that is completed is not written, and only the thread that
\* published the outputs of a job writes that it is.
LEMMA DiskMoves ==
    ASSUME TypeOK, Ownership, [RemoteNext]_allVars, faults' = 0, faults = 0,
           NEW j \in Jobs
    PROVE  \/ disk'[j] = disk[j]
           \/ /\ disk[j].state # "completed"
              /\ disk'[j].state = "completed"
                    => \E w \in Workers : pc[w] = "published" /\ job[w] = j
<1> DEFINE Fine == \/ disk'[j] = disk[j]
                   \/ /\ disk[j].state # "completed"
                      /\ disk'[j].state = "completed"
                            => \E w \in Workers : pc[w] = "published" /\ job[w] = j
<1>1. /\ mem \in [Jobs -> JobRecords] /\ disk \in [Jobs -> JobRecords]
      /\ "retryable" \in Errors /\ queue \in Seq(Jobs)
      /\ \A w \in Workers : pc[w] \in Working => job[w] \in Jobs /\ Alive
    BY JobQueueAssumption DEF TypeOK, JobRecords, Errors, Working
<1>2. \A k, r : ~SaveFails(k, r)
    BY DEF SaveFails
<1>3. phase # "down" => mem = disk
    BY DEF Ownership
<1>4. ASSUME UNCHANGED disk PROVE Fine
    BY <1>4
<1>5. ASSUME NEW k \in Jobs, NEW r, Save(k, r), phase # "down",
             mem[k].state # "completed", r.state # "completed"
      PROVE  Fine
    BY <1>1, <1>3, <1>5 DEF Save
<1>6. ASSUME NEW k \in Jobs, Submit(k) PROVE Fine
    BY <1>5, <1>6 DEF Submit, NewRecord, NoRecord
<1>7. \A r \in JobRecords :
        /\ Cancelled(r).state = "cancelled" /\ Cancelling(r).state = "cancelling"
        /\ Claimed(r).state = "running" /\ Requeued(r).state = "queued"
        /\ Interrupted(r).state = "interrupted"
        /\ \A err : Failed(r, err).state = "failed"
    BY DEF JobRecords, Records, NoRecord, Cancelled, Cancelling, Claimed, Requeued,
           Interrupted, Failed
<1>8. ASSUME \/ UNCHANGED vars \/ Start \/ FinishStart \/ Stop \/ ProcessExit
             \/ \E w \in Workers :
                \/ SkipStale(w) \/ LeaveLoop(w) \/ BeginExecute(w) \/ PassLastCheck(w)
                \/ PublishOutputs(w) \/ Cleanup(w)
      PROVE  Fine
    BY <1>4, <1>8 DEF vars, store, Start, FinishStart, Stop, ProcessExit, SkipStale,
                      LeaveLoop, BeginExecute, PassLastCheck, PublishOutputs, Cleanup
<1>9. ASSUME NEW k \in Jobs, Recover(k) PROVE Fine
    <2>1. Save(k, AfterCrash(mem[k])) /\ phase # "down" /\ mem[k].state # "completed"
        BY <1>2, <1>9 DEF Recover, InProgress
    <2>2. AfterCrash(mem[k]).state # "completed"
        BY <1>1, <1>7 DEF AfterCrash
    <2> QED BY <1>5, <2>1, <2>2
<1>10. ASSUME NEW k \in Jobs, CancelQueued(k) \/ CancelRunning(k) \/ Retry(k)
       PROVE  Fine
    <2>1. PICK r \in {Cancelled(mem[k]), Cancelling(mem[k]), Requeued(mem[k])} :
              Save(k, r)
        BY <1>2, <1>10 DEF CancelQueued, CancelRunning, Retry
    <2>2. phase # "down" /\ mem[k].state # "completed"
        BY <1>10 DEF CancelQueued, CancelRunning, Retry, CanRetry, Retryable, Alive
    <2> QED BY <1>1, <1>5, <1>7, <2>1, <2>2
<1>11. ASSUME NEW w \in Workers, Claim(w) PROVE Fine
    <2>1. PICK n \in 1..Len(queue) : /\ Save(queue[n], Claimed(mem[queue[n]]))
                                     /\ mem[queue[n]].state = "queued"
        BY <1>2, <1>11 DEF Claim, FirstQueued
    <2>2. queue[n] \in Jobs /\ phase # "down"
        BY <1>1, <1>11 DEF Claim
    <2> QED BY <1>1, <1>5, <1>7, <2>1, <2>2
<1>12. ASSUME NEW w \in Workers, SaveProgress(w) PROVE Fine
    <2>1. phase # "down"
        BY <1>1, <1>12 DEF SaveProgress, Working, Alive
    <2> QED BY <1>1, <1>3, <1>4, <1>12, <2>1 DEF SaveProgress
<1>13. ASSUME NEW w \in Workers, NEW r, pc[w] \in Working, Save(job[w], r),
              r.state # "completed"
       PROVE  Fine
    <2>1. job[w] \in Jobs /\ phase # "down" /\ mem[job[w]].state # "completed"
        BY <1>1, <1>13 DEF Ownership, InProgress, Alive
    <2> QED BY <1>5, <1>13, <2>1
<1>14. ASSUME NEW w \in Workers, ObserveCancel(w) \/ Odd(w) PROVE Fine
    <2>1. pc[w] \in Working
        BY <1>14 DEF ObserveCancel, Odd, Working
    <2>2. CASE Record(w, Cancelled(mem[job[w]]))
        BY <1>1, <1>2, <1>7, <1>13, <2>1, <2>2 DEF Record
    <2>3. CASE UNCHANGED store
        BY <1>4, <2>3 DEF store
    <2> QED BY <1>14, <2>2, <2>3 DEF ObserveCancel, Odd
<1>15. ASSUME NEW w \in Workers, ExecuteFails(w) PROVE Fine
    <2>1. pc[w] \in Working
        BY <1>15 DEF ExecuteFails, Working
    <2>2. PICK err : Save(job[w], AfterFailure(mem[job[w]], err))
        BY <1>2, <1>15 DEF ExecuteFails, Record
    <2>3. AfterFailure(mem[job[w]], err).state # "completed"
        BY <1>1, <1>7, <2>1 DEF AfterFailure
    <2> QED BY <1>13, <2>1, <2>2, <2>3
<1>16. ASSUME NEW w \in Workers, ExecuteReturns(w) PROVE Fine
    <2>1. /\ pc[w] = "published" /\ pc[w] \in Working
          /\ Save(job[w], AfterSuccess(mem[job[w]]))
        BY <1>2, <1>16 DEF ExecuteReturns, Record, Working
    <2>2. /\ job[w] \in Jobs /\ phase # "down" /\ mem[job[w]].state # "completed"
        BY <1>1, <2>1 DEF Ownership, InProgress, Alive
    <2> QED BY <1>1, <1>3, <2>1, <2>2 DEF Save
<1>17. ASSUME NEW w \in Workers, FailJob(w) PROVE Fine
    BY <1>17 DEF FailJob, Ownership
<1> HIDE DEF Fine
<1>18. Fine
    BY <1>6, <1>8, <1>9, <1>10, <1>11, <1>12, <1>14, <1>15, <1>16, <1>17, QueueSteps
       DEF Quiet, Lifecycle, Worker
<1> QED BY <1>18 DEF Fine

\* A request that is over is taken on again only by a thread that submits it.
LEMMA OverStays ==
    ASSUME RemoteTypeOK, [RemoteNext]_allVars, NEW j \in Jobs, Over(j)
    PROVE  Over(j)' \/ \E w \in Workers : pc[w] = "executing" /\ job[w] = j
<1>1. remote \in [Jobs -> Active \cup Ended \cup {"absent"}]
    BY DEF RemoteTypeOK
<1>2. CASE remote' = remote
    BY <1>2 DEF Over
<1>3. ASSUME NEW w \in Workers, SubmitRequest(w)
      PROVE  Over(j)' \/ (pc[w] = "executing" /\ job[w] = j)
    <2>1. /\ pc[w] = "executing"
          /\ remote' = remote \/ remote' = [remote EXCEPT ![job[w]] = "accepted"]
        BY <1>3 DEF SubmitRequest, Accept
    <2> QED BY <1>1, <2>1 DEF Over
<1>4. ASSUME NEW k \in Jobs, RemoteBegins(k) \/ RemoteEnds(k) \/ RemoteForgets(k)
      PROVE  Over(j)'
    <2>1. \/ remote[k] \in Active /\ \E s : remote' = [remote EXCEPT ![k] = s]
          \/ remote' = [remote EXCEPT ![k] = "absent"]
        BY <1>4 DEF RemoteBegins, RemoteEnds, RemoteForgets, RemoteMoves, Active
    <2>2. Over(k) => remote[k] \notin Active
        BY DEF Over, Active
    <2> QED BY <1>1, <2>1, <2>2 DEF Over
<1>5. remote' = remote \/ (\E w \in Workers : SubmitRequest(w))
        \/ \E k \in Jobs : RemoteBegins(k) \/ RemoteEnds(k) \/ RemoteForgets(k)
    BY DEF RemoteNext, allVars, remoteVars, hosted, RemoteLifecycle, Exit, RemoteThread,
           EnterExecute, RelayCancel, PollStatus, StatusLost, Raise, CancelJob,
           CheckQueue, SubmitChecked, BeginDownload, EndDownload
<1> QED BY <1>2, <1>3, <1>4, <1>5

\* A thread comes to have published only from a poll that was answered with
\* a completed request, and it keeps its job until then.
LEMMA PublishedFrom ==
    ASSUME TypeOK, [RemoteNext]_allVars, NEW w \in Workers, pc'[w] = "published"
    PROVE  /\ job'[w] = job[w]
           /\ \/ pc[w] = "published"
              \/ pc[w] = "executing" /\ Over(job[w]) /\ remote' = remote
<1>1. /\ pc \in [Workers -> Pcs] /\ job \in [Workers -> Jobs \cup {None}]
    BY DEF TypeOK
<1>2. CASE UNCHANGED <<pc, job>>
    BY <1>2
<1>3. CASE Exit \/ FinishStart
    BY <1>3 DEF Exit, ProcessExit, FinishStart
<1>4. ASSUME NEW v \in Workers, RemoteThread(v), ~UNCHANGED <<pc, job>>
      PROVE  /\ job'[w] = job[w]
             /\ \/ pc[w] = "published"
                \/ pc[w] = "executing" /\ Over(job[w]) /\ remote' = remote
    <2>1. CASE PollStatus(v)
        <3>1. /\ MoveTo(v, "published") /\ remote[job[v]] = "completed" /\ remote' = remote
              /\ pc[v] = "executing"
            BY <1>4, <2>1 DEF PollStatus, OnProgress, SaveProgress, vars, thread, hosted
        <3> QED BY <1>1, <3>1 DEF MoveTo, Over
    <2>2. CASE ~PollStatus(v)
        <3>1. /\ \E p \in Pcs \ {"published"} : pc' = [pc EXCEPT ![v] = p]
              /\ \E k : job' = job \/ job' = [job EXCEPT ![v] = k]
            BY <1>4, <2>2
               DEF RemoteThread, EnterExecute, BeginExecute, SubmitRequest, RelayCancel,
                   StatusLost, Raise, Claim, SkipStale, LeaveLoop, ExecuteReturns,
                   FailJob, Cleanup, Record, MoveTo, vars, thread, Pcs, Working
        <3> QED BY <1>1, <3>1
    <2> QED BY <2>1, <2>2
<1>5. UNCHANGED <<pc, job>> \/ Exit \/ FinishStart \/ \E v \in Workers : RemoteThread(v)
    BY DEF RemoteNext, allVars, vars, thread, RemoteLifecycle, Start, Stop, Recover,
           RemoteBegins, RemoteEnds, RemoteForgets, RemoteMoves, CancelJob, CancelQueued,
           CancelRunning, Retry, CheckQueue, SubmitChecked, Submit, BeginDownload,
           EndDownload
<1> QED BY <1>2, <1>3, <1>4, <1>5

\* A client downloads on, or begins with a record that reads completed.
LEMMA DownloadFrom ==
    ASSUME RemoteTypeOK, [RemoteNext]_allVars, NEW c \in Clients,
           stage'[c] = "downloading"
    PROVE  \/ stage[c] = "downloading" /\ target'[c] = target[c]
           \/ Alive /\ mem[target'[c]].state = "completed" /\ disk' = disk
                /\ target'[c] \in Jobs
<1>1. /\ stage \in [Clients -> Stages] /\ target \in [Clients -> Jobs \cup {None}]
    BY DEF RemoteTypeOK
<1>2. CASE UNCHANGED <<stage, target>>
    BY <1>2
<1>3. CASE Exit
    BY <1>1, <1>3 DEF Exit
<1>4. ASSUME NEW d \in Clients, CheckQueue(d) \/ SubmitChecked(d) \/ EndDownload(d)
      PROVE  stage[c] = "downloading" /\ target'[c] = target[c]
    BY <1>1, <1>4 DEF CheckQueue, SubmitChecked, EndDownload
<1>5. ASSUME NEW d \in Clients, BeginDownload(d)
      PROVE  \/ stage[c] = "downloading" /\ target'[c] = target[c]
             \/ Alive /\ mem[target'[c]].state = "completed" /\ disk' = disk
                  /\ target'[c] \in Jobs
    BY <1>1, <1>5 DEF BeginDownload, Importable, vars, store
<1>6. UNCHANGED <<stage, target>> \/ Exit
        \/ \E d \in Clients : CheckQueue(d) \/ SubmitChecked(d) \/ EndDownload(d)
                                \/ BeginDownload(d)
    BY DEF RemoteNext, allVars, remoteVars, editor, RemoteLifecycle, RemoteThread,
           EnterExecute, SubmitRequest, RelayCancel, PollStatus, StatusLost, Raise,
           RemoteBegins, RemoteEnds, RemoteForgets, RemoteMoves, CancelJob
<1> QED BY <1>2, <1>3, <1>4, <1>5, <1>6

LEMMA FinishedStep ==
    ASSUME TypeOK, RemoteTypeOK, OwnInv, FinishedInv, [RemoteNext]_allVars
    PROVE  FinishedInv'
<1> SUFFICES ASSUME faults' = 0 PROVE Finished'
    BY DEF FinishedInv
<1>1. faults = 0
    BY RemoteFaults
<1>2. Ownership /\ Finished
    BY <1>1 DEF OwnInv, FinishedInv
<1>3. \A w \in Workers :
        pc[w] \in {"executing", "published"} =>
            /\ job[w] \in Jobs /\ mem = disk /\ disk[job[w]].state # "completed"
            /\ \A v \in Workers : v # w /\ pc[v] \in {"executing", "published"}
                                    => job[v] # job[w]
    BY <1>2, JobQueueAssumption DEF TypeOK, Ownership, Working, InProgress, Alive
<1>4. ASSUME NEW j \in Jobs, disk'[j].state = "completed" PROVE Over(j)'
    <2>1. CASE disk'[j] = disk[j]
        <3>1. Over(j) /\ ~\E w \in Workers : pc[w] = "executing" /\ job[w] = j
            BY <1>2, <1>3, <1>4, <2>1 DEF Finished
        <3> QED BY <3>1, OverStays
    <2>2. CASE disk'[j] # disk[j]
        <3>1. PICK w \in Workers : pc[w] = "published" /\ job[w] = j
            BY <1>1, <1>2, <1>4, <2>2, DiskMoves
        <3>2. Over(j) /\ ~\E v \in Workers : pc[v] = "executing" /\ job[v] = j
            BY <1>2, <1>3, <3>1 DEF Finished
        <3> QED BY <3>2, OverStays
    <2> QED BY <2>1, <2>2
<1>5. ASSUME NEW w \in Workers, pc'[w] = "published" PROVE Over(job[w])'
    <2>1. job'[w] = job[w]
        BY <1>5, PublishedFrom
    <2>2. CASE pc[w] = "published"
        <3>1. Over(job[w]) /\ ~\E v \in Workers : pc[v] = "executing" /\ job[v] = job[w]
            BY <1>2, <1>3, <2>2 DEF Finished
        <3>2. PICK j \in Jobs : j = job[w]
            BY <1>3, <2>2
        <3>3. Over(j)'
            BY <3>1, <3>2, OverStays
        <3> QED BY <2>1, <3>2, <3>3 DEF Over
    <2>3. CASE pc[w] # "published"
        BY <1>5, <2>1, <2>3, PublishedFrom DEF Over
    <2> QED BY <2>2, <2>3
<1>6. ASSUME NEW c \in Clients, stage'[c] = "downloading"
      PROVE  disk'[target'[c]].state = "completed"
    <2>1. CASE stage[c] = "downloading" /\ target'[c] = target[c]
        <3>1. disk[target[c]].state = "completed" /\ target[c] \in Jobs
            BY <1>2, <2>1, JobQueueAssumption DEF Finished, RemoteTypeOK
        <3>2. disk'[target[c]] = disk[target[c]]
            BY <1>1, <1>2, <3>1, DiskMoves
        <3> QED BY <2>1, <3>1, <3>2
    <2>2. CASE Alive /\ mem[target'[c]].state = "completed" /\ disk' = disk
        <3>1. mem = disk
            BY <1>2, <2>2 DEF Ownership, Alive
        <3> QED BY <2>2, <3>1
    <2> QED BY <1>6, <2>1, <2>2, DownloadFrom
<1> QED BY <1>4, <1>5, <1>6 DEF Finished

\* Until a save fails, what a client downloads is the result of a job that
\* is completed for good, and the hosted worker has not begun it again.
THEOREM DownloadsAreFinal == RemoteSpec => []DownloadIsCompleted
<1>1. RemoteInit => FinishedInv
    BY DEF RemoteInit, Init, FinishedInv, Finished, NoRecord
<1>2. RemoteTypeOK /\ FinishedInv => DownloadIsCompleted
    BY JobQueueAssumption
       DEF RemoteTypeOK, FinishedInv, Finished, Over, DownloadIsCompleted
<1> QED BY <1>1, <1>2, FinishedStep, RemoteOwnAlways, PTL DEF RemoteSpec

-----------------------------------------------------------------------------
(* Cancellations, in every history.  The mark of a cancellation wanders    *)
(* from the record to the event of a claim, from there to the hosted       *)
(* worker and its answer and back to the record, of this attempt or of a   *)
(* later one.  Wherever it is, a client put it there; and an event that is *)
(* left over from an earlier claim of a job belongs to that job.           *)

Marked(r) == r.state \in {"cancelling", "cancelled"} \/ r.cancel = TRUE

RecordsWanted == \A j \in Jobs : Marked(mem[j]) \/ Marked(disk[j]) => j \in wanted

SignalsWanted ==
    /\ \A j \in Jobs, n \in Nat : <<j, n>> \in signalled => j \in wanted
    /\ stopping \subseteq wanted
    /\ \A j \in Jobs : remote[j] = "cancelled" => j \in wanted
    /\ \A w \in Workers : step[w] = "cancelled" => job[w] \in wanted

\* No handler marks a record that was not marked, but the two of cancel().
LEMMA MarksKept ==
    ASSUME NEW r \in JobRecords, NEW err
    PROVE  /\ Marked(Claimed(r)) => Marked(r)
           /\ Marked(Failed(r, err)) => Marked(r)
           /\ Marked(AfterFailure(r, err)) => Marked(r)
           /\ Marked(AfterSuccess(r)) => Marked(r)
           /\ ~Marked(Requeued(r)) /\ ~Marked(AfterCrash(r))
           /\ ~Marked(NewRecord) /\ ~Marked(NoRecord)
<1>1. DOMAIN r = {"state", "cancel", "retries", "error"} /\ r.cancel \in BOOLEAN
    <2>1. CASE r \in Records
        BY <2>1 DEF Records
    <2>2. CASE r = NoRecord
        BY <2>2 DEF NoRecord
    <2> QED BY <2>1, <2>2 DEF JobRecords
<1>2. /\ Claimed(r).state = "running" /\ Claimed(r).cancel = r.cancel
      /\ Failed(r, err).state = "failed" /\ Failed(r, err).cancel = r.cancel
      /\ Completed(r).state = "completed" /\ Completed(r).cancel = r.cancel
      /\ Interrupted(r).state = "interrupted" /\ Interrupted(r).cancel = FALSE
    BY <1>1 DEF Claimed, Failed, Completed, Interrupted
<1>3. /\ Requeued(r).state = "queued" /\ Requeued(r).cancel = FALSE
      /\ NewRecord.state = "queued" /\ NewRecord.cancel = FALSE
      /\ NoRecord.state = "absent" /\ NoRecord.cancel = FALSE
    BY DEF Requeued, NewRecord, NoRecord
<1>4. /\ Marked(Claimed(r)) => Marked(r)
      /\ Marked(Failed(r, err)) => Marked(r)
      /\ Marked(Completed(r)) => Marked(r)
      /\ ~Marked(Requeued(r)) /\ ~Marked(Interrupted(r))
      /\ ~Marked(NewRecord) /\ ~Marked(NoRecord)
    BY <1>2, <1>3 DEF Marked
<1>5. CancelPending(r) => Marked(r)
    BY <1>1 DEF CancelPending, Marked
<1> QED BY <1>4, <1>5 DEF AfterFailure, AfterSuccess, AfterCrash

\* A save, successful or not, of a record that is marked only if it may be.
LEMMA SaveWanted ==
    ASSUME TypeOK, RecordsWanted, wanted \subseteq wanted', NEW j \in Jobs, NEW r,
           Save(j, r) \/ SaveFails(j, r), Marked(r) => j \in wanted'
    PROVE  RecordsWanted'
<1>1. \A k \in Jobs : /\ mem'[k] \in IF k = j THEN {r} ELSE {mem[k]}
                      /\ disk'[k] \in IF k = j THEN {r, disk[k]} ELSE {disk[k]}
    BY DEF TypeOK, Save, SaveFails
<1> QED BY <1>1 DEF RecordsWanted

\* The progress of an execution saves the live record as it is.
LEMMA ProgressWanted ==
    ASSUME TypeOK, RecordsWanted, wanted' = wanted, NEW w \in Workers, SaveProgress(w)
    PROVE  RecordsWanted'
<1>1. /\ job[w] \in Jobs /\ mem' = mem
      /\ disk' = [disk EXCEPT ![job[w]] = mem[job[w]]]
    BY DEF SaveProgress, TypeOK
<1>2. \A k \in Jobs : disk'[k] = IF k = job[w] THEN mem[k] ELSE disk[k]
    BY <1>1 DEF TypeOK
<1> QED BY <1>1, <1>2 DEF RecordsWanted

\* The records under every step of the queue but those of cancel() and the
\* cancellation the hosted worker reports.
LEMMA QuietWanted ==
    ASSUME TypeOK, RecordsWanted, wanted' = wanted,
           \/ UNCHANGED vars \/ Lifecycle
           \/ \E j \in Jobs : Submit(j) \/ Retry(j)
           \/ \E w \in Workers :
                \/ Claim(w) \/ SkipStale(w) \/ LeaveLoop(w) \/ BeginExecute(w)
                \/ SaveProgress(w) \/ (MoveTo(w, "published") /\ UNCHANGED store)
                \/ ExecuteFails(w) \/ ExecuteReturns(w) \/ FailJob(w) \/ Cleanup(w)
    PROVE  RecordsWanted'
<1>1. /\ mem \in [Jobs -> JobRecords] /\ disk \in [Jobs -> JobRecords]
      /\ queue \in Seq(Jobs)
      /\ \A w \in Workers : pc[w] \notin {"idle", "exited"} => job[w] \in Jobs
    BY DEF TypeOK, JobRecords
<1>2. ASSUME UNCHANGED <<mem, disk>> PROVE RecordsWanted'
    BY <1>2 DEF RecordsWanted
<1>3. ASSUME NEW j \in Jobs, NEW r, Save(j, r) \/ SaveFails(j, r),
             Marked(r) => Marked(mem[j])
      PROVE  RecordsWanted'
    <2>1. Marked(r) => j \in wanted'
        BY <1>3 DEF RecordsWanted
    <2> QED BY <1>3, <2>1, SaveWanted
<1>4. ASSUME \/ UNCHANGED vars \/ FinishStart \/ Stop
             \/ \E w \in Workers :
                  \/ SkipStale(w) \/ LeaveLoop(w) \/ BeginExecute(w) \/ Cleanup(w)
                  \/ MoveTo(w, "published") /\ UNCHANGED store
      PROVE  RecordsWanted'
    BY <1>2, <1>4 DEF vars, store, FinishStart, Stop, SkipStale, LeaveLoop,
                      BeginExecute, Cleanup
<1>5. CASE Start
    BY <1>5 DEF Start, RecordsWanted
<1>6. CASE ProcessExit
    <2>1. \A j \in Jobs : ~Marked(mem'[j])
        BY <1>6, <1>1, MarksKept DEF ProcessExit
    <2> QED BY <1>6, <2>1 DEF ProcessExit, RecordsWanted
<1>7. ASSUME NEW j \in Jobs, Recover(j) \/ Submit(j) \/ Retry(j) PROVE RecordsWanted'
    <2>1. PICK r \in {AfterCrash(mem[j]), NewRecord, Requeued(mem[j])} :
              Save(j, r) \/ SaveFails(j, r)
        BY <1>7 DEF Recover, Submit, Retry
    <2> QED BY <1>1, <1>3, <2>1, MarksKept
<1>8. ASSUME NEW w \in Workers, Claim(w) PROVE RecordsWanted'
    <2>1. PICK n \in 1..Len(queue) : \/ Save(queue[n], Claimed(mem[queue[n]]))
                                     \/ SaveFails(queue[n], Claimed(mem[queue[n]]))
        BY <1>8 DEF Claim
    <2>2. queue[n] \in Jobs
        BY <1>1
    <2> QED BY <1>1, <1>3, <2>1, <2>2, MarksKept
<1>9. ASSUME NEW w \in Workers, SaveProgress(w) PROVE RecordsWanted'
    BY <1>9, ProgressWanted
<1>10. ASSUME NEW w \in Workers, ExecuteFails(w) \/ ExecuteReturns(w) \/ FailJob(w)
       PROVE  RecordsWanted'
    <2>1. job[w] \in Jobs
        BY <1>1, <1>10 DEF ExecuteFails, ExecuteReturns, FailJob
    <2>2. CASE UNCHANGED <<mem, disk>>
        BY <1>2, <2>2
    <2>3. CASE ~UNCHANGED <<mem, disk>>
        <3>1. PICK err, r : /\ Save(job[w], r) \/ SaveFails(job[w], r)
                            /\ r \in {AfterFailure(mem[job[w]], err),
                                      AfterSuccess(mem[job[w]]), Failed(mem[job[w]], err)}
            BY <1>10, <2>3 DEF ExecuteFails, ExecuteReturns, FailJob, Record
        <3>2. Marked(r) => Marked(mem[job[w]])
            BY <1>1, <2>1, <3>1, MarksKept
        <3> QED BY <1>3, <2>1, <3>1, <3>2
    <2> QED BY <2>2, <2>3
<1> QED BY <1>4, <1>5, <1>6, <1>7, <1>8, <1>9, <1>10 DEF Lifecycle

LEMMA WantedRecordsStep ==
    ASSUME TypeOK, RemoteTypeOK, RecordsWanted, SignalsWanted, [RemoteNext]_allVars
    PROVE  RecordsWanted'
<1>1. CASE UNCHANGED allVars
    BY <1>1, QuietWanted DEF allVars, remoteVars
<1>2. CASE RemoteLifecycle
    BY <1>2, QuietWanted DEF RemoteLifecycle, Exit, Lifecycle, remoteVars
<1>3. ASSUME NEW w \in Workers, RemoteThread(w) PROVE RecordsWanted'
    <2>1. wanted' = wanted
        BY <1>3 DEF RemoteThread, EnterExecute, SubmitRequest, RelayCancel, PollStatus,
                    StatusLost, Raise, remoteVars
    <2>2. CASE Raise(w) /\ step[w] = "cancelled"
        <3>1. /\ job[w] \in Jobs /\ job[w] \in wanted
              /\ \/ Save(job[w], Cancelled(mem[job[w]]))
                 \/ SaveFails(job[w], Cancelled(mem[job[w]]))
            BY <2>2, JobQueueAssumption DEF Raise, Record, SignalsWanted, TypeOK
        <3> QED BY <2>1, <3>1, SaveWanted
    <2>3. CASE Raise(w) /\ step[w] # "cancelled"
        <3>1. ExecuteFails(w)
            <4>1. step[w] \in Errors \ {"none"}
                BY <2>3 DEF Raise, Errors
            <4> QED BY <2>3, <4>1 DEF Raise, ExecuteFails
        <3> QED BY <2>1, <3>1, QuietWanted
    <2>4. CASE PollStatus(w)
        <3>1. \/ UNCHANGED vars \/ SaveProgress(w)
              \/ MoveTo(w, "published") /\ UNCHANGED store
            BY <2>4 DEF PollStatus, OnProgress
        <3>2. CASE MoveTo(w, "published") /\ UNCHANGED store
            BY <2>1, <3>2, QuietWanted
        <3>3. CASE UNCHANGED vars
            BY <2>1, <3>3, QuietWanted
        <3>4. CASE SaveProgress(w)
            BY <2>1, <3>4, ProgressWanted
        <3> QED BY <3>1, <3>2, <3>3, <3>4
    <2>5. CASE ~PollStatus(w) /\ ~Raise(w)
        <3>1. \/ UNCHANGED vars
              \/ Claim(w) \/ SkipStale(w) \/ LeaveLoop(w) \/ BeginExecute(w)
              \/ ExecuteReturns(w) \/ FailJob(w) \/ Cleanup(w)
            BY <1>3, <2>5 DEF RemoteThread, EnterExecute, SubmitRequest, RelayCancel,
                              StatusLost
        <3> QED BY <2>1, <3>1, QuietWanted
    <2> QED BY <2>2, <2>3, <2>4, <2>5
<1>4. ASSUME NEW j \in Jobs, RemoteBegins(j) \/ RemoteEnds(j) \/ RemoteForgets(j)
      PROVE  RecordsWanted'
    BY <1>4, QuietWanted DEF RemoteBegins, RemoteEnds, RemoteForgets, RemoteMoves
<1>5. ASSUME NEW j \in Jobs, CancelJob(j) PROVE RecordsWanted'
    <2>1. wanted \subseteq wanted' /\ j \in wanted'
        BY <1>5 DEF CancelJob
    <2>2. \E r : Save(j, r) \/ SaveFails(j, r)
        BY <1>5 DEF CancelJob, CancelQueued, CancelRunning
    <2> QED BY <2>1, <2>2, SaveWanted
<1>6. ASSUME NEW j \in Jobs, Retry(j), UNCHANGED remoteVars PROVE RecordsWanted'
    BY <1>6, QuietWanted DEF remoteVars
<1>7. ASSUME NEW c \in Clients,
             CheckQueue(c) \/ SubmitChecked(c) \/ BeginDownload(c) \/ EndDownload(c)
      PROVE  RecordsWanted'
    BY <1>7, QuietWanted DEF CheckQueue, SubmitChecked, BeginDownload, EndDownload
<1> QED BY <1>1, <1>2, <1>3, <1>4, <1>5, <1>6, <1>7 DEF RemoteNext

\* A step that sets no event, asks for no cancellation, and neither reports
\* nor believes one.
LEMMA SignalsFrame ==
    ASSUME SignalsWanted, wanted \subseteq wanted', signalled' \subseteq signalled,
           stopping' \subseteq stopping,
           \A j \in Jobs : remote'[j] = "cancelled" => remote[j] = "cancelled",
           \A w \in Workers :
              step'[w] = "cancelled" => step[w] = "cancelled" /\ job'[w] = job[w]
    PROVE  SignalsWanted'
BY DEF SignalsWanted

LEMMA ThreadSignals ==
    ASSUME TypeOK, RemoteTypeOK, SignalsWanted, NEW w \in Workers, RemoteThread(w)
    PROVE  SignalsWanted'
<1>1. /\ job \in [Workers -> Jobs \cup {None}] /\ step \in [Workers -> Steps]
      /\ remote \in [Jobs -> Active \cup Ended \cup {"absent"}]
      /\ watch[w] \in Nat /\ None \notin Jobs
      /\ \A v \in Workers : job[v] = None <=> pc[v] \in {"idle", "exited"}
      /\ \A v \in Workers : step[v] # "none" <=> pc[v] = "executing"
    BY JobQueueAssumption DEF TypeOK, RemoteTypeOK
<1>2. wanted' = wanted /\ signalled' = signalled
    BY DEF RemoteThread, EnterExecute, BeginExecute, SubmitRequest, RelayCancel,
           PollStatus, OnProgress, SaveProgress, StatusLost, Raise, Claim, SkipStale,
           LeaveLoop, ExecuteReturns, FailJob, Cleanup, vars, cancels, remoteVars
<1>3. ASSUME stopping' \subseteq stopping \cup {job[w]}, job[w] \in wanted, remote' = remote,
             job' = job, \E s \in Steps : step' = [step EXCEPT ![w] = s]
      PROVE  SignalsWanted'
    BY <1>1, <1>2, <1>3 DEF SignalsWanted
<1>4. ASSUME stopping' \subseteq stopping, job' = job,
             remote' = remote \/ remote' = [remote EXCEPT ![job[w]] = "accepted"],
             \E s \in Steps \ {"cancelled"} : step' = [step EXCEPT ![w] = s]
      PROVE  SignalsWanted'
    <2>1. \A v \in Workers : step'[v] = "cancelled" => step[v] = "cancelled"
        BY <1>1, <1>4
    <2>2. \A j \in Jobs : remote'[j] = "cancelled" => remote[j] = "cancelled"
        BY <1>1, <1>4
    <2> QED BY <1>2, <1>4, <2>1, <2>2, SignalsFrame
<1>5. CASE EnterExecute(w)
    BY <1>4, <1>5 DEF EnterExecute, BeginExecute, GoTo, hosted, Steps
<1>6. CASE SubmitRequest(w)
    BY <1>4, <1>6 DEF SubmitRequest, Accept, CallFails, GoTo, vars, thread, Steps
<1>7. CASE RelayCancel(w)
    <2>1. /\ job' = job /\ remote' = remote /\ job[w] \in Jobs
          /\ \E s \in Steps \ {"cancelled"} : step' = [step EXCEPT ![w] = s]
          /\ stopping' \in {stopping, stopping \cup {job[w]}}
          /\ stopping' # stopping => IsSet(w)
        BY <1>1, <1>7 DEF RelayCancel, CallFails, GoTo, vars, thread, Steps
    <2>2. IsSet(w) => job[w] \in wanted
        BY <1>1, <2>1 DEF IsSet, SignalsWanted
    <2> QED BY <1>3, <1>4, <2>1, <2>2
<1>8. CASE PollStatus(w)
    <2>1. /\ job' = job /\ remote' = remote /\ stopping' = stopping
          /\ \E s \in Steps : /\ step' = [step EXCEPT ![w] = s]
                              /\ s = "cancelled" => remote[job[w]] = "cancelled"
        BY <1>8 DEF PollStatus, OnProgress, SaveProgress, MoveTo, GoTo, vars, thread,
                    hosted, Steps
    <2>2. job[w] \in Jobs
        BY <1>1, <1>8 DEF PollStatus
    <2>3. CASE remote[job[w]] = "cancelled"
        BY <1>3, <2>1, <2>2, <2>3 DEF SignalsWanted
    <2>4. CASE remote[job[w]] # "cancelled"
        BY <1>4, <2>1, <2>4
    <2> QED BY <2>3, <2>4
<1>9. CASE StatusLost(w) \/ Raise(w)
    BY <1>4, <1>9 DEF StatusLost, CallFails, Raise, Record, MoveTo, GoTo, hosted, vars,
                      thread, Steps
<1>10. CASE UNCHANGED <<step, hosted>> /\ pc[w] # "executing"
            /\ \E j : job' = job \/ job' = [job EXCEPT ![w] = j]
    <2>1. \A v \in Workers :
            step'[v] = "cancelled" => step[v] = "cancelled" /\ job'[v] = job[v]
        BY <1>1, <1>10
    <2> QED BY <1>2, <1>10, <2>1, SignalsFrame DEF hosted
<1>11. CASE \/ Cleanup(w) /\ UNCHANGED <<step, hosted, lost, editor, wanted>>
            \/ /\ Claim(w) \/ SkipStale(w) \/ LeaveLoop(w) \/ ExecuteReturns(w)
                    \/ FailJob(w)
               /\ UNCHANGED remoteVars
    BY <1>10, <1>11 DEF Cleanup, Claim, SkipStale, LeaveLoop, ExecuteReturns, FailJob,
                        Record, MoveTo, thread, remoteVars, executor
<1> QED BY <1>5, <1>6, <1>7, <1>8, <1>9, <1>11 DEF RemoteThread

LEMMA WantedSignalsStep ==
    ASSUME TypeOK, RemoteTypeOK, SignalsWanted, [RemoteNext]_allVars
    PROVE  SignalsWanted'
<1>1. remote \in [Jobs -> Active \cup Ended \cup {"absent"}]
    BY DEF RemoteTypeOK
<1>2. ASSUME wanted' = wanted, signalled' \subseteq signalled,
             UNCHANGED <<stopping, remote, step, job>>
      PROVE  SignalsWanted'
    BY <1>2, SignalsFrame
<1>3. CASE UNCHANGED allVars
    BY <1>2, <1>3 DEF allVars, vars, thread, cancels, remoteVars, executor, hosted
<1>4. CASE Exit
    <2>1. /\ \A w \in Workers : step'[w] = "none"
          /\ signalled' = {} /\ UNCHANGED <<stopping, remote, wanted>>
        BY <1>4 DEF Exit, ProcessExit, hosted
    <2> QED BY <2>1, SignalsFrame
<1>5. CASE /\ Start \/ FinishStart \/ Stop \/ \E j \in Jobs : Recover(j)
           /\ UNCHANGED remoteVars
    BY <1>2, <1>5 DEF Start, FinishStart, Stop, Recover, thread, cancels, remoteVars,
                      executor, hosted
<1>6. ASSUME NEW w \in Workers, RemoteThread(w) PROVE SignalsWanted'
    BY <1>6, ThreadSignals
<1>7. ASSUME NEW j \in Jobs, RemoteBegins(j) \/ RemoteEnds(j) \/ RemoteForgets(j)
      PROVE  SignalsWanted'
    <2>1. /\ UNCHANGED <<signalled, wanted, step, job>> /\ stopping' \subseteq stopping
          /\ \E s : /\ remote' = [remote EXCEPT ![j] = s]
                    /\ s = "cancelled" => j \in stopping
        BY <1>7 DEF RemoteBegins, RemoteEnds, RemoteForgets, RemoteMoves, vars, thread,
                    cancels, executor
    <2>2. \A k \in Jobs :
            remote'[k] = "cancelled" => remote[k] = "cancelled" \/ k \in stopping
        BY <1>1, <2>1
    <2> QED BY <2>1, <2>2 DEF SignalsWanted
<1>8. ASSUME NEW j \in Jobs, CancelJob(j) PROVE SignalsWanted'
    <2>1. /\ wanted' = wanted \cup {j}
          /\ \A k, n : <<k, n>> \in signalled' => <<k, n>> \in signalled \/ k = j
          /\ UNCHANGED <<stopping, remote, step, job>>
        BY <1>8 DEF CancelJob, CancelQueued, CancelRunning, thread, cancels, executor,
                    hosted
    <2> QED BY <2>1 DEF SignalsWanted
<1>9. ASSUME NEW j \in Jobs, Retry(j), UNCHANGED remoteVars PROVE SignalsWanted'
    BY <1>2, <1>9 DEF Retry, thread, cancels, remoteVars, executor, hosted
<1>10. ASSUME NEW c \in Clients,
              CheckQueue(c) \/ SubmitChecked(c) \/ BeginDownload(c) \/ EndDownload(c)
       PROVE  SignalsWanted'
    BY <1>2, <1>10 DEF CheckQueue, SubmitChecked, BeginDownload, EndDownload, Submit, vars,
                       thread, cancels, executor, hosted
<1> QED BY <1>3, <1>4, <1>5, <1>6, <1>7, <1>8, <1>9, <1>10
        DEF RemoteNext, RemoteLifecycle

\* No job is recorded as cancelled that no client cancelled, whatever calls,
\* saves and processes fail, however stale the worker's answers are and
\* however many threads execute one job after a failed save.
THEOREM CancelledOnlyOnRequest == RemoteSpec => []CancelledWasWanted
<1>1. RemoteInit => RecordsWanted /\ SignalsWanted
    BY DEF RemoteInit, Init, RecordsWanted, SignalsWanted, Marked, NoRecord
<1>2. TypeOK /\ RemoteTypeOK /\ RecordsWanted /\ SignalsWanted /\ [RemoteNext]_allVars
        => RecordsWanted' /\ SignalsWanted'
    BY WantedRecordsStep, WantedSignalsStep
<1>3. RecordsWanted => CancelledWasWanted
    BY DEF RecordsWanted, Marked, CancelledWasWanted
<1> QED BY <1>1, <1>2, <1>3, RemoteTypeCorrect, PTL DEF RemoteSpec

-----------------------------------------------------------------------------
(* What the queue promises by itself it promises with the hosted worker    *)
(* too: the two steps the remote execution adds queue nothing, claim       *)
(* nothing and touch no cancel event.                                      *)

LEMMA OddSteps == [RemoteNext]_allVars => [Next]_vars \/ \E w \in Workers : Odd(w)
BY QueueSteps DEF Quiet, Next, Client

LEMMA RemoteBudgetStep ==
    ASSUME TypeOK, BudgetInv, [RemoteNext]_allVars
    PROVE  BudgetInv'
<1>1. ASSUME NEW w \in Workers, Odd(w) PROVE BudgetInv'
    <2>1. job[w] \in Jobs /\ phase # "down" /\ phase' = phase /\ runs' = runs
        BY <1>1, JobQueueAssumption DEF TypeOK, Odd, Alive, process
    <2>2. CASE UNCHANGED store
        BY <2>1, <2>2, BudgetUntouched DEF store
    <2>3. CASE Record(w, Cancelled(mem[job[w]]))
        <3>1. /\ mem[job[w]] \in JobRecords /\ runs[job[w]] \in Nat /\ "none" \in Errors
              /\ Budget(mem[job[w]], runs[job[w]]) /\ Fresh(mem[job[w]])
            BY <2>1 DEF TypeOK, JobRecords, Errors, BudgetInv
        <3>2. Budget(Cancelled(mem[job[w]]), runs[job[w]]) /\ Fresh(Cancelled(mem[job[w]]))
            BY <3>1, BudgetKept
        <3> QED BY <2>1, <2>3, <3>2, SaveBudget DEF Record
    <2> QED BY <1>1, <2>2, <2>3 DEF Odd
<1> QED BY <1>1, BudgetStep, OddSteps

LEMMA RemoteBudgetAlways == RemoteSpec => [](TypeOK /\ BudgetInv)
<1>1. RemoteInit => BudgetInv
    BY JobQueueAssumption DEF RemoteInit, Init, BudgetInv, Budget, Fresh, NoRecord
<1> QED BY <1>1, RemoteTypeCorrect, RemoteBudgetStep, PTL DEF RemoteSpec

\* The hosted worker runs a request at most MaxRetries + 1 times in the whole
\* life of its job: its restarts, lost calls, failed saves and deaths of the
\* backend cannot make it spend more GPU time than the retries allow.
GpuBudget == \A j \in Jobs : starts[j] <= MaxRetries + 1

THEOREM RemoteBudget == RemoteSpec => [](RunBudget /\ QueuedIsFresh /\ GpuBudget)
<1>1. TypeOK /\ BudgetInv => RunBudget /\ QueuedIsFresh
    <2> SUFFICES ASSUME TypeOK, BudgetInv PROVE RunBudget /\ QueuedIsFresh
        OBVIOUS
    <2>1. ASSUME NEW j \in Jobs PROVE runs[j] <= MaxRetries + 1
        <3>1. disk[j].retries \in Nat /\ runs[j] \in Nat
            BY DEF TypeOK, Records, NoRecord
        <3>2. disk[j].retries <= MaxRetries /\ runs[j] <= disk[j].retries + 1
            BY <3>1 DEF BudgetInv, Budget
        <3> QED BY <3>1, <3>2, JobQueueAssumption
    <2> QED BY <2>1 DEF RunBudget, BudgetInv, Fresh, QueuedIsFresh
<1>2. TypeOK /\ RemoteTypeOK /\ RunBudget /\ OneRunPerAttempt => GpuBudget
    <2> SUFFICES ASSUME TypeOK, RemoteTypeOK, RunBudget, OneRunPerAttempt, NEW j \in Jobs
                 PROVE  starts[j] <= MaxRetries + 1
        BY DEF GpuBudget
    <2>1. starts[j] \in Nat /\ runs[j] \in Nat
        BY DEF TypeOK, RemoteTypeOK
    <2> QED BY <2>1, JobQueueAssumption DEF RunBudget, OneRunPerAttempt
<1> QED BY <1>1, <1>2, RemoteBudgetAlways, RemoteTypeCorrect, RunPerAttempt, PTL

-----------------------------------------------------------------------------
(* Final and cancelled jobs.                                               *)

\* Until a save fails, a completed job stays completed with the remote
\* executor too: a late failure, a cancellation the worker reports after the
\* fact, a retry or a recovery never rewrites its file.
THEOREM RemoteCompletedFinal == RemoteSpec => CompletedIsFinal
<1>1. TypeOK /\ OwnInv /\ [RemoteNext]_allVars
        => [faults' = 0 =>
              \A j \in Jobs :
                 disk[j].state = "completed" => disk'[j].state = "completed"]_vars
    <2> SUFFICES ASSUME TypeOK, OwnInv, [RemoteNext]_allVars, faults' = 0, NEW j \in Jobs,
                        disk[j].state = "completed"
                 PROVE  disk'[j].state = "completed"
        OBVIOUS
    <2>1. faults = 0 /\ Ownership
        BY RemoteFaults DEF OwnInv
    <2> QED BY <2>1, DiskMoves
<1> QED BY <1>1, RemoteOwnAlways, PTL DEF RemoteSpec, CompletedIsFinal

LEMMA RemoteEventStep ==
    ASSUME TypeOK, OwnInv, EventInv, AloneInv, [RemoteNext]_allVars
    PROVE  EventInv' /\ AloneInv'
<1>1. ASSUME NEW w \in Workers, Odd(w), faults' = 0 PROVE Events' /\ AloneInv'
    <2>1. /\ faults = 0 /\ Ownership /\ Events
          /\ pc[w] \in Working /\ pc[w] # "claimed" /\ job[w] \in Jobs
          /\ UNCHANGED <<events, signalled, runs>>
        BY <1>1, RemoteFaults, JobQueueAssumption
           DEF OwnInv, EventInv, Odd, Working, cancels, TypeOK
    <2>2. CASE MoveTo(w, "published") /\ UNCHANGED store
        <3>1. /\ UNCHANGED <<watch, job, mem>>
              /\ \A v \in Workers : pc'[v] = IF v = w THEN "published" ELSE pc[v]
            BY <2>2 DEF MoveTo, store, TypeOK
        <3>2. /\ "published" \notin Unwatching /\ "published" # "claimed"
            BY DEF Unwatching
        <3> QED BY <2>1, <3>1, <3>2, EventFrame, AloneFrame DEF HoldsJob
    <2>3. CASE Record(w, Cancelled(mem[job[w]]))
        <3>1. Save(job[w], Cancelled(mem[job[w]])) /\ MoveTo(w, "cleanup")
            BY <2>1, <2>3, <1>1 DEF Record, SaveFails
        <3>2. /\ UNCHANGED <<watch, job>>
              /\ \A v \in Workers : pc'[v] = IF v = w THEN "cleanup" ELSE pc[v]
            BY <3>1 DEF MoveTo, TypeOK
        <3>3. \A v \in Workers : (v # w /\ pc[v] \in Working) => mem'[job[v]] = mem[job[v]]
            BY <2>1, <3>1 DEF Ownership, TypeOK, Working, Save
        <3>4. "cleanup" \notin Working \cup Unwatching
            BY DEF Working, Unwatching
        <3> QED BY <2>1, <3>2, <3>3, <3>4, EventFrame, AloneFrame DEF HoldsJob
    <2> QED BY <1>1, <2>2, <2>3 DEF Odd, store
<1>2. CASE [Next]_vars
    BY <1>2, EventStep
<1>3. CASE \E w \in Workers : Odd(w)
    BY <1>1, <1>3 DEF EventInv, AloneInv
<1> QED BY <1>2, <1>3, OddSteps

LEMMA RemoteEventAlways == RemoteSpec => [](TypeOK /\ OwnInv /\ EventInv /\ AloneInv)
<1>1. RemoteInit => EventInv /\ AloneInv
    BY JobQueueAssumption DEF RemoteInit, Init, EventInv, Events, AloneInv, Working
<1> QED BY <1>1, RemoteOwnAlways, RemoteEventStep, PTL DEF RemoteSpec

\* With a single worker thread, and until a save fails, the cancellation of a
\* running job always sets the event from which execute() relays it to the
\* hosted worker.
THEOREM RemoteLoneWorkerSeesCancel ==
    ASSUME Alone
    PROVE  RemoteSpec => []CancelReachesExecutor
<1>1. EventInv /\ AloneInv => CancelReachesExecutor
    BY Alone DEF AloneInv, CancelReachesExecutor, IsSet, Working
<1> QED BY <1>1, RemoteEventAlways, PTL

-----------------------------------------------------------------------------
(* The lifecycle.  With the remote executor a job may end as cancelled     *)
(* without having been cancelling: a retry submits the request id again    *)
(* that the hosted worker cancelled, or was told to cancel, in an earlier  *)
(* attempt, and it reports the cancellation once more.  That is the only   *)
(* move it adds, and it takes only jobs a client once asked to cancel.     *)

LateCancel(j) == j \in wanted' /\ Life!Move(j, "running", "cancelled")

LEMMA RemoteLifeStep ==
    ASSUME TypeOK, BudgetInv, OwnInv, EventInv, CancelledWasWanted',
           [RemoteNext]_allVars, faults' = 0
    PROVE  [Life!Next \/ \E j \in Jobs : LateCancel(j)]_<<status, attempt>>
<1>1. CASE [Next]_vars
    BY <1>1, LifeStep
<1>2. ASSUME NEW w \in Workers, Odd(w)
      PROVE  Life!Next \/ (\E j \in Jobs : LateCancel(j)) \/ UNCHANGED disk
    <2> DEFINE j == job[w]
    <2>1. /\ faults = 0 /\ Ownership /\ pc[w] \in Working /\ j \in Jobs
        BY <1>2, RemoteFaults, JobQueueAssumption DEF OwnInv, Odd, Working, TypeOK
    <2>2. /\ mem[j] \in JobRecords /\ mem = disk /\ mem[j].state \in InProgress
        BY <2>1 DEF TypeOK, JobRecords, Ownership, Alive, Working
    <2>3. CASE UNCHANGED store
        BY <2>3 DEF store
    <2>4. CASE Record(w, Cancelled(mem[j]))
        <3>1. Save(j, Cancelled(mem[j]))
            BY <2>1, <2>4 DEF Record, SaveFails
        <3>2. /\ Cancelled(mem[j]).state = "cancelled"
              /\ Cancelled(mem[j]).retries = mem[j].retries
            BY <2>2, Visible
        <3>3. Life!Move(j, mem[j].state, "cancelled")
            <4>1. PICK r : r.state = "cancelled" /\ r.retries = mem[j].retries /\ Save(j, r)
                BY <3>1, <3>2
            <4>2. Life!Move(j, mem[j].state, r.state)
                BY <2>1, <2>2, <4>1, LifeMove
            <4> QED BY <4>1, <4>2, Zenon
        <3>4. j \in wanted'
            BY <2>1, <3>1, <3>2 DEF Save, TypeOK, CancelledWasWanted
        <3>5. CASE mem[j].state = "cancelling"
            BY <2>1, <3>3, <3>5 DEF Life!Next, Life!ConcludeCancel
        <3>6. CASE mem[j].state = "running"
            BY <2>1, <3>3, <3>4, <3>6 DEF LateCancel
        <3> QED BY <2>2, <3>5, <3>6 DEF InProgress
    <2> QED BY <1>2, <2>3, <2>4 DEF Odd, store
<1> QED BY <1>1, <1>2, OddSteps, LifeStutter

\* When no save fails, what a client reads of the job files with the remote
\* executor is the lifecycle, and such late cancellations.
THEOREM RemoteLifecycleKept ==
    ASSUME MaxFaults = 0
    PROVE  RemoteSpec =>
             /\ Life!Init
             /\ [][Life!Next \/ \E j \in Jobs : LateCancel(j)]_<<status, attempt>>
<1> DEFINE NoFault == faults = 0
<1>1. RemoteInit => NoFault /\ Life!Init
    BY DEF RemoteInit, Init, Life!Init, NoRecord
<1>2. TypeOK /\ NoFault /\ [RemoteNext]_allVars => NoFault'
    <2> SUFFICES ASSUME TypeOK, NoFault, [RemoteNext]_allVars PROVE faults' = 0
        OBVIOUS
    <2>1. \A j, r : ~SaveFails(j, r)
        BY MaxFaults = 0 DEF SaveFails, TypeOK
    <2>2. CASE [Next]_vars
        BY <2>1, <2>2
           DEF Next, Lifecycle, Client, Worker, vars, Start, Recover, FinishStart,
               Stop, ProcessExit, Submit, CancelQueued, CancelRunning, Retry, Claim,
               SkipStale, LeaveLoop, BeginExecute, SaveProgress, PassLastCheck,
               PublishOutputs, Record, ObserveCancel, ExecuteFails, ExecuteReturns,
               FailJob, Cleanup, Save
    <2>3. CASE \E w \in Workers : Odd(w)
        BY <2>1, <2>3 DEF Odd, Record, Save
    <2> QED BY <2>2, <2>3, OddSteps
<1>3. (TypeOK /\ BudgetInv /\ OwnInv /\ EventInv /\ CancelledWasWanted' /\ NoFault'
       /\ [RemoteNext]_allVars)
        => [Life!Next \/ \E j \in Jobs : LateCancel(j)]_<<status, attempt>>
    BY RemoteLifeStep
<1> HIDE DEF NoFault
<1> QED BY <1>1, <1>2, <1>3, RemoteBudgetAlways, RemoteEventAlways, CancelledOnlyOnRequest,
           PTL DEF RemoteSpec

=============================================================================
