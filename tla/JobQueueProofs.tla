--------------------------- MODULE JobQueueProofs ---------------------------
(* Machine-checked theorems about the job queue.                           *)
EXTENDS JobQueue, FiniteSetTheorems, SequenceTheorems, TLAPS

-----------------------------------------------------------------------------
(* Facts about the sequence operators the queue is built from.             *)

\* What removing one position of the FIFO leaves.
LEMMA RemoveAtFacts ==
    ASSUME NEW S, NEW s \in Seq(S), NEW i \in 1..Len(s)
    PROVE  /\ RemoveAt(s, i) \in Seq(S)
           /\ Len(RemoveAt(s, i)) = Len(s) - 1
           /\ \A k \in 1..(Len(s) - 1) :
                RemoveAt(s, i)[k] = IF k < i THEN s[k] ELSE s[k + 1]
<1>1. SubSeq(s, 1, i - 1) \in Seq(S) /\ Len(SubSeq(s, 1, i - 1)) = i - 1
      /\ \A k \in 1..(i - 1) : SubSeq(s, 1, i - 1)[k] = s[k]
  OBVIOUS
<1>2. SubSeq(s, i + 1, Len(s)) \in Seq(S)
      /\ Len(SubSeq(s, i + 1, Len(s))) = Len(s) - i
      /\ \A k \in 1..(Len(s) - i) : SubSeq(s, i + 1, Len(s))[k] = s[i + k]
  OBVIOUS
<1> DEFINE a == SubSeq(s, 1, i - 1)
           b == SubSeq(s, i + 1, Len(s))
<1> HIDE DEF a, b
<1>3. /\ a \o b \in Seq(S)
      /\ Len(a \o b) = Len(a) + Len(b)
      /\ \A k \in 1..(Len(a) + Len(b)) :
            (a \o b)[k] = IF k <= Len(a) THEN a[k] ELSE b[k - Len(a)]
  <2>1. a \in Seq(S) /\ b \in Seq(S)
    BY <1>1, <1>2 DEF a, b
  <2> QED BY ONLY <2>1, ConcatProperties
<1>4. RemoveAt(s, i) = a \o b
  BY DEF RemoveAt, a, b
<1>5. \A k \in 1..(Len(s) - 1) :
        (a \o b)[k] = IF k < i THEN s[k] ELSE s[k + 1]
  <2> SUFFICES ASSUME NEW k \in 1..(Len(s) - 1)
               PROVE  (a \o b)[k] = IF k < i THEN s[k] ELSE s[k + 1]
    OBVIOUS
  <2>1. Len(a) = i - 1 /\ Len(b) = Len(s) - i
    BY <1>1, <1>2 DEF a, b
  <2>2. CASE k < i
    BY <1>1, <1>3, <2>1, <2>2 DEF a
  <2>3. CASE ~(k < i)
    <3>1. (a \o b)[k] = b[k - (i - 1)]
      BY <1>3, <2>1, <2>3, SMTT(30)
    <3>2. k - (i - 1) \in 1..(Len(s) - i) /\ i + (k - (i - 1)) = k + 1
      BY <2>3
    <3> QED BY <1>2, <2>3, <3>1, <3>2 DEF b
  <2> QED BY <2>2, <2>3
<1>6. Len(a \o b) = Len(s) - 1
  <2>1. Len(a) = i - 1 /\ Len(b) = Len(s) - i
    BY <1>1, <1>2 DEF a, b
  <2> QED BY <1>3, <2>1
<1> QED BY ONLY <1>3, <1>4, <1>5, <1>6

\* What a claim leaves of the FIFO: the positions after the claimed one.
LEMMA SuffixFacts ==
    ASSUME NEW S, NEW s \in Seq(S), NEW n \in 1..Len(s)
    PROVE  /\ SubSeq(s, n + 1, Len(s)) \in Seq(S)
           /\ Len(SubSeq(s, n + 1, Len(s))) = Len(s) - n
           /\ \A k \in 1..(Len(s) - n) : SubSeq(s, n + 1, Len(s))[k] = s[n + k]
  OBVIOUS

\* The orders in which recovery may rebuild the FIFO.
LEMMA OrderFacts ==
    ASSUME NEW T, IsFiniteSet(T), NEW S \in SUBSET T, NEW s \in SetToSeqs(S)
    PROVE  s \in Seq(T) /\ ToSet(s) = S /\ IsInjective(s)
<1> DEFINE n == Cardinality(S)
<1>1. IsFiniteSet(S) /\ n \in Nat
  BY FS_Subset, FS_CardinalityType
<1>2. s \in [1..n -> S] /\ \A i, j \in 1..n : i # j => s[i] # s[j]
  BY DEF SetToSeqs
<1>3. IsInjective(s)
  BY <1>2 DEF IsInjective
<1>4. s \in Seq(T)
  BY <1>1, <1>2
<1>5. ToSet(s) = S
  <2>1. s \in Injection(1..n, S)
    BY <1>2 DEF Injection, IsInjective
  <2>2. IsFiniteSet(1..n) /\ Cardinality(1..n) = n
    BY <1>1, FS_Interval
  <2>3. s \in Surjection(1..n, S)
    BY <1>1, <2>1, <2>2, FS_Injection
  <2> QED BY <1>2, <2>3 DEF Surjection, ToSet
<1> QED BY <1>3, <1>4, <1>5

-----------------------------------------------------------------------------
(* Type correctness.                                                       *)

JobRecords == Records \cup {NoRecord}

\* Every record transformer of the handlers yields a record, never the
\* absence of one.
LEMMA RecordTypes ==
    ASSUME NEW r \in JobRecords, NEW err \in Errors
    PROVE  /\ Cancelled(r) \in Records /\ Cancelling(r) \in Records
           /\ Claimed(r) \in Records /\ Requeued(r) \in Records
           /\ Failed(r, err) \in Records /\ Completed(r) \in Records
           /\ Interrupted(r) \in Records /\ NewRecord \in Records
           /\ AfterFailure(r, err) \in Records
           /\ AfterSuccess(r) \in Records /\ AfterCrash(r) \in Records
<1>1. /\ r.state \in States \cup {"absent"} /\ r.cancel \in BOOLEAN
      /\ r.retries \in Nat /\ r.error \in Errors
      /\ r = [state |-> r.state, cancel |-> r.cancel, retries |-> r.retries,
              error |-> r.error]
  <2>1. CASE r \in Records
    BY <2>1 DEF Records
  <2>2. CASE r = NoRecord
    BY <2>2 DEF NoRecord, Errors
  <2> QED BY <2>1, <2>2 DEF JobRecords
<1>2. /\ Cancelled(r) \in Records /\ Cancelling(r) \in Records
      /\ Claimed(r) \in Records /\ Failed(r, err) \in Records
      /\ Completed(r) \in Records /\ Interrupted(r) \in Records
      /\ NewRecord \in Records
  BY <1>1 DEF Records, Cancelled, Cancelling, Claimed, Failed, Completed,
              Interrupted, NewRecord, NoRecord, States, Errors
<1>3. Requeued(r) \in Records
  <2>1. r.retries + 1 \in Nat
    BY <1>1
  <2> QED BY <2>1 DEF Requeued, Records, States, Errors
<1> QED BY <1>2, <1>3 DEF AfterFailure, AfterSuccess, AfterCrash

\* A handler that saves, or fails to save, a record keeps both copies typed.
LEMMA SaveTypes ==
    ASSUME TypeOK, NEW j \in Jobs, NEW r \in Records,
           Save(j, r) \/ SaveFails(j, r)
    PROVE  /\ mem' \in [Jobs -> JobRecords]
           /\ disk' \in [Jobs -> JobRecords]
           /\ faults' \in Nat
<1>1. mem \in [Jobs -> JobRecords] /\ disk \in [Jobs -> JobRecords]
      /\ r \in JobRecords /\ faults \in Nat
  BY DEF TypeOK, JobRecords
<1>2. CASE Save(j, r)
  BY <1>1, <1>2 DEF Save
<1>3. CASE SaveFails(j, r)
  BY <1>1, <1>3 DEF SaveFails
<1> QED BY <1>2, <1>3

LEMMA EnqueueTypes ==
    ASSUME TypeOK, NEW j \in Jobs, Enqueue(j)
    PROVE  queue' \in Seq(Jobs)
  BY DEF TypeOK, Enqueue

LEMMA RemoveTypes ==
    ASSUME TypeOK, NEW j \in Jobs, RemoveFromQueue(j)
    PROVE  queue' \in Seq(Jobs)
  BY RemoveAtFacts, SMTT(30) DEF TypeOK, RemoveFromQueue, Contains

\* Moving a thread between points at which it holds a job.
LEMMA MoveTypes ==
    ASSUME TypeOK, NEW w \in Workers, NEW p \in Pcs, MoveTo(w, p),
           pc[w] \in {"idle", "exited"} <=> p \in {"idle", "exited"}
    PROVE  /\ pc' \in [Workers -> Pcs]
           /\ job' \in [Workers -> Jobs \cup {None}]
           /\ watch' \in [Workers -> Nat]
           /\ \A v \in Workers : job'[v] = None <=> pc'[v] \in {"idle", "exited"}
  BY DEF TypeOK, MoveTo

\* The record of an execution's outcome.
LEMMA RecordStepTypes ==
    ASSUME TypeOK, NEW w \in Workers, NEW r \in Records, Record(w, r),
           pc[w] \in Pcs \ {"idle", "exited"}
    PROVE  /\ mem' \in [Jobs -> JobRecords]
           /\ disk' \in [Jobs -> JobRecords]
           /\ faults' \in Nat
           /\ pc' \in [Workers -> Pcs]
           /\ job' \in [Workers -> Jobs \cup {None}]
           /\ watch' \in [Workers -> Nat]
           /\ \A v \in Workers : job'[v] = None <=> pc'[v] \in {"idle", "exited"}
<1>1. job[w] \in Jobs
  BY DEF TypeOK
<1>2. Save(job[w], r) \/ SaveFails(job[w], r)
  BY DEF Record
<1>3. PICK p \in {"cleanup", "raised"} : MoveTo(w, p)
  BY DEF Record
<1>4. p \in Pcs /\ p \notin {"idle", "exited"}
  BY DEF Pcs
<1> QED BY <1>1, <1>2, <1>3, <1>4, SaveTypes, MoveTypes

THEOREM TypeStep == TypeOK /\ [Next]_vars => TypeOK'
<1> SUFFICES ASSUME TypeOK, [Next]_vars PROVE TypeOK'
  OBVIOUS
<1> USE JobQueueAssumption DEF Alive
<1>0. /\ mem \in [Jobs -> JobRecords]
      /\ disk \in [Jobs -> JobRecords]
      /\ "none" \in Errors /\ "retryable" \in Errors
  BY DEF TypeOK, JobRecords, Errors
<1>1. CASE UNCHANGED vars
  BY <1>1 DEF TypeOK, vars, process, store, thread, cancels
<1>2. CASE Start
  BY <1>2 DEF TypeOK, Start, cancels, thread, Phases
<1>3. ASSUME NEW j \in Jobs, Recover(j) PROVE TypeOK'
  <2>1. Save(j, AfterCrash(mem[j])) \/ SaveFails(j, AfterCrash(mem[j]))
    BY <1>3 DEF Recover
  <2>2. AfterCrash(mem[j]) \in Records
    BY <1>0, RecordTypes
  <2> QED BY <1>3, <2>1, <2>2, SaveTypes
          DEF TypeOK, Recover, cancels, thread, Phases, JobRecords
<1>4. CASE FinishStart
  <2>1. queue' \in Seq(Jobs)
    <3>1. QueuedJobs \in SUBSET Jobs
      BY DEF QueuedJobs
    <3> QED BY <1>4, <3>1, OrderFacts DEF FinishStart
  <2>2. \A w \in Workers : job'[w] = None /\ pc'[w] = "idle"
    BY <1>4 DEF FinishStart, TypeOK, Alive
  <2>3. Alive'
    BY <1>4 DEF FinishStart, Alive
  <2> QED BY <1>4, <2>1, <2>2, <2>3 DEF TypeOK, FinishStart, cancels, Phases, Pcs
<1>5. CASE Stop
  BY <1>5 DEF TypeOK, Stop, store, thread, cancels, Phases
<1>6. CASE ProcessExit
  BY <1>0, <1>6 DEF TypeOK, ProcessExit, Phases, Pcs
<1>7. ASSUME NEW j \in Jobs, Submit(j) PROVE TypeOK'
  <2>1. NewRecord \in Records
    BY <1>0, RecordTypes
  <2> QED BY <1>7, <2>1, SaveTypes, EnqueueTypes
          DEF TypeOK, Submit, process, cancels, thread, JobRecords
<1>8. ASSUME NEW j \in Jobs, CancelQueued(j) PROVE TypeOK'
  <2>1. Cancelled(mem[j]) \in Records
    BY <1>0, RecordTypes
  <2> QED BY <1>8, <2>1, SaveTypes, RemoveTypes
          DEF TypeOK, CancelQueued, process, cancels, thread, JobRecords
<1>9. ASSUME NEW j \in Jobs, CancelRunning(j) PROVE TypeOK'
  <2>1. Cancelling(mem[j]) \in Records
    BY <1>0, RecordTypes
  <2>2. Save(j, Cancelling(mem[j])) \/ SaveFails(j, Cancelling(mem[j]))
    BY <1>9 DEF CancelRunning
  <2>3. signalled' \in SUBSET (Jobs \X Nat)
    BY <1>9 DEF CancelRunning, TypeOK
  <2> QED BY <1>9, <2>1, <2>2, <2>3, SaveTypes
          DEF TypeOK, CancelRunning, process, thread, JobRecords
<1>10. ASSUME NEW j \in Jobs, Retry(j) PROVE TypeOK'
  <2>1. Requeued(mem[j]) \in Records
    BY <1>0, RecordTypes
  <2>2. Save(j, Requeued(mem[j])) \/ SaveFails(j, Requeued(mem[j]))
    BY <1>10 DEF Retry
  <2>3. queue' \in Seq(Jobs)
    BY <1>10, EnqueueTypes DEF Retry, TypeOK
  <2> QED BY <1>10, <2>1, <2>2, <2>3, SaveTypes
          DEF TypeOK, Retry, process, cancels, thread, JobRecords
<1>11. ASSUME NEW w \in Workers, Claim(w) PROVE TypeOK'
  <2>1. PICK n \in 1..Len(queue) :
          /\ queue' = SubSeq(queue, n + 1, Len(queue))
          /\ \/ /\ Save(queue[n], Claimed(mem[queue[n]]))
                /\ pc' = [pc EXCEPT ![w] = "claimed"]
                /\ job' = [job EXCEPT ![w] = queue[n]]
                /\ events' = [events EXCEPT ![queue[n]] = runs[queue[n]] + 1]
                /\ runs' = [runs EXCEPT ![queue[n]] = @ + 1]
             \/ /\ SaveFails(queue[n], Claimed(mem[queue[n]]))
                /\ pc' = [pc EXCEPT ![w] = "exited"]
                /\ UNCHANGED <<job, events, runs>>
    BY <1>11 DEF Claim
  <2> DEFINE j == queue[n]
  <2>2. j \in Jobs
    BY DEF TypeOK
  <2>3. Claimed(mem[j]) \in Records
    BY <1>0, <2>2, RecordTypes
  <2>4. mem' \in [Jobs -> JobRecords] /\ disk' \in [Jobs -> JobRecords]
        /\ faults' \in Nat
    BY <2>1, <2>2, <2>3, SaveTypes
  <2>5. queue' \in Seq(Jobs)
    BY <2>1, SuffixFacts DEF TypeOK
  <2>6. /\ phase' = phase /\ crashes' = crashes /\ pc[w] = "idle"
        /\ UNCHANGED <<watch, signalled>>
    BY <1>11 DEF Claim, process
  <2>7. job[w] = None
    BY <2>6 DEF TypeOK
  <2>8. runs' \in [Jobs -> Nat] /\ events' \in [Jobs -> Nat]
    <3>1. runs \in [Jobs -> Nat] /\ events \in [Jobs -> Nat]
      BY DEF TypeOK
    <3>2. \/ /\ events' = [events EXCEPT ![j] = runs[j] + 1]
             /\ runs' = [runs EXCEPT ![j] = runs[j] + 1]
          \/ events' = events /\ runs' = runs
      BY <2>1
    <3> HIDE DEF j
    <3>3. CASE events' = events /\ runs' = runs
      BY <3>1, <3>3
    <3>4. CASE /\ events' = [events EXCEPT ![j] = runs[j] + 1]
               /\ runs' = [runs EXCEPT ![j] = runs[j] + 1]
      BY <2>2, <3>1, <3>4
    <3> QED BY <3>2, <3>3, <3>4
  <2>9. /\ pc' \in [Workers -> Pcs] /\ job' \in [Workers -> Jobs \cup {None}]
        /\ \A v \in Workers : job'[v] = None <=> pc'[v] \in {"idle", "exited"}
    BY <2>1, <2>2, <2>7 DEF TypeOK, Pcs, Working
  <2> QED BY <2>4, <2>5, <2>6, <2>8, <2>9 DEF TypeOK, JobRecords
<1>12. ASSUME NEW w \in Workers, SkipStale(w) PROVE TypeOK'
  <2>1. /\ queue' = <<>> /\ phase' = phase /\ crashes' = crashes /\ mem' = mem
        /\ disk' = disk /\ pc' = pc /\ job' = job /\ watch' = watch
        /\ events' = events /\ signalled' = signalled /\ runs' = runs
        /\ faults' = faults
    BY <1>12 DEF SkipStale, process, thread, cancels
  <2>2. queue' \in Seq(Jobs)
    BY <2>1
  <2> QED BY <2>1, <2>2 DEF TypeOK
<1>13. ASSUME NEW w \in Workers, LeaveLoop(w) PROVE TypeOK'
  BY <1>13 DEF TypeOK, LeaveLoop, MoveTo, process, store, cancels, Pcs
<1>14. ASSUME NEW w \in Workers, BeginExecute(w) PROVE TypeOK'
  <2>1. job[w] \in Jobs
    BY <1>14 DEF TypeOK, BeginExecute
  <2> QED BY <1>14, <2>1
          DEF TypeOK, BeginExecute, process, store, cancels, Pcs, Working
<1>15. ASSUME NEW w \in Workers, SaveProgress(w) PROVE TypeOK'
  <2>1. job[w] \in Jobs
    BY <1>15 DEF TypeOK, SaveProgress
  <2> QED BY <1>0, <1>15, <2>1
          DEF TypeOK, SaveProgress, process, thread, cancels
<1>16. ASSUME NEW w \in Workers, PassLastCheck(w) PROVE TypeOK'
  BY <1>16 DEF TypeOK, PassLastCheck, MoveTo, process, store, cancels, Pcs, Working
<1>17. ASSUME NEW w \in Workers, PublishOutputs(w) PROVE TypeOK'
  BY <1>17 DEF TypeOK, PublishOutputs, MoveTo, process, store, cancels, Pcs, Working
<1>18. ASSUME NEW w \in Workers, ObserveCancel(w) PROVE TypeOK'
  <2>1. pc[w] \in Pcs \ {"idle", "exited"} /\ job[w] \in Jobs
    BY <1>18 DEF TypeOK, ObserveCancel, Pcs, Working
  <2>2. Cancelled(mem[job[w]]) \in Records
    BY <1>0, <2>1, RecordTypes
  <2> QED BY <1>18, <2>1, <2>2, RecordStepTypes
          DEF TypeOK, ObserveCancel, process, cancels, JobRecords
<1>19. ASSUME NEW w \in Workers, ExecuteFails(w) PROVE TypeOK'
  <2>1. pc[w] \in Pcs \ {"idle", "exited"} /\ job[w] \in Jobs
    BY <1>19 DEF TypeOK, ExecuteFails, Pcs, Working
  <2>2. PICK err \in Errors \ {"none"} :
          /\ Record(w, AfterFailure(mem[job[w]], err))
          /\ Enqueue(job[w]) \/ UNCHANGED queue
    BY <1>19 DEF ExecuteFails
  <2>3. AfterFailure(mem[job[w]], err) \in Records
    BY <1>0, <2>1, RecordTypes
  <2>4. queue' \in Seq(Jobs)
    BY <2>1, <2>2, EnqueueTypes DEF TypeOK
  <2> QED BY <1>19, <2>1, <2>2, <2>3, <2>4, RecordStepTypes
          DEF TypeOK, ExecuteFails, process, cancels, JobRecords
<1>20. ASSUME NEW w \in Workers, ExecuteReturns(w) PROVE TypeOK'
  <2>1. pc[w] \in Pcs \ {"idle", "exited"} /\ job[w] \in Jobs
    BY <1>20 DEF TypeOK, ExecuteReturns, Pcs, Working
  <2>2. AfterSuccess(mem[job[w]]) \in Records
    BY <1>0, <2>1, RecordTypes
  <2> QED BY <1>20, <2>1, <2>2, RecordStepTypes
          DEF TypeOK, ExecuteReturns, process, cancels, JobRecords
<1>21. ASSUME NEW w \in Workers, FailJob(w) PROVE TypeOK'
  <2>1. pc[w] = "raised" /\ MoveTo(w, "cleanup") /\ job[w] \in Jobs
    BY <1>21 DEF TypeOK, FailJob
  <2>2. Failed(mem[job[w]], "retryable") \in Records
    BY <1>0, <2>1, RecordTypes
  <2>3. mem' \in [Jobs -> JobRecords] /\ disk' \in [Jobs -> JobRecords]
        /\ faults' \in Nat
    <3>1. CASE mem[job[w]].state \in Terminal
      BY <1>0, <1>21, <3>1 DEF FailJob, TypeOK
    <3>2. CASE mem[job[w]].state \notin Terminal
      BY <1>21, <2>1, <2>2, <3>2, SaveTypes DEF FailJob
    <3> QED BY <3>1, <3>2
  <2>4. "cleanup" \in Pcs
    BY DEF Pcs
  <2> QED BY <1>21, <2>1, <2>3, <2>4, MoveTypes
          DEF TypeOK, FailJob, process, cancels, JobRecords
<1>22. ASSUME NEW w \in Workers, Cleanup(w) PROVE TypeOK'
  <2>1. job[w] \in Jobs
    BY <1>22 DEF TypeOK, Cleanup
  <2> QED BY <1>22, <2>1 DEF TypeOK, Cleanup, process, store, Pcs
<1> QED BY <1>1, <1>2, <1>3, <1>4, <1>5, <1>6, <1>7, <1>8, <1>9, <1>10, <1>11,
           <1>12, <1>13, <1>14, <1>15, <1>16, <1>17, <1>18, <1>19, <1>20,
           <1>21, <1>22
        DEF Next, Lifecycle, Client, Worker

\* The shape of the state holds in every reachable state, for any number of
\* jobs, threads, retries, crashes and failed saves.
THEOREM TypeCorrect == Spec => []TypeOK
<1>1. Init => TypeOK
  BY JobQueueAssumption
     DEF Init, TypeOK, Phases, Pcs, NoRecord, JobRecords
<1> QED BY <1>1, TypeStep, PTL DEF Spec

-----------------------------------------------------------------------------
(* The retry budget.  A record that is not queued may have been claimed    *)
(* once more than it was retried; requeueing pays for that claim.  Both    *)
(* copies of the record have to say so, because a crash continues from the *)
(* file and every other step from memory.                                  *)

Budget(r, n) ==
    /\ r.retries <= MaxRetries
    /\ n <= r.retries + IF r.state \in {"absent", "queued"} THEN 0 ELSE 1

Fresh(r) == r.state \in {"queued", "running"} => ~r.cancel

BudgetInv ==
    \A j \in Jobs :
        /\ Fresh(mem[j]) /\ Fresh(disk[j])
        /\ Budget(disk[j], runs[j])
        /\ phase # "down" => Budget(mem[j], runs[j])

\* No handler spends more than it has, and none queues a flagged record.
LEMMA BudgetKept ==
    ASSUME NEW r \in JobRecords, NEW n \in Nat, NEW err \in Errors,
           Budget(r, n), Fresh(r)
    PROVE  /\ Budget(Cancelled(r), n) /\ Fresh(Cancelled(r))
           /\ Budget(Cancelling(r), n) /\ Fresh(Cancelling(r))
           /\ Budget(Failed(r, err), n) /\ Fresh(Failed(r, err))
           /\ Budget(AfterSuccess(r), n) /\ Fresh(AfterSuccess(r))
           /\ Budget(AfterFailure(r, err), n) /\ Fresh(AfterFailure(r, err))
           /\ Budget(AfterCrash(r), n) /\ Fresh(AfterCrash(r))
           /\ r.retries < MaxRetries => Budget(Requeued(r), n)
           /\ Fresh(Requeued(r))
<1> USE JobQueueAssumption
<1>1. r.retries \in Nat /\ r.state \in States \cup {"absent"}
  <2>1. CASE r \in Records
    BY <2>1 DEF Records
  <2>2. CASE r = NoRecord
    BY <2>2 DEF NoRecord
  <2> QED BY <2>1, <2>2 DEF JobRecords
<1>2. r.retries <= MaxRetries /\ n <= r.retries + 1
  BY <1>1 DEF Budget
<1>3. ASSUME NEW s, s.retries = r.retries,
             s.state \in {"cancelling", "cancelled", "failed", "completed",
                          "interrupted"}
      PROVE  Budget(s, n) /\ Fresh(s)
  BY <1>2, <1>3 DEF Budget, Fresh
<1>4. DOMAIN r = {"state", "cancel", "retries", "error"}
  BY DEF JobRecords, Records, NoRecord
<1>5. /\ Cancelled(r).retries = r.retries /\ Cancelled(r).state = "cancelled"
      /\ Cancelling(r).retries = r.retries /\ Cancelling(r).state = "cancelling"
      /\ Failed(r, err).retries = r.retries /\ Failed(r, err).state = "failed"
      /\ Completed(r).retries = r.retries /\ Completed(r).state = "completed"
      /\ Interrupted(r).retries = r.retries
      /\ Interrupted(r).state = "interrupted"
  BY <1>4 DEF Cancelled, Cancelling, Failed, Completed, Interrupted
<1>6. /\ Budget(Cancelled(r), n) /\ Fresh(Cancelled(r))
      /\ Budget(Cancelling(r), n) /\ Fresh(Cancelling(r))
      /\ Budget(Failed(r, err), n) /\ Fresh(Failed(r, err))
      /\ Budget(Completed(r), n) /\ Fresh(Completed(r))
      /\ Budget(Interrupted(r), n) /\ Fresh(Interrupted(r))
  BY <1>3, <1>5
<1>7. Fresh(Requeued(r))
  BY DEF Fresh, Requeued
<1>8. r.retries < MaxRetries => Budget(Requeued(r), n)
  BY <1>1, <1>2 DEF Budget, Requeued
<1> QED BY <1>6, <1>7, <1>8
        DEF AfterSuccess, AfterFailure, AutoRetried, AfterCrash

\* A save, successful or not, of a record within its budget.
LEMMA SaveBudget ==
    ASSUME TypeOK, BudgetInv, NEW j \in Jobs, NEW r,
           Save(j, r) \/ SaveFails(j, r),
           Budget(r, runs[j]), Fresh(r), runs' = runs,
           phase # "down"
    PROVE  BudgetInv'
<1>1. \A k \in Jobs : /\ mem'[k] = IF k = j THEN r ELSE mem[k]
                      /\ disk'[k] \in {r, disk[k]}
                      /\ k # j => disk'[k] = disk[k]
  BY DEF TypeOK, Save, SaveFails
<1> SUFFICES ASSUME NEW k \in Jobs
             PROVE  /\ Fresh(mem'[k]) /\ Fresh(disk'[k])
                    /\ Budget(disk'[k], runs[k])
                    /\ Budget(mem'[k], runs[k])
  BY DEF BudgetInv
<1>2. CASE k = j
  BY <1>1, <1>2 DEF BudgetInv
<1>3. CASE k # j
  BY <1>1, <1>3 DEF BudgetInv
<1> QED BY <1>2, <1>3

\* A step that touches neither copy of a record, nor the claims.
LEMMA BudgetUntouched ==
    ASSUME BudgetInv, mem' = mem, disk' = disk, runs' = runs,
           phase' = "down" \/ phase # "down"
    PROVE  BudgetInv'
  BY DEF BudgetInv

THEOREM BudgetStep == TypeOK /\ BudgetInv /\ [Next]_vars => BudgetInv'
<1> SUFFICES ASSUME TypeOK, BudgetInv, [Next]_vars PROVE BudgetInv'
  OBVIOUS
<1> USE JobQueueAssumption
<1>a. \A j \in Jobs : mem[j] \in JobRecords /\ disk[j] \in JobRecords
                      /\ runs[j] \in Nat
  BY DEF TypeOK, JobRecords
<1>b. "retryable" \in Errors
  BY DEF Errors
<1>c. \A j \in Jobs : phase # "down" => Budget(mem[j], runs[j]) /\ Fresh(mem[j])
  BY DEF BudgetInv
<1>d. \A w \in Workers : pc[w] # "exited" => phase \in {"serving", "stopping"}
  BY DEF TypeOK, Alive
<1>1. CASE UNCHANGED vars
  BY <1>1, BudgetUntouched DEF vars, process, store, BudgetInv
<1>2. CASE Start
  BY <1>2 DEF Start, BudgetInv
<1>3. ASSUME NEW j \in Jobs, Recover(j) PROVE BudgetInv'
  <2>1. Budget(AfterCrash(mem[j]), runs[j]) /\ Fresh(AfterCrash(mem[j]))
    BY <1>3, <1>a, <1>b, <1>c, BudgetKept DEF Recover
  <2> QED BY <1>3, <2>1, SaveBudget DEF Recover
<1>4. CASE FinishStart \/ Stop
  BY <1>4, BudgetUntouched DEF FinishStart, Stop, store
<1>5. CASE ProcessExit
  <2>1. \A j \in Jobs : Fresh(mem'[j])
    BY <1>5 DEF ProcessExit, Fresh, NoRecord
  <2> QED BY <1>5, <2>1 DEF ProcessExit, BudgetInv
<1>6. ASSUME NEW j \in Jobs, Submit(j) PROVE BudgetInv'
  <2>1. Budget(NewRecord, runs[j]) /\ Fresh(NewRecord)
    BY <1>6, <1>a, <1>c DEF Submit, Budget, Fresh, NewRecord, NoRecord
  <2> QED BY <1>6, <2>1, SaveBudget DEF Submit
<1>7. ASSUME NEW j \in Jobs, CancelQueued(j) \/ CancelRunning(j) PROVE BudgetInv'
  <2>1. phase # "down" /\ runs' = runs
    BY <1>7 DEF CancelQueued, CancelRunning, Alive
  <2>2. /\ Budget(Cancelled(mem[j]), runs[j]) /\ Fresh(Cancelled(mem[j]))
        /\ Budget(Cancelling(mem[j]), runs[j]) /\ Fresh(Cancelling(mem[j]))
    BY <2>1, <1>a, <1>b, <1>c, BudgetKept
  <2> QED BY <1>7, <2>1, <2>2, SaveBudget DEF CancelQueued, CancelRunning
<1>8. ASSUME NEW j \in Jobs, Retry(j) PROVE BudgetInv'
  <2>1. Budget(Requeued(mem[j]), runs[j]) /\ Fresh(Requeued(mem[j]))
    BY <1>8, <1>a, <1>b, <1>c, BudgetKept DEF Retry, CanRetry
  <2> QED BY <1>8, <2>1, SaveBudget DEF Retry
<1>9. ASSUME NEW w \in Workers, Claim(w) PROVE BudgetInv'
  <2>1. PICK n \in 1..Len(queue) :
          /\ mem[queue[n]].state = "queued"
          /\ \/ /\ Save(queue[n], Claimed(mem[queue[n]]))
                /\ runs' = [runs EXCEPT ![queue[n]] = @ + 1]
             \/ /\ SaveFails(queue[n], Claimed(mem[queue[n]]))
                /\ runs' = runs
    BY <1>9 DEF Claim, FirstQueued
  <2> DEFINE j == queue[n]
             r == Claimed(mem[j])
  <2>2. j \in Jobs /\ phase' = phase /\ phase # "down"
    BY <1>9 DEF TypeOK, Claim, process
  <2>3. DOMAIN mem[j] = {"state", "cancel", "retries", "error"}
        /\ mem[j].retries \in Nat
    BY <1>a, <2>2 DEF JobRecords, Records, NoRecord
  <2>4. r.state = "running" /\ r.retries = mem[j].retries /\ r.cancel = mem[j].cancel
    BY <2>3 DEF Claimed
  <2>5. Fresh(r) /\ Budget(r, runs[j] + 1) /\ Budget(r, runs[j])
    <3>1. mem[j].retries <= MaxRetries /\ runs[j] <= mem[j].retries /\ ~mem[j].cancel
      BY <1>a, <1>c, <2>1, <2>2, <2>3 DEF Budget, Fresh
    <3> QED BY <1>a, <2>2, <2>3, <2>4, <3>1 DEF Budget, Fresh
  <2>6. CASE Save(j, r) /\ runs' = [runs EXCEPT ![j] = @ + 1]
    <3> SUFFICES ASSUME NEW k \in Jobs
                 PROVE  /\ Fresh(mem'[k]) /\ Fresh(disk'[k])
                        /\ Budget(disk'[k], runs'[k])
                        /\ Budget(mem'[k], runs'[k])
      BY DEF BudgetInv
    <3>1. /\ mem'[k] = IF k = j THEN r ELSE mem[k]
          /\ disk'[k] = IF k = j THEN r ELSE disk[k]
          /\ runs'[k] = IF k = j THEN runs[j] + 1 ELSE runs[k]
      BY <2>2, <2>6 DEF TypeOK, Save
    <3> QED BY <1>c, <2>2, <2>5, <3>1 DEF BudgetInv
  <2>7. CASE SaveFails(j, r) /\ runs' = runs
    BY <2>2, <2>5, <2>7, SaveBudget
  <2> QED BY <2>1, <2>6, <2>7
<1>10. ASSUME NEW w \in Workers,
              SkipStale(w) \/ LeaveLoop(w) \/ BeginExecute(w)
              \/ PassLastCheck(w) \/ PublishOutputs(w) \/ Cleanup(w)
       PROVE  BudgetInv'
  <2>1. mem' = mem /\ disk' = disk /\ runs' = runs /\ phase' = phase
    BY <1>10 DEF SkipStale, LeaveLoop, BeginExecute, PassLastCheck,
                 PublishOutputs, Cleanup, process, store
  <2> QED BY <2>1 DEF BudgetInv
<1>11. ASSUME NEW w \in Workers, SaveProgress(w) PROVE BudgetInv'
  <2>1. job[w] \in Jobs /\ phase # "down"
    BY <1>11, <1>d DEF TypeOK, SaveProgress
  <2> QED BY <1>11, <2>1, <1>c DEF SaveProgress, BudgetInv, TypeOK, process
<1>12. ASSUME NEW w \in Workers,
              ObserveCancel(w) \/ ExecuteFails(w) \/ ExecuteReturns(w)
       PROVE  BudgetInv'
  <2>1. job[w] \in Jobs /\ phase # "down" /\ runs' = runs
    BY <1>12, <1>d DEF TypeOK, ObserveCancel, ExecuteFails, ExecuteReturns
  <2>2. PICK r : Record(w, r) /\ Budget(r, runs[job[w]]) /\ Fresh(r)
    BY <1>12, <2>1, <1>a, <1>b, <1>c, BudgetKept
       DEF ObserveCancel, ExecuteFails, ExecuteReturns
  <2> QED BY <2>1, <2>2, SaveBudget DEF Record
<1>13. ASSUME NEW w \in Workers, FailJob(w) PROVE BudgetInv'
  <2>1. job[w] \in Jobs /\ phase # "down" /\ phase' = phase /\ runs' = runs
    BY <1>13, <1>d DEF TypeOK, FailJob, process
  <2>2. Budget(Failed(mem[job[w]], "retryable"), runs[job[w]])
        /\ Fresh(Failed(mem[job[w]], "retryable"))
    BY <2>1, <1>a, <1>b, <1>c, BudgetKept
  <2>3. CASE mem[job[w]].state \in Terminal
    BY <1>13, <2>1, <2>3, BudgetUntouched DEF FailJob
  <2>4. CASE mem[job[w]].state \notin Terminal
    BY <1>13, <2>1, <2>2, <2>4, SaveBudget DEF FailJob
  <2> QED BY <2>3, <2>4
<1> QED BY <1>1, <1>2, <1>3, <1>4, <1>5, <1>6, <1>7, <1>8, <1>9, <1>10, <1>11,
           <1>12, <1>13
        DEF Next, Lifecycle, Client, Worker

LEMMA BudgetAlways == Spec => [](TypeOK /\ BudgetInv)
<1>1. Init => BudgetInv
  BY JobQueueAssumption DEF Init, BudgetInv, Budget, Fresh, NoRecord
<1> QED BY <1>1, TypeCorrect, BudgetStep, PTL DEF Spec

\* A job is executed at most MaxRetries + 1 times in its whole life: client
\* retries, automatic retries and requeues after a crash share one budget,
\* and neither crashes nor failed saves can reset it.
THEOREM RetryBudget == Spec => []RunBudget
<1>1. TypeOK /\ BudgetInv => RunBudget
  <2> SUFFICES ASSUME TypeOK, BudgetInv, NEW j \in Jobs
               PROVE  runs[j] <= MaxRetries + 1
    BY DEF RunBudget
  <2>1. disk[j].retries \in Nat /\ runs[j] \in Nat
    BY DEF TypeOK, Records, NoRecord
  <2>2. disk[j].retries <= MaxRetries /\ runs[j] <= disk[j].retries + 1
    BY <2>1 DEF BudgetInv, Budget
  <2> QED BY <2>1, <2>2, JobQueueAssumption
<1> QED BY <1>1, BudgetAlways, PTL

\* No reachable record, in memory or on disk, is queued and flagged for
\* cancellation: the claim's branch for one is dead code.
THEOREM QueuedRecordsAreFresh == Spec => []QueuedIsFresh
<1>1. BudgetInv => QueuedIsFresh
  BY DEF BudgetInv, Fresh, QueuedIsFresh
<1> QED BY <1>1, BudgetAlways, PTL

-----------------------------------------------------------------------------
(* Ownership, while every save has succeeded.  The two copies of a record  *)
(* agree; a job is in progress exactly while one thread works on it; the   *)
(* FIFO is exactly the set of queued jobs.  Each part needs the others: a  *)
(* claim takes a job no thread holds because the FIFO holds only queued    *)
(* jobs, and an outcome is recorded for a job still in progress because    *)
(* nobody else works on it.                                                *)

Works(w, j) == pc[w] \in Working /\ job[w] = j

Ownership ==
    /\ phase # "down" => mem = disk
    /\ \A w \in Workers : pc[w] # "raised"
    /\ \A w \in Workers :
         pc[w] \in Working => mem[job[w]].state \in InProgress
    /\ \A v, w \in Workers :
         (v # w /\ pc[v] \in Working /\ pc[w] \in Working) => job[v] # job[w]
    /\ Alive => \A j \in Jobs :
         mem[j].state \in InProgress => \E w \in Workers : Works(w, j)
    /\ Alive => ToSet(queue) = QueuedJobs /\ IsInjective(queue)

OwnInv == faults = 0 => Ownership

\* The FIFO as a set, under the three ways it changes.
LEMMA AppendSet ==
    ASSUME NEW S, NEW s \in Seq(S), NEW e \in S, IsInjective(s), e \notin ToSet(s)
    PROVE  ToSet(Append(s, e)) = ToSet(s) \cup {e} /\ IsInjective(Append(s, e))
<1> DEFINE t == Append(s, e)
<1>1. /\ Len(t) = Len(s) + 1 /\ DOMAIN t = 1..(Len(s) + 1)
      /\ DOMAIN s = 1..Len(s) /\ Len(s) \in Nat
      /\ \A k \in 1..Len(s) : t[k] = s[k]
      /\ t[Len(s) + 1] = e
  OBVIOUS
<1>2. ToSet(t) = ToSet(s) \cup {e}
  <2>1. ASSUME NEW x \in ToSet(t) PROVE x \in ToSet(s) \cup {e}
    BY <1>1, <2>1 DEF ToSet
  <2>2. ASSUME NEW x \in ToSet(s) PROVE x \in ToSet(t)
    <3>1. PICK k \in 1..Len(s) : x = s[k]
      BY <1>1 DEF ToSet
    <3>2. k \in DOMAIN t /\ t[k] = x
      BY <1>1, <3>1
    <3> QED BY <3>2 DEF ToSet
  <2>3. e \in ToSet(t)
    <3>1. Len(s) + 1 \in DOMAIN t
      BY <1>1
    <3> QED BY <1>1, <3>1 DEF ToSet
  <2> QED BY <2>1, <2>2, <2>3
<1>3. IsInjective(t)
  <2> SUFFICES ASSUME NEW a \in DOMAIN t, NEW b \in DOMAIN t, t[a] = t[b]
               PROVE  a = b
    BY DEF IsInjective
  <2>1. \A k \in 1..Len(s) : s[k] # e
    BY <1>1 DEF ToSet
  <2>2. \A k, l \in 1..Len(s) : s[k] = s[l] => k = l
    BY <1>1 DEF IsInjective
  <2> HIDE DEF t
  <2> QED BY <1>1, <2>1, <2>2
<1> QED BY <1>2, <1>3

LEMMA RemoveSet ==
    ASSUME NEW S, NEW s \in Seq(S), NEW i \in 1..Len(s), IsInjective(s)
    PROVE  /\ ToSet(RemoveAt(s, i)) = ToSet(s) \ {s[i]}
           /\ IsInjective(RemoveAt(s, i))
<1> DEFINE t == RemoveAt(s, i)
<1>1. /\ DOMAIN t = 1..(Len(s) - 1) /\ DOMAIN s = 1..Len(s) /\ Len(s) \in Nat
      /\ \A k \in 1..(Len(s) - 1) : t[k] = IF k < i THEN s[k] ELSE s[k + 1]
  <2>1. t \in Seq(S) /\ Len(t) = Len(s) - 1
    BY RemoveAtFacts
  <2>2. DOMAIN t = 1..(Len(s) - 1)
    BY <2>1
  <2> HIDE DEF t
  <2> QED BY <2>2, RemoveAtFacts, SMTT(30) DEF t
<1>2. \A k, l \in 1..Len(s) : s[k] = s[l] => k = l
  BY <1>1 DEF IsInjective
<1> HIDE DEF t
<1>3. ASSUME NEW x \in ToSet(t) PROVE x \in ToSet(s) \ {s[i]}
  <2>1. PICK k \in 1..(Len(s) - 1) : x = t[k]
    BY <1>1 DEF ToSet
  <2>2. PICK l \in 1..Len(s) : l # i /\ x = s[l]
    <3>1. CASE k < i
      BY <1>1, <2>1, <3>1
    <3>2. CASE ~(k < i)
      <4>1. k + 1 \in 1..Len(s) /\ k + 1 # i /\ x = s[k + 1]
        BY <1>1, <2>1, <3>2
      <4> QED BY <4>1
    <3> QED BY <3>1, <3>2
  <2>3. x # s[i]
    BY <1>2, <2>2
  <2> QED BY <1>1, <2>2, <2>3 DEF ToSet
<1>4. ASSUME NEW x \in ToSet(s) \ {s[i]} PROVE x \in ToSet(t)
  <2>1. PICK k \in 1..Len(s) : x = s[k] /\ k # i
    BY <1>1 DEF ToSet
  <2>2. PICK l \in 1..(Len(s) - 1) : t[l] = x
    <3>1. CASE k < i
      <4>1. k \in 1..(Len(s) - 1) /\ t[k] = x
        BY <1>1, <2>1, <3>1
      <4> QED BY <4>1
    <3>2. CASE ~(k < i)
      <4>1. k - 1 \in 1..(Len(s) - 1) /\ ~(k - 1 < i) /\ (k - 1) + 1 = k
        BY <1>1, <2>1, <3>2
      <4>2. t[k - 1] = x
        BY <1>1, <2>1, <4>1
      <4> QED BY <4>1, <4>2
    <3> QED BY <3>1, <3>2
  <2> QED BY <1>1, <2>2 DEF ToSet
<1>5. IsInjective(t)
  <2> SUFFICES ASSUME NEW a \in DOMAIN t, NEW b \in DOMAIN t, t[a] = t[b]
               PROVE  a = b
    BY DEF IsInjective
  <2> DEFINE up(k) == IF k < i THEN k ELSE k + 1
  <2>1. up(a) \in 1..Len(s) /\ up(b) \in 1..Len(s)
        /\ t[a] = s[up(a)] /\ t[b] = s[up(b)]
    BY <1>1
  <2>2. up(a) = up(b)
    BY <1>2, <2>1
  <2> QED BY <1>1, <2>2
<1> QED BY <1>3, <1>4, <1>5 DEF t

LEMMA RestSet ==
    ASSUME NEW S, NEW s \in Seq(S), NEW n \in 1..Len(s), n = 1,
           IsInjective(s)
    PROVE  /\ ToSet(SubSeq(s, n + 1, Len(s))) = ToSet(s) \ {s[n]}
           /\ IsInjective(SubSeq(s, n + 1, Len(s)))
<1> DEFINE t == SubSeq(s, n + 1, Len(s))
<1>1. /\ DOMAIN t = 1..(Len(s) - 1) /\ DOMAIN s = 1..Len(s) /\ Len(s) \in Nat
      /\ \A k \in 1..(Len(s) - 1) : t[k] = s[k + 1]
  <2>1. t \in Seq(S) /\ Len(t) = Len(s) - n
        /\ \A k \in 1..(Len(s) - n) : t[k] = s[n + k]
    BY SuffixFacts
  <2> HIDE DEF t
  <2> QED BY <2>1
<1>2. \A k, l \in 1..Len(s) : s[k] = s[l] => k = l
  BY <1>1 DEF IsInjective
<1> HIDE DEF t
<1>3. ASSUME NEW x \in ToSet(t) PROVE x \in ToSet(s) \ {s[1]}
  <2>1. PICK k \in 1..(Len(s) - 1) : x = t[k]
    BY <1>1 DEF ToSet
  <2>2. k + 1 \in 1..Len(s) /\ k + 1 # 1 /\ x = s[k + 1]
    BY <1>1, <2>1
  <2> QED BY <1>1, <1>2, <2>2 DEF ToSet
<1>4. ASSUME NEW x \in ToSet(s) \ {s[1]} PROVE x \in ToSet(t)
  <2>1. PICK k \in 1..Len(s) : x = s[k] /\ k # 1
    BY <1>1 DEF ToSet
  <2>2. k - 1 \in 1..(Len(s) - 1) /\ t[k - 1] = x
    BY <1>1, <2>1
  <2> QED BY <1>1, <2>2 DEF ToSet
<1>5. IsInjective(t)
  <2> SUFFICES ASSUME NEW a \in DOMAIN t, NEW b \in DOMAIN t, t[a] = t[b]
               PROVE  a = b
    BY DEF IsInjective
  <2>1. a + 1 \in 1..Len(s) /\ b + 1 \in 1..Len(s) /\ s[a + 1] = s[b + 1]
    BY <1>1
  <2> QED BY <1>1, <1>2, <2>1
<1> QED BY <1>3, <1>4, <1>5 DEF t

\* A step that leaves records and FIFO alone and neither gives a thread a
\* job nor takes one away.
LEMMA OwnFrame ==
    ASSUME Ownership, mem' = mem, disk' = disk, queue' = queue,
           Alive' => Alive, phase' # "down" => phase # "down",
           \A w \in Workers : pc'[w] # "raised",
           \A w \in Workers : pc'[w] \in Working <=> pc[w] \in Working,
           \A w \in Workers : pc[w] \in Working => job'[w] = job[w]
    PROVE  Ownership'
  BY DEF Ownership, Works, QueuedJobs

\* A request that rewrites the record of j without moving it into or out of
\* the states in progress.
LEMMA OwnRequest ==
    ASSUME TypeOK, Ownership, NEW j \in Jobs, NEW r, Save(j, r), UNCHANGED thread,
           UNCHANGED process, Alive,
           mem[j].state \in InProgress <=> r.state \in InProgress,
           ToSet(queue') = IF r.state = "queued" THEN QueuedJobs \cup {j}
                                                 ELSE QueuedJobs \ {j},
           IsInjective(queue')
    PROVE  Ownership'
<1>1. /\ \A k \in Jobs : mem'[k] = IF k = j THEN r ELSE mem[k]
      /\ phase # "down" /\ mem' = disk' /\ pc' = pc /\ job' = job
      /\ phase' = phase
  BY DEF TypeOK, Save, Ownership, Alive, thread, process
<1>2. \A w \in Workers : pc[w] \in Working => job[w] \in Jobs
  BY DEF TypeOK, Working
<1>3. \A w \in Workers : pc'[w] \in Working => mem'[job'[w]].state \in InProgress
  BY <1>1, <1>2 DEF Ownership
<1>4. \A k \in Jobs : mem'[k].state \in InProgress
                        => \E w \in Workers : Works(w, k)'
  BY <1>1 DEF Ownership, Works
<1>5. ToSet(queue') = QueuedJobs'
  BY <1>1 DEF QueuedJobs
<1> QED BY <1>1, <1>3, <1>4, <1>5 DEF Ownership

\* The thread w records the outcome r of its job and has nothing more to do
\* with it.
LEMMA OwnOutcome ==
    ASSUME TypeOK, Ownership, NEW w \in Workers, pc[w] \in Working,
           NEW r, Save(job[w], r), MoveTo(w, "cleanup"), UNCHANGED process,
           r.state \notin InProgress,
           IF r.state = "queued" THEN Enqueue(job[w]) ELSE UNCHANGED queue
    PROVE  Ownership'
<1> DEFINE j == job[w]
<1>1. j \in Jobs /\ Alive
  BY DEF TypeOK, Working
<1>2. /\ \A k \in Jobs : mem'[k] = IF k = j THEN r ELSE mem[k]
      /\ mem' = disk' /\ phase' = phase /\ job' = job
      /\ \A v \in Workers : pc'[v] = IF v = w THEN "cleanup" ELSE pc[v]
  BY <1>1 DEF TypeOK, Save, Ownership, Alive, MoveTo, process
<1>3. mem[j].state \in InProgress /\ j \notin QueuedJobs
  BY <1>1 DEF Ownership, QueuedJobs, InProgress
<1>4. \A v \in Workers : pc'[v] \in Working => /\ v # w /\ pc[v] \in Working
                                               /\ job[v] \in Jobs /\ job[v] # j
  BY <1>2 DEF Working, Ownership, TypeOK
<1>5. \A v \in Workers : pc'[v] \in Working => mem'[job'[v]].state \in InProgress
  BY <1>2, <1>4 DEF Ownership
<1>6. \A k \in Jobs : mem'[k].state \in InProgress
                        => \E v \in Workers : Works(v, k)'
  BY <1>1, <1>2 DEF Ownership, Works
<1>7. ToSet(queue') = QueuedJobs' /\ IsInjective(queue')
  <2>1. ToSet(queue) = QueuedJobs /\ IsInjective(queue) /\ queue \in Seq(Jobs)
    BY <1>1 DEF Ownership, TypeOK
  <2>2. CASE r.state = "queued"
    <3>1. queue' = Append(queue, j)
      BY <1>3, <2>1, <2>2 DEF Enqueue, Contains, ToSet
    <3>2. QueuedJobs' = QueuedJobs \cup {j}
      BY <1>1, <1>2, <2>2 DEF QueuedJobs
    <3> QED BY <1>1, <1>3, <2>1, <3>1, <3>2, AppendSet
  <2>3. CASE r.state # "queued"
    <3>1. QueuedJobs' = QueuedJobs
      BY <1>1, <1>2, <1>3, <2>3 DEF QueuedJobs
    <3> QED BY <2>1, <2>3, <3>1
  <2> QED BY <2>2, <2>3
<1>8. \A v \in Workers : pc'[v] # "raised"
  BY <1>2 DEF Ownership
<1>9. \A u, v \in Workers :
        (u # v /\ pc'[u] \in Working /\ pc'[v] \in Working) => job'[u] # job'[v]
  BY <1>2, <1>4 DEF Ownership
<1> QED BY <1>1, <1>2, <1>5, <1>6, <1>7, <1>8, <1>9 DEF Ownership

\* Appending a job that is not queued, as Submit and Retry do.
LEMMA EnqueueSet ==
    ASSUME TypeOK, Ownership, Alive, NEW j \in Jobs, Enqueue(j),
           mem[j].state # "queued"
    PROVE  ToSet(queue') = QueuedJobs \cup {j} /\ IsInjective(queue')
<1>1. ToSet(queue) = QueuedJobs /\ IsInjective(queue) /\ queue \in Seq(Jobs)
  BY DEF Ownership, TypeOK
<1>2. j \notin ToSet(queue)
  BY <1>1 DEF QueuedJobs
<1>3. queue' = Append(queue, j)
  BY <1>1, <1>2 DEF Enqueue, Contains, ToSet
<1> QED BY <1>1, <1>2, <1>3, AppendSet

LEMMA OwnClaim ==
    ASSUME TypeOK, Ownership, NEW w \in Workers, Claim(w), faults' = 0
    PROVE  Ownership'
<1>1. PICK n \in 1..Len(queue) :
        /\ \A i \in 1..(n - 1) : mem[queue[i]].state # "queued"
        /\ queue' = SubSeq(queue, n + 1, Len(queue))
        /\ \/ /\ Save(queue[n], Claimed(mem[queue[n]]))
              /\ pc' = [pc EXCEPT ![w] = "claimed"]
              /\ job' = [job EXCEPT ![w] = queue[n]]
           \/ SaveFails(queue[n], Claimed(mem[queue[n]]))
  BY DEF Claim, FirstQueued
<1> DEFINE j == queue[n]
           r == Claimed(mem[j])
<1>2. /\ j \in Jobs /\ phase' = phase /\ Alive /\ pc[w] = "idle"
      /\ queue \in Seq(Jobs) /\ DOMAIN queue = 1..Len(queue)
      /\ faults \in Nat
  BY DEF TypeOK, Claim, process, Alive
<1>3. ToSet(queue) = QueuedJobs /\ IsInjective(queue)
  BY <1>2 DEF Ownership
<1>4. \A i \in 1..Len(queue) : mem[queue[i]].state = "queued"
  BY <1>2, <1>3 DEF ToSet, QueuedJobs
<1>5. n = 1
  <2>1. 1 \in 1..Len(queue)
    BY <1>2
  <2> QED BY <1>1, <1>4, <2>1
<1>6. /\ Save(j, r) /\ pc' = [pc EXCEPT ![w] = "claimed"]
      /\ job' = [job EXCEPT ![w] = j]
  BY <1>1, <1>2 DEF SaveFails
<1>7. r.state = "running" /\ mem[j].state = "queued"
  <2>1. mem[j].state = "queued" /\ mem[j] \in JobRecords
    BY <1>2, <1>4 DEF TypeOK, JobRecords
  <2> QED BY <2>1 DEF Claimed, JobRecords, Records, NoRecord
<1>8. /\ \A k \in Jobs : mem'[k] = IF k = j THEN r ELSE mem[k]
      /\ mem' = disk'
      /\ \A v \in Workers : /\ pc'[v] = IF v = w THEN "claimed" ELSE pc[v]
                            /\ job'[v] = IF v = w THEN j ELSE job[v]
  BY <1>2, <1>6 DEF TypeOK, Save, Ownership, Alive
<1>9. \A v \in Workers : pc[v] \in Working => job[v] \in Jobs /\ job[v] # j
  BY <1>7 DEF TypeOK, Ownership, Working, InProgress
<1>10. \A v \in Workers : /\ pc'[v] # "raised"
                          /\ pc'[v] \in Working => mem'[job'[v]].state \in InProgress
  BY <1>2, <1>7, <1>8, <1>9 DEF Ownership, InProgress
<1>11. \A u, v \in Workers :
        (u # v /\ pc'[u] \in Working /\ pc'[v] \in Working) => job'[u] # job'[v]
  BY <1>8, <1>9 DEF Ownership
<1>12. \A k \in Jobs : mem'[k].state \in InProgress
                         => \E v \in Workers : Works(v, k)'
  <2> SUFFICES ASSUME NEW k \in Jobs, mem'[k].state \in InProgress
               PROVE  \E v \in Workers : pc'[v] \in Working /\ job'[v] = k
    BY DEF Works
  <2>1. CASE k = j
    BY <1>8, <2>1 DEF Working
  <2>2. CASE k # j
    <3>1. PICK v \in Workers : pc[v] \in Working /\ job[v] = k
      BY <1>2, <1>8, <2>2 DEF Ownership, Works
    <3>2. v # w
      BY <1>2, <3>1 DEF Working
    <3> QED BY <1>8, <3>1, <3>2
  <2> QED BY <2>1, <2>2
<1>13. ToSet(queue') = QueuedJobs' /\ IsInjective(queue')
  <2>1. ToSet(queue') = QueuedJobs \ {j} /\ IsInjective(queue')
    BY <1>1, <1>2, <1>3, <1>5, RestSet
  <2>2. QueuedJobs' = QueuedJobs \ {j}
    BY <1>7, <1>8 DEF QueuedJobs
  <2> QED BY <2>1, <2>2
<1> QED BY <1>8, <1>10, <1>11, <1>12, <1>13 DEF Ownership

\* The thread's outcome, for the three ways an execution ends.
LEMMA OwnExecution ==
    ASSUME TypeOK, Ownership, NEW w \in Workers, faults' = 0,
           ObserveCancel(w) \/ ExecuteFails(w) \/ ExecuteReturns(w)
    PROVE  Ownership'
<1>1. pc[w] \in Working /\ UNCHANGED process /\ job[w] \in Jobs /\ faults \in Nat
  BY DEF ObserveCancel, ExecuteFails, ExecuteReturns, Working, TypeOK
<1>2. mem[job[w]] \in JobRecords
  BY <1>1 DEF TypeOK, JobRecords
<1>3. \A r : Record(w, r) => Save(job[w], r) /\ MoveTo(w, "cleanup")
  BY <1>1 DEF Record, SaveFails
<1>4. DOMAIN mem[job[w]] = {"state", "cancel", "retries", "error"}
  BY <1>2 DEF JobRecords, Records, NoRecord
<1>5. /\ Cancelled(mem[job[w]]).state = "cancelled"
      /\ Completed(mem[job[w]]).state = "completed"
      /\ Requeued(mem[job[w]]).state = "queued"
      /\ \A err : Failed(mem[job[w]], err).state = "failed"
  BY <1>4 DEF Cancelled, Completed, Requeued, Failed
<1>6. CASE ObserveCancel(w)
  <2>1. Save(job[w], Cancelled(mem[job[w]])) /\ MoveTo(w, "cleanup")
        /\ UNCHANGED queue
    BY <1>3, <1>6 DEF ObserveCancel
  <2> QED BY <1>1, <1>5, <2>1, OwnOutcome DEF InProgress
<1>7. CASE ExecuteReturns(w)
  <2>1. Save(job[w], AfterSuccess(mem[job[w]])) /\ MoveTo(w, "cleanup")
        /\ UNCHANGED queue
    BY <1>3, <1>7 DEF ExecuteReturns
  <2>2. AfterSuccess(mem[job[w]]).state \in {"cancelled", "completed"}
    BY <1>5 DEF AfterSuccess
  <2> QED BY <1>1, <2>1, <2>2, OwnOutcome DEF InProgress
<1>8. CASE ExecuteFails(w)
  <2>1. PICK err \in Errors \ {"none"} :
          /\ Record(w, AfterFailure(mem[job[w]], err))
          /\ IF AutoRetried(mem[job[w]], err) /\ pc'[w] = "cleanup"
             THEN Enqueue(job[w]) ELSE UNCHANGED queue
    BY <1>8 DEF ExecuteFails
  <2> DEFINE r == AfterFailure(mem[job[w]], err)
  <2>2. Save(job[w], r) /\ MoveTo(w, "cleanup")
    BY <1>3, <2>1
  <2>3. pc'[w] = "cleanup"
    BY <2>2 DEF MoveTo, TypeOK
  <2>4. /\ r.state \in {"cancelled", "queued", "failed"}
        /\ r.state = "queued" <=> AutoRetried(mem[job[w]], err)
    BY <1>5 DEF AfterFailure, AutoRetried
  <2>5. IF r.state = "queued" THEN Enqueue(job[w]) ELSE UNCHANGED queue
    BY <2>1, <2>3, <2>4
  <2>6. r.state \notin InProgress
    BY <2>4 DEF InProgress
  <2> HIDE DEF r
  <2> QED BY <1>1, <2>2, <2>5, <2>6, OwnOutcome
<1> QED BY <1>6, <1>7, <1>8

THEOREM OwnStep == TypeOK /\ OwnInv /\ [Next]_vars => OwnInv'
<1> SUFFICES ASSUME TypeOK, OwnInv, [Next]_vars, faults' = 0 PROVE Ownership'
  BY DEF OwnInv
<1> USE JobQueueAssumption
<1>a. faults \in Nat
  BY DEF TypeOK
<1>b. faults' = faults \/ faults' = faults + 1
  BY DEF Next, Lifecycle, Client, Worker, vars, Start, Recover, FinishStart,
         Stop, ProcessExit, Submit, CancelQueued, CancelRunning, Retry, Claim,
         SkipStale, LeaveLoop, BeginExecute, SaveProgress, PassLastCheck,
         PublishOutputs, Record, ObserveCancel, ExecuteFails, ExecuteReturns,
         FailJob, Cleanup, Save, SaveFails
<1>c. faults = 0 /\ Ownership
  BY <1>a, <1>b DEF OwnInv
<1>d. \A j, r : ~SaveFails(j, r)
  BY <1>c DEF SaveFails
<1>e. \A j \in Jobs : mem[j] \in JobRecords
                      /\ DOMAIN mem[j] = {"state", "cancel", "retries", "error"}
  BY DEF TypeOK, JobRecords, Records, NoRecord
<1>f. ~Alive => \A w \in Workers : pc[w] \notin Working
  BY DEF TypeOK, Working
<1>g. \A w \in Workers : pc[w] # "raised"
  BY <1>c DEF Ownership
<1>1. CASE UNCHANGED vars
  BY <1>1, <1>c, <1>g, OwnFrame DEF vars, process, store, thread, Alive
<1>2. CASE Start
  BY <1>2, <1>c, <1>f DEF Start, Ownership, Alive, thread
<1>3. ASSUME NEW j \in Jobs, Recover(j) PROVE Ownership'
  <2>1. phase = "recovering" /\ phase' = phase /\ mem' = disk' /\ pc' = pc
    BY <1>3, <1>c, <1>d DEF Recover, Save, Ownership, thread
  <2> QED BY <1>c, <1>f, <2>1 DEF Ownership, Alive
<1>4. CASE FinishStart
  <2>1. QueuedJobs' = QueuedJobs /\ QueuedJobs \in SUBSET Jobs
    BY <1>4 DEF FinishStart, QueuedJobs
  <2>2. ToSet(queue') = QueuedJobs' /\ IsInjective(queue')
    BY <1>4, <2>1, OrderFacts DEF FinishStart
  <2>3. \A w \in Workers : pc'[w] = "idle"
    BY <1>4 DEF FinishStart
  <2>4. \A w \in Workers : pc'[w] # "raised" /\ pc'[w] \notin Working
    BY <2>3 DEF Working
  <2>5. mem' = disk' /\ \A j \in Jobs : mem'[j].state \notin InProgress
    BY <1>4, <1>c DEF FinishStart, Ownership
  <2> QED BY <2>2, <2>4, <2>5 DEF Ownership
<1>5. CASE Stop
  BY <1>5, <1>c, <1>g, OwnFrame DEF Stop, store, thread, Alive
<1>6. CASE ProcessExit
  BY <1>6 DEF ProcessExit, Ownership, Alive, Working
<1>7. ASSUME NEW j \in Jobs, Submit(j) PROVE Ownership'
  <2>1. /\ Save(j, NewRecord) /\ Enqueue(j) /\ Alive
        /\ UNCHANGED <<process, thread>> /\ mem[j].state = "absent"
    BY <1>7 DEF Submit, Alive, NoRecord
  <2>2. NewRecord.state = "queued"
    BY DEF NewRecord, NoRecord
  <2> QED BY <1>c, <2>1, <2>2, EnqueueSet, OwnRequest DEF InProgress
<1>8. ASSUME NEW j \in Jobs, CancelQueued(j) PROVE Ownership'
  <2>1. /\ Save(j, Cancelled(mem[j])) /\ RemoveFromQueue(j) /\ Alive
        /\ UNCHANGED <<process, thread>> /\ mem[j].state = "queued"
    BY <1>8, <1>d DEF CancelQueued
  <2>2. Cancelled(mem[j]).state = "cancelled"
    BY <1>e DEF Cancelled
  <2>3. ToSet(queue) = QueuedJobs /\ IsInjective(queue) /\ queue \in Seq(Jobs)
    BY <1>c, <2>1 DEF Ownership, TypeOK
  <2>4. Contains(queue, j)
    BY <2>1, <2>3 DEF QueuedJobs, ToSet, Contains
  <2>5. PICK i \in 1..Len(queue) : queue[i] = j /\ queue' = RemoveAt(queue, i)
    BY <2>1, <2>4 DEF RemoveFromQueue
  <2>6. ToSet(queue') = QueuedJobs \ {j} /\ IsInjective(queue')
    BY <2>3, <2>5, RemoveSet
  <2> QED BY <1>c, <2>1, <2>2, <2>6, OwnRequest DEF InProgress
<1>9. ASSUME NEW j \in Jobs, CancelRunning(j) PROVE Ownership'
  <2>1. /\ Save(j, Cancelling(mem[j])) /\ UNCHANGED queue /\ Alive
        /\ UNCHANGED <<process, thread>> /\ mem[j].state = "running"
    BY <1>9, <1>d DEF CancelRunning, thread
  <2>2. Cancelling(mem[j]).state = "cancelling"
    BY <1>e DEF Cancelling
  <2>3. ToSet(queue) = QueuedJobs /\ IsInjective(queue) /\ j \notin QueuedJobs
    BY <1>c, <2>1 DEF Ownership, QueuedJobs
  <2> QED BY <1>c, <2>1, <2>2, <2>3, OwnRequest DEF InProgress
<1>10. ASSUME NEW j \in Jobs, Retry(j) PROVE Ownership'
  <2>1. /\ Save(j, Requeued(mem[j])) /\ Enqueue(j) /\ Alive
        /\ UNCHANGED <<process, thread>> /\ mem[j].state \in Retryable
    BY <1>10, <1>d DEF Retry, CanRetry, Alive
  <2>2. Requeued(mem[j]).state = "queued"
    BY DEF Requeued
  <2>3. mem[j].state # "queued" /\ mem[j].state \notin InProgress
    BY <2>1 DEF Retryable, InProgress
  <2> QED BY <1>c, <2>1, <2>2, <2>3, EnqueueSet, OwnRequest DEF InProgress
<1>11. ASSUME NEW w \in Workers, Claim(w) PROVE Ownership'
  BY <1>11, <1>c, OwnClaim
<1>12. ASSUME NEW w \in Workers, SkipStale(w) PROVE Ownership'
  <2>1. Alive /\ queue \in Seq(Jobs) /\ queue # <<>>
    BY <1>12 DEF SkipStale, Alive, TypeOK
  <2>2. 1 \in 1..Len(queue) /\ 1 \in DOMAIN queue
    BY <2>1
  <2>3. queue[1] \in QueuedJobs
    BY <1>c, <2>1, <2>2 DEF Ownership, ToSet
  <2> QED BY <1>12, <2>2, <2>3 DEF SkipStale, QueuedJobs
<1>13. ASSUME NEW w \in Workers,
              \/ LeaveLoop(w) \/ BeginExecute(w) \/ PassLastCheck(w)
              \/ PublishOutputs(w) \/ Cleanup(w)
       PROVE  Ownership'
  <2>1. /\ UNCHANGED <<process, store>>
        /\ \A v \in Workers : v # w => pc'[v] = pc[v] /\ job'[v] = job[v]
        /\ pc'[w] # "raised"
        /\ pc'[w] \in Working <=> pc[w] \in Working
        /\ pc[w] \in Working => job'[w] = job[w]
    BY <1>13 DEF LeaveLoop, BeginExecute, PassLastCheck, PublishOutputs, Cleanup,
                 MoveTo, TypeOK, Working
  <2>2. \A v \in Workers : pc'[v] # "raised"
    BY <1>g, <2>1
  <2> QED BY <1>c, <2>1, <2>2, OwnFrame DEF process, store, Alive
<1>14. ASSUME NEW w \in Workers, SaveProgress(w) PROVE Ownership'
  <2>1. job[w] \in Jobs /\ phase # "down"
    BY <1>14 DEF TypeOK, SaveProgress, Alive
  <2>2. disk' = disk
    BY <1>14, <1>c, <2>1 DEF SaveProgress, Ownership, TypeOK
  <2> QED BY <1>14, <1>c, <2>2, OwnFrame DEF SaveProgress, process, thread, Alive,
                                            Ownership
<1>15. ASSUME NEW w \in Workers,
              ObserveCancel(w) \/ ExecuteFails(w) \/ ExecuteReturns(w)
       PROVE  Ownership'
  BY <1>15, <1>c, OwnExecution
<1>16. ASSUME NEW w \in Workers, FailJob(w) PROVE Ownership'
  BY <1>16, <1>c DEF FailJob, Ownership
<1> QED BY <1>1, <1>2, <1>3, <1>4, <1>5, <1>6, <1>7, <1>8, <1>9, <1>10, <1>11,
           <1>12, <1>13, <1>14, <1>15, <1>16
        DEF Next, Lifecycle, Client, Worker

LEMMA OwnAlways == Spec => [](TypeOK /\ OwnInv)
<1>1. Init => OwnInv
  BY DEF Init, OwnInv, Ownership, Alive, Working
<1> QED BY <1>1, TypeCorrect, OwnStep, PTL DEF Spec

\* Until a save fails, no two threads execute the same job, however many
\* threads there are and whatever is cancelled, retried or restarted.
THEOREM Exclusive == Spec => []ExclusiveExecution
<1>1. OwnInv => ExclusiveExecution
  BY DEF OwnInv, Ownership, ExclusiveExecution
<1> QED BY <1>1, OwnAlways, PTL

\* Until a save fails, a record is running or cancelling exactly while one
\* thread executes it.
THEOREM Owned == Spec => []InProgressIsOwned
<1>1. TypeOK /\ OwnInv => InProgressIsOwned
  BY DEF OwnInv, Ownership, InProgressIsOwned, Works
<1> QED BY <1>1, OwnAlways, PTL

\* Until a save fails, the FIFO holds each queued job once and nothing else.
THEOREM QueueExact == Spec => []QueueIsExact
<1>1. OwnInv => QueueIsExact
  BY DEF OwnInv, Ownership, QueueIsExact
<1> QED BY <1>1, OwnAlways, PTL

=============================================================================
