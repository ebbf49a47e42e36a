------------------------- MODULE JobLifecycleProofs -------------------------
(* The queue implements the job lifecycle, completed jobs are final, and   *)
(* with one thread every cancellation reaches its execution.  All three    *)
(* rest on whose cancel event is whose.                                    *)
EXTENDS JobQueueProofs

-----------------------------------------------------------------------------
(* Cancel events, while every save has succeeded.  The event in the map    *)
(* under a job id, if any, is that of its last claim; an execution was     *)
(* handed the event of its own claim or none; and a job that is executed   *)
(* with the event of its last claim set is cancelling.                     *)

HoldsJob(w) == pc[w] \in Working \cup {"cleanup"}

\* Where a thread has been handed no event yet.
Unwatching == {"idle", "exited", "claimed"}

Events ==
    /\ \A j \in Jobs : events[j] \in {0, runs[j]}
    /\ \A j \in Jobs, n \in Nat : <<j, n>> \in signalled => 0 < n /\ n <= runs[j]
    /\ \A w \in Workers :
         pc[w] \in Working => runs[job[w]] > 0 /\ watch[w] \in {0, runs[job[w]]}
    /\ \A w \in Workers : pc[w] \in Unwatching => watch[w] = 0
    /\ \A w \in Workers :
         (pc[w] \in Working /\ <<job[w], runs[job[w]]>> \in signalled)
            => mem[job[w]].state = "cancelling"

EventInv == faults = 0 => Events

\* With a single thread nobody else can drop its event.
Alone == \A v, w \in Workers : v = w

AloneInv ==
    (faults = 0 /\ Alone) =>
        \A w \in Workers :
            pc[w] \in Working =>
                /\ events[job[w]] = runs[job[w]]
                /\ pc[w] # "claimed" => watch[w] = runs[job[w]]
                /\ mem[job[w]].state = "cancelling"
                     => <<job[w], runs[job[w]]>> \in signalled

\* Nothing is forgotten about a failed save.
LEMMA FaultsOnlyGrow == TypeOK /\ [Next]_vars => faults' = faults \/ faults' = faults + 1
  BY DEF Next, Lifecycle, Client, Worker, vars, Start, Recover, FinishStart,
         Stop, ProcessExit, Submit, CancelQueued, CancelRunning, Retry, Claim,
         SkipStale, LeaveLoop, BeginExecute, SaveProgress, PassLastCheck,
         PublishOutputs, Record, ObserveCancel, ExecuteFails, ExecuteReturns,
         FailJob, Cleanup, Save, SaveFails

\* A step that leaves the events alone, gives no thread a job, and keeps the
\* jobs threads work on cancelling if they were.
LEMMA EventFrame ==
    ASSUME Events, UNCHANGED <<events, signalled, watch, runs>>,
           \A w \in Workers : HoldsJob(w) => job'[w] = job[w],
           \A w \in Workers : pc'[w] \in Working => pc[w] \in Working,
           \A w \in Workers : pc'[w] \in Unwatching => pc[w] \in Unwatching,
           \A w \in Workers :
             (pc'[w] \in Working /\ mem[job[w]].state = "cancelling")
                => mem'[job[w]].state = "cancelling"
    PROVE  Events'
  BY DEF Events, HoldsJob

LEMMA AloneFrame ==
    ASSUME AloneInv, faults = 0, UNCHANGED <<events, signalled, watch, runs>>,
           \A w \in Workers : HoldsJob(w) => job'[w] = job[w],
           \A w \in Workers : pc'[w] \in Working => pc[w] \in Working,
           \A w \in Workers : (pc'[w] \in Working /\ pc[w] = "claimed") => pc'[w] = "claimed",
           \A w \in Workers :
             (pc'[w] \in Working /\ mem'[job[w]].state = "cancelling")
                => mem[job[w]].state = "cancelling"
    PROVE  AloneInv'
  BY DEF AloneInv, Alone, HoldsJob

\* A request that saves a record of j leaves the other records, and those
\* threads work on, as they were.
LEMMA RequestFrame ==
    ASSUME TypeOK, Ownership, NEW j \in Jobs, NEW r, Save(j, r),
           mem[j].state \notin InProgress
    PROVE  \A w \in Workers : pc[w] \in Working => mem'[job[w]] = mem[job[w]]
  BY DEF TypeOK, Ownership, Save, Working

\* The outcome of one thread leaves the records of the other threads' jobs.
LEMMA OutcomeFrame ==
    ASSUME TypeOK, Ownership, NEW w \in Workers, faults' = 0, faults = 0,
           ObserveCancel(w) \/ ExecuteFails(w) \/ ExecuteReturns(w)
    PROVE  /\ UNCHANGED <<events, signalled, watch, job, runs>>
           /\ \A v \in Workers : pc'[v] = IF v = w THEN "cleanup" ELSE pc[v]
           /\ pc[w] \in Working
           /\ \A v \in Workers :
                (v # w /\ pc[v] \in Working) => mem'[job[v]] = mem[job[v]]
<1>1. pc[w] \in Working /\ UNCHANGED <<events, signalled, runs>> /\ job[w] \in Jobs
  BY DEF ObserveCancel, ExecuteFails, ExecuteReturns, Working, cancels, TypeOK
<1>2. PICK r : Save(job[w], r) /\ MoveTo(w, "cleanup")
  BY DEF Record, SaveFails, ObserveCancel, ExecuteFails, ExecuteReturns
<1>3. UNCHANGED <<job, watch>>
      /\ \A v \in Workers : pc'[v] = IF v = w THEN "cleanup" ELSE pc[v]
  BY <1>2 DEF MoveTo, TypeOK
<1>4. \A v \in Workers :
        (v # w /\ pc[v] \in Working) => job[v] # job[w] /\ job[v] \in Jobs
  BY <1>1 DEF Ownership, TypeOK, Working
<1> QED BY <1>1, <1>2, <1>3, <1>4 DEF Save, TypeOK

THEOREM EventStep ==
    TypeOK /\ OwnInv /\ EventInv /\ AloneInv /\ [Next]_vars => EventInv' /\ AloneInv'
<1> SUFFICES ASSUME TypeOK, OwnInv, EventInv, AloneInv, [Next]_vars, faults' = 0
             PROVE  Events' /\ AloneInv'
  BY DEF EventInv, AloneInv
<1> USE JobQueueAssumption
<1>a. faults = 0 /\ Ownership /\ Events
  BY FaultsOnlyGrow DEF OwnInv, EventInv, TypeOK
<1>b. \A j, r : ~SaveFails(j, r)
  BY <1>a DEF SaveFails
<1>c. \A w \in Workers : pc[w] \in Working => /\ job[w] \in Jobs
                                              /\ mem[job[w]].state \in InProgress
  BY <1>a DEF Ownership, TypeOK, Working
<1>d. ~Alive => \A w \in Workers : ~HoldsJob(w)
  BY DEF TypeOK, Working, HoldsJob
<1>e. \A j \in Jobs : mem[j] \in JobRecords
                      /\ DOMAIN mem[j] = {"state", "cancel", "retries", "error"}
  BY DEF TypeOK, JobRecords, Records, NoRecord
<1>1. CASE UNCHANGED vars \/ Stop
  <2>1. UNCHANGED <<events, signalled, watch, runs, pc, job, mem>>
    BY <1>1 DEF vars, store, thread, cancels, Stop
  <2> QED BY <1>a, <2>1, EventFrame, AloneFrame DEF HoldsJob
<1>2. ASSUME Start \/ FinishStart \/ \E j \in Jobs : Recover(j)
      PROVE  Events' /\ AloneInv'
  <2>1. /\ \A w \in Workers : pc'[w] \notin Working /\ pc[w] \in Unwatching
        /\ UNCHANGED <<events, signalled, watch, runs>>
    BY <1>2 DEF TypeOK, Start, FinishStart, Recover, Alive, thread, cancels,
                Unwatching, Working
  <2> QED BY <1>a, <2>1 DEF Events, AloneInv
<1>4. CASE ProcessExit
  <2>1. /\ \A w \in Workers : pc'[w] \notin Working
        /\ \A j \in Jobs : events'[j] = 0
        /\ \A w \in Workers : watch'[w] = 0
        /\ signalled' = {}
    BY <1>4 DEF ProcessExit, Working
  <2> QED BY <2>1 DEF Events, AloneInv
<1>5. ASSUME NEW j \in Jobs, Submit(j) \/ CancelQueued(j) \/ Retry(j)
      PROVE  Events' /\ AloneInv'
  <2>1. /\ \E r : Save(j, r)
        /\ mem[j].state \notin InProgress
        /\ UNCHANGED <<pc, job, watch, runs, events, signalled>>
    BY <1>5, <1>b DEF Submit, CancelQueued, Retry, CanRetry, Retryable,
                      InProgress, NoRecord, thread, cancels
  <2>2. \A w \in Workers : pc[w] \in Working => mem'[job[w]] = mem[job[w]]
    BY <1>a, <2>1, RequestFrame
  <2> QED BY <1>a, <2>1, <2>2, EventFrame, AloneFrame DEF HoldsJob
<1>6. ASSUME NEW j \in Jobs, CancelRunning(j) PROVE Events' /\ AloneInv'
  <2>1. /\ Save(j, Cancelling(mem[j]))
        /\ signalled' = signalled \cup ({<<j, events[j]>>} \ {<<j, 0>>})
        /\ UNCHANGED <<pc, job, watch, runs, events>>
    BY <1>6, <1>b DEF CancelRunning, thread
  <2>2. Cancelling(mem[j]).state = "cancelling"
    BY <1>e DEF Cancelling
  <2>3. \A k \in Jobs : mem'[k] = IF k = j THEN Cancelling(mem[j]) ELSE mem[k]
    BY <2>1 DEF Save, TypeOK
  <2>4. \A k, n : <<k, n>> \in signalled'
                    <=> \/ <<k, n>> \in signalled
                        \/ k = j /\ n = events[j] /\ n # 0
    BY <2>1
  <2>5. Events'
    <3>1. \A w \in Workers :
            (pc'[w] \in Working /\ <<job'[w], runs'[job'[w]]>> \in signalled')
                => mem'[job'[w]].state = "cancelling"
      BY <1>a, <1>c, <2>1, <2>2, <2>3, <2>4 DEF Events
    <3>2. \A k \in Jobs, n \in Nat : <<k, n>> \in signalled' => 0 < n /\ n <= runs[k]
      <4> TAKE k \in Jobs, n \in Nat
      <4>1. events[k] \in {0, runs[k]} /\ runs[k] \in Nat
            /\ (<<k, n>> \in signalled => 0 < n /\ n <= runs[k])
        BY <1>a DEF Events, TypeOK
      <4> QED BY <2>4, <4>1
    <3> QED BY <1>a, <2>1, <3>1, <3>2 DEF Events
  <2>6. AloneInv'
    <3> SUFFICES ASSUME Alone, NEW w \in Workers, pc[w] \in Working
                 PROVE  /\ events[job[w]] = runs[job[w]]
                        /\ pc[w] # "claimed" => watch[w] = runs[job[w]]
                        /\ mem'[job[w]].state = "cancelling"
                             => <<job[w], runs[job[w]]>> \in signalled'
      BY <2>1 DEF AloneInv, Alone
    <3>1. /\ events[job[w]] = runs[job[w]]
          /\ pc[w] # "claimed" => watch[w] = runs[job[w]]
          /\ mem[job[w]].state = "cancelling" => <<job[w], runs[job[w]]>> \in signalled
      BY <1>a DEF AloneInv
    <3>2. CASE job[w] = j
      <4>1. events[j] # 0
        BY <1>a, <3>1, <3>2 DEF Events, TypeOK
      <4> QED BY <2>4, <3>1, <3>2, <4>1
    <3>3. CASE job[w] # j
      BY <1>c, <2>3, <2>4, <3>1, <3>3
    <3> QED BY <3>2, <3>3
  <2> QED BY <2>5, <2>6
<1>7. ASSUME NEW w \in Workers, Claim(w) PROVE Events' /\ AloneInv'
  <2>1. PICK n \in 1..Len(queue) :
          /\ mem[queue[n]].state = "queued"
          /\ Save(queue[n], Claimed(mem[queue[n]]))
          /\ pc' = [pc EXCEPT ![w] = "claimed"]
          /\ job' = [job EXCEPT ![w] = queue[n]]
          /\ events' = [events EXCEPT ![queue[n]] = runs[queue[n]] + 1]
          /\ runs' = [runs EXCEPT ![queue[n]] = @ + 1]
          /\ pc[w] = "idle" /\ UNCHANGED <<watch, signalled>>
    BY <1>7, <1>b DEF Claim, FirstQueued
  <2> DEFINE j == queue[n]
  <2>2. j \in Jobs /\ \A v \in Workers : pc[v] \in Working => job[v] # j
    <3>1. j \in Jobs
      BY DEF TypeOK
    <3> QED BY <1>c, <2>1, <3>1 DEF InProgress
  <2>3. /\ \A k \in Jobs : k # j => /\ mem'[k] = mem[k] /\ events'[k] = events[k]
                                    /\ runs'[k] = runs[k]
        /\ events'[j] = runs[j] + 1 /\ runs'[j] = runs[j] + 1
        /\ pc'[w] = "claimed" /\ job'[w] = j
        /\ \A v \in Workers : v # w => pc'[v] = pc[v] /\ job'[v] = job[v]
        /\ mem'[j].state = "running"
    BY <1>e, <2>1, <2>2 DEF Save, TypeOK, Claimed
  <2>4. pc[w] \notin Working /\ runs[j] \in Nat
    BY <2>1, <2>2 DEF Working, TypeOK
  <2>5. /\ \A k \in Jobs : events'[k] \in {0, runs'[k]}
        /\ \A k \in Jobs, c \in Nat : <<k, c>> \in signalled' => 0 < c /\ c <= runs'[k]
    <3>1. \A k \in Jobs, c \in Nat : <<k, c>> \in signalled => 0 < c /\ c <= runs[k]
      BY <1>a DEF Events
    <3>2. \A k \in Jobs : events[k] \in {0, runs[k]} /\ runs[k] \in Nat
      BY <1>a DEF Events, TypeOK
    <3> QED BY <2>1, <2>3, <3>1, <3>2
  <2>6. <<j, runs'[j]>> \notin signalled'
    <3>1. <<j, runs[j] + 1>> \in signalled => runs[j] + 1 <= runs[j]
      BY <1>a, <2>2, <2>4 DEF Events
    <3> QED BY <2>1, <2>3, <2>4, <3>1
  <2>7. \A v \in Workers : pc'[v] \in Working =>
          \/ v # w /\ pc[v] \in Working /\ job'[v] = job[v] /\ job[v] # j /\ pc'[v] = pc[v]
          \/ v = w /\ job'[v] = j
    BY <2>2, <2>3
  <2> HIDE DEF j
  <2>8. watch'[w] = 0 /\ runs'[j] > 0
    BY <1>a, <2>1, <2>3, <2>4 DEF Events, Unwatching
  <2>9. ASSUME NEW v \in Workers, pc'[v] \in Working
        PROVE  /\ runs'[job'[v]] > 0 /\ watch'[v] \in {0, runs'[job'[v]]}
               /\ <<job'[v], runs'[job'[v]]>> \in signalled'
                    => mem'[job'[v]].state = "cancelling"
    <3>1. CASE v = w
      BY <2>3, <2>6, <2>8, <3>1
    <3>2. CASE v # w
      <4>1. pc[v] \in Working /\ job'[v] = job[v] /\ job[v] # j /\ job[v] \in Jobs
        BY <1>c, <2>7, <2>9, <3>2
      <4>2. /\ runs[job[v]] > 0 /\ watch[v] \in {0, runs[job[v]]}
            /\ <<job[v], runs[job[v]]>> \in signalled => mem[job[v]].state = "cancelling"
        BY <1>a, <4>1 DEF Events
      <4>3. /\ runs'[job[v]] = runs[job[v]] /\ mem'[job[v]] = mem[job[v]]
            /\ watch' = watch /\ signalled' = signalled
        BY <2>1, <2>3, <4>1
      <4> QED BY <4>1, <4>2, <4>3
    <3> QED BY <3>1, <3>2
  <2>10. Events'
    <3>1. \A v \in Workers : pc'[v] \in Unwatching => watch'[v] = 0
      BY <1>a, <2>1, <2>3, <2>8 DEF Events
    <3> QED BY <2>5, <2>9, <3>1 DEF Events
  <2>11. AloneInv'
    BY <2>2, <2>3, <2>7 DEF AloneInv, Alone
  <2> QED BY <2>10, <2>11
<1>8. ASSUME NEW w \in Workers, BeginExecute(w) PROVE Events' /\ AloneInv'
  <2>1. /\ pc[w] = "claimed" /\ watch' = [watch EXCEPT ![w] = events[job[w]]]
        /\ pc' = [pc EXCEPT ![w] = "executing"]
        /\ UNCHANGED <<events, signalled, job, mem, runs>>
    BY <1>8 DEF BeginExecute, store, cancels
  <2>2. \A v \in Workers :
          /\ v # w => pc'[v] = pc[v] /\ watch'[v] = watch[v]
          /\ v = w => pc'[v] = "executing" /\ watch'[v] = events[job[w]]
    BY <2>1 DEF TypeOK
  <2>3. pc[w] \in Working /\ job[w] \in Jobs /\ "executing" # "claimed"
    BY <1>c, <2>1 DEF Working
  <2>4. \A v \in Workers : pc'[v] \in Working => pc[v] \in Working
    BY <2>2, <2>3
  <2> QED BY <1>a, <2>1, <2>2, <2>3, <2>4 DEF Events, AloneInv, Unwatching
<1>9. ASSUME NEW w \in Workers,
             \/ SkipStale(w) \/ LeaveLoop(w) \/ SaveProgress(w)
             \/ PassLastCheck(w) \/ PublishOutputs(w)
      PROVE  Events' /\ AloneInv'
  <2>1. /\ UNCHANGED <<events, signalled, watch, runs, job, mem>>
        /\ \A v \in Workers : v # w => pc'[v] = pc[v]
        /\ pc[w] # "claimed"
        /\ pc'[w] \in Working => pc[w] \in Working
        /\ pc'[w] \in Unwatching => pc[w] \in Unwatching
    BY <1>9 DEF SkipStale, LeaveLoop, SaveProgress, PassLastCheck, PublishOutputs,
                MoveTo, store, thread, cancels, TypeOK, Working,
                Unwatching
  <2> QED BY <1>a, <2>1, EventFrame, AloneFrame DEF HoldsJob
<1>10. ASSUME NEW w \in Workers,
              ObserveCancel(w) \/ ExecuteFails(w) \/ ExecuteReturns(w)
       PROVE  Events' /\ AloneInv'
  <2>1. /\ UNCHANGED <<events, signalled, watch, job, runs>>
        /\ \A v \in Workers : pc'[v] = IF v = w THEN "cleanup" ELSE pc[v]
        /\ pc[w] \in Working
        /\ \A v \in Workers :
             (v # w /\ pc[v] \in Working) => mem'[job[v]] = mem[job[v]]
    BY <1>10, <1>a, OutcomeFrame
  <2>2. "cleanup" \notin Working \cup Unwatching
    BY DEF Working, Unwatching
  <2> QED BY <1>a, <2>1, <2>2, EventFrame, AloneFrame DEF HoldsJob
<1>11. ASSUME NEW w \in Workers, FailJob(w) PROVE Events' /\ AloneInv'
  BY <1>11, <1>a DEF FailJob, Ownership
<1>12. ASSUME NEW w \in Workers, Cleanup(w) PROVE Events' /\ AloneInv'
  <2>1. /\ pc[w] = "cleanup" /\ pc' = [pc EXCEPT ![w] = "idle"]
        /\ job' = [job EXCEPT ![w] = None] /\ watch' = [watch EXCEPT ![w] = 0]
        /\ events' = [events EXCEPT ![job[w]] = 0]
        /\ UNCHANGED <<signalled, mem, runs>>
    BY <1>12 DEF Cleanup, store
  <2>2. /\ \A v \in Workers :
             /\ v # w => pc'[v] = pc[v] /\ job'[v] = job[v] /\ watch'[v] = watch[v]
             /\ v = w => pc'[v] = "idle" /\ watch'[v] = 0
        /\ \A j \in Jobs : events'[j] \in {0, events[j]}
    BY <2>1 DEF TypeOK
  <2>3. Events'
    <3>1. \A v \in Workers : pc'[v] \in Working => v # w
      BY <2>2 DEF Working
    <3> QED BY <1>a, <2>1, <2>2, <3>1 DEF Events
  <2>4. AloneInv'
    <3>1. Alone => \A v \in Workers : pc'[v] = "idle"
      BY <2>2 DEF Alone
    <3> QED BY <3>1 DEF AloneInv, Alone, Working
  <2> QED BY <2>3, <2>4
<1> QED BY <1>1, <1>2, <1>4, <1>5, <1>6, <1>7, <1>8, <1>9, <1>10, <1>11, <1>12
        DEF Next, Lifecycle, Client, Worker

LEMMA EventAlways == Spec => [](TypeOK /\ OwnInv /\ EventInv /\ AloneInv)
<1>1. Init => EventInv /\ AloneInv
  BY JobQueueAssumption
     DEF Init, EventInv, Events, AloneInv, Working
<1> QED BY <1>1, OwnAlways, EventStep, PTL DEF Spec

\* With a single worker thread, the default of max_concurrent_generations,
\* and until a save fails, the cancellation of a running job always sets the
\* event its execution polls.
THEOREM LoneWorkerSeesCancel ==
    ASSUME Alone
    PROVE  Spec => []CancelReachesExecutor
<1>1. EventInv /\ AloneInv => CancelReachesExecutor
  BY Alone DEF AloneInv, CancelReachesExecutor, IsSet, Working
<1> QED BY <1>1, EventAlways, PTL

-----------------------------------------------------------------------------
(* Refinement.  Every step rewrites at most one file, so that a step of    *)
(* the queue is one move of one job of the lifecycle, or none.             *)

status  == [j \in Jobs |-> disk[j].state]
attempt == [j \in Jobs |-> disk[j].retries]

LEMMA LifeSave ==
    ASSUME TypeOK, NEW j \in Jobs, NEW r, Save(j, r), mem = disk
    PROVE  /\ status[j] = mem[j].state /\ attempt[j] = mem[j].retries
           /\ status' = [status EXCEPT ![j] = r.state]
           /\ attempt' = [attempt EXCEPT ![j] = r.retries]
  BY DEF TypeOK, Save, status, attempt

\* Saving a record that spent no retry is a move of the lifecycle's status.
LEMMA LifeMove ==
    ASSUME TypeOK, NEW j \in Jobs, NEW r, Save(j, r), mem = disk,
           r.retries = mem[j].retries
    PROVE  Life!Move(j, mem[j].state, r.state)
<1>1. attempt' = attempt
  <2>1. \A k \in Jobs : disk'[k].retries = disk[k].retries
    BY DEF TypeOK, Save
  <2> QED BY <2>1 DEF attempt
<1> QED BY <1>1, LifeSave DEF Life!Move, status, attempt

LEMMA LifeStutter ==
    ASSUME UNCHANGED disk
    PROVE  UNCHANGED <<status, attempt>>
  BY DEF status, attempt

\* What each record transformer does to the part the lifecycle sees.
LEMMA Visible ==
    ASSUME NEW r \in JobRecords
    PROVE  /\ r.retries \in Nat
           /\ Cancelled(r).state = "cancelled" /\ Cancelled(r).retries = r.retries
           /\ Cancelling(r).state = "cancelling" /\ Cancelling(r).retries = r.retries
           /\ Claimed(r).state = "running" /\ Claimed(r).retries = r.retries
           /\ Completed(r).state = "completed" /\ Completed(r).retries = r.retries
           /\ \A err : Failed(r, err).state = "failed"
                       /\ Failed(r, err).retries = r.retries
           /\ Interrupted(r).state = "interrupted"
           /\ Interrupted(r).retries = r.retries
           /\ Requeued(r).state = "queued" /\ Requeued(r).retries = r.retries + 1
<1>1. DOMAIN r = {"state", "cancel", "retries", "error"} /\ r.retries \in Nat
  BY DEF JobRecords, Records, NoRecord
<1> QED BY <1>1 DEF Cancelled, Cancelling, Claimed, Completed, Failed,
                    Interrupted, Requeued

LEMMA LifeRequeue ==
    ASSUME TypeOK, NEW j \in Jobs, Save(j, Requeued(mem[j])), mem = disk,
           mem[j].state \in {"running", "failed", "interrupted", "cancelled"},
           mem[j].retries < MaxRetries
    PROVE  Life!Requeue(j)
<1>1. Requeued(mem[j]).state = "queued"
      /\ Requeued(mem[j]).retries = mem[j].retries + 1
  BY DEF Requeued
<1>2. mem[j].retries = disk[j].retries /\ mem[j].state = disk[j].state
  OBVIOUS
<1>3. /\ status[j] = disk[j].state /\ attempt[j] = disk[j].retries
      /\ status' = [status EXCEPT ![j] = "queued"]
      /\ attempt' = [attempt EXCEPT ![j] = attempt[j] + 1]
  BY <1>1, <1>2, LifeSave
<1> QED BY <1>2, <1>3 DEF Life!Requeue, status, attempt

LEMMA LifeOutcome ==
    ASSUME TypeOK, BudgetInv, Ownership, Events, NEW w \in Workers, faults = 0, faults' = 0,
           ObserveCancel(w) \/ ExecuteFails(w) \/ ExecuteReturns(w)
    PROVE  Life!Next
<1> DEFINE j == job[w]
           r == mem[j]
<1>1. /\ pc[w] \in Working /\ j \in Jobs /\ mem = disk /\ r.state \in InProgress
  BY DEF ObserveCancel, ExecuteFails, ExecuteReturns, Working, TypeOK, Ownership,
         Alive
<1>2. r \in JobRecords
  BY <1>1 DEF TypeOK, JobRecords
<1>3. \A s : Record(w, s) => Save(j, s)
  BY DEF Record, SaveFails
<1>4. ASSUME Save(j, Cancelled(r)), r.state = "cancelling" PROVE Life!Next
  BY <1>1, <1>2, <1>4, LifeMove, Visible DEF Life!Next, Life!ConcludeCancel
<1>5. ASSUME NEW err, Save(j, Failed(r, err)) \/ Save(j, Completed(r)),
             r.state = "running"
      PROVE  Life!Next
  BY <1>1, <1>2, <1>5, LifeMove, Visible DEF Life!Next, Life!Finish
<1>6. ASSUME Save(j, Requeued(r)), r.state = "running", r.retries < MaxRetries
      PROVE  Life!Next
  BY <1>1, <1>6, LifeRequeue DEF Life!Next
<1>7. r.state = "cancelling" => CancelPending(r)
  BY DEF CancelPending
<1>8. CancelPending(r) => r.state = "cancelling"
  BY <1>1 DEF CancelPending, InProgress, BudgetInv, Fresh
<1>9. CASE ObserveCancel(w)
  <2>1. r.state = "cancelling"
    <3>1. <<j, watch[w]>> \in signalled /\ watch[w] \in {0, runs[j]}
      BY <1>1, <1>9 DEF ObserveCancel, IsSet, Events
    <3>2. watch[w] \in Nat /\ watch[w] # 0
      BY <1>1, <3>1 DEF Events, TypeOK
    <3> QED BY <1>1, <3>1, <3>2 DEF Events
  <2> QED BY <1>3, <1>4, <1>9, <2>1 DEF ObserveCancel
<1>10. CASE ExecuteReturns(w)
  BY <1>1, <1>3, <1>4, <1>5, <1>7, <1>8, <1>10
     DEF ExecuteReturns, AfterSuccess, InProgress
<1>11. CASE ExecuteFails(w)
  <2>1. PICK err : Save(j, AfterFailure(r, err))
    BY <1>3, <1>11 DEF ExecuteFails
  <2> QED BY <1>1, <1>4, <1>5, <1>6, <1>7, <1>8, <2>1
          DEF AfterFailure, AutoRetried, InProgress
<1> QED BY <1>9, <1>10, <1>11

THEOREM LifeStep ==
    TypeOK /\ BudgetInv /\ OwnInv /\ EventInv /\ [Next]_vars /\ faults' = 0
        => [Life!Next]_<<status, attempt>>
<1> SUFFICES ASSUME TypeOK, BudgetInv, OwnInv, EventInv, [Next]_vars, faults' = 0
             PROVE  Life!Next \/ UNCHANGED disk
  BY LifeStutter
<1> USE JobQueueAssumption
<1>a. faults = 0 /\ Ownership /\ Events
  BY FaultsOnlyGrow DEF OwnInv, EventInv, TypeOK
<1>b. \A j, r : ~SaveFails(j, r)
  BY <1>a DEF SaveFails
<1>c. phase # "down" => mem = disk
  BY <1>a DEF Ownership
<1>d. \A j \in Jobs : mem[j] \in JobRecords
  BY DEF TypeOK, JobRecords
<1>1. CASE \/ UNCHANGED vars \/ Start \/ FinishStart \/ Stop \/ ProcessExit
           \/ \E w \in Workers : \/ SkipStale(w) \/ LeaveLoop(w) \/ BeginExecute(w)
                                 \/ PassLastCheck(w) \/ PublishOutputs(w)
                                 \/ Cleanup(w)
  BY <1>1 DEF vars, store, Start, FinishStart, Stop, ProcessExit, SkipStale,
              LeaveLoop, BeginExecute, PassLastCheck, PublishOutputs, Cleanup
<1>2. ASSUME NEW j \in Jobs, Recover(j) PROVE Life!Next
  <2>1. /\ mem = disk /\ mem[j].state \in InProgress
        /\ Save(j, AfterCrash(mem[j]))
    BY <1>2, <1>b, <1>c DEF Recover
  <2>2. CASE mem[j].state = "running" /\ mem[j].retries < MaxRetries
    BY <2>1, <2>2, LifeRequeue DEF AfterCrash, Life!Next
  <2>3. CASE ~(mem[j].state = "running" /\ mem[j].retries < MaxRetries)
    <3>1. Life!Move(j, mem[j].state, "interrupted")
      BY <1>d, <2>1, <2>3, LifeMove, Visible DEF AfterCrash
    <3>2. disk[j].retries >= MaxRetries \/ mem[j].state = "cancelling"
      BY <1>d, <2>1, <2>3, Visible DEF InProgress
    <3>3. Life!Interrupt(j)
      BY <2>1, <3>1, <3>2 DEF Life!Interrupt, InProgress
    <3> QED BY <3>3 DEF Life!Next
  <2> QED BY <2>2, <2>3
<1>3. ASSUME NEW j \in Jobs, Submit(j) PROVE Life!Next
  <2>1. Save(j, NewRecord) /\ mem = disk /\ mem[j] = NoRecord
    BY <1>3, <1>c DEF Submit
  <2>2. Life!Move(j, "absent", "queued")
    BY <2>1, LifeMove DEF NewRecord, NoRecord
  <2> QED BY <2>2 DEF Life!Next, Life!Create
<1>4. ASSUME NEW j \in Jobs, CancelQueued(j) PROVE Life!Next
  <2>1. Save(j, Cancelled(mem[j])) /\ mem = disk /\ mem[j].state = "queued"
    BY <1>4, <1>b, <1>c DEF CancelQueued, Alive
  <2>2. Life!Move(j, "queued", "cancelled")
    BY <1>d, <2>1, LifeMove, Visible
  <2> QED BY <2>2 DEF Life!Next, Life!AcceptCancel
<1>5. ASSUME NEW j \in Jobs, CancelRunning(j) PROVE Life!Next
  <2>1. Save(j, Cancelling(mem[j])) /\ mem = disk /\ mem[j].state = "running"
    BY <1>5, <1>b, <1>c DEF CancelRunning, Alive
  <2>2. Life!Move(j, "running", "cancelling")
    BY <1>d, <2>1, LifeMove, Visible
  <2> QED BY <2>2 DEF Life!Next, Life!AcceptCancel
<1>6. ASSUME NEW j \in Jobs, Retry(j) PROVE Life!Next
  <2>1. Save(j, Requeued(mem[j])) /\ mem = disk /\ CanRetry(mem[j])
    BY <1>6, <1>b, <1>c DEF Retry
  <2> QED BY <2>1, LifeRequeue DEF CanRetry, Retryable, Life!Next
<1>7. ASSUME NEW w \in Workers, Claim(w) PROVE Life!Next
  <2>1. PICK n \in 1..Len(queue) : /\ mem[queue[n]].state = "queued"
                                   /\ Save(queue[n], Claimed(mem[queue[n]]))
    BY <1>7, <1>b DEF Claim, FirstQueued
  <2>2. queue[n] \in Jobs /\ mem = disk
    BY <1>7, <1>c DEF TypeOK, Claim
  <2>3. Life!Move(queue[n], "queued", "running")
    BY <1>d, <2>1, <2>2, LifeMove, Visible
  <2> QED BY <2>2, <2>3 DEF Life!Next, Life!Begin
<1>8. ASSUME NEW w \in Workers, SaveProgress(w) PROVE UNCHANGED disk
  BY <1>8, <1>c DEF SaveProgress, TypeOK, Alive
<1>9. ASSUME NEW w \in Workers,
             ObserveCancel(w) \/ ExecuteFails(w) \/ ExecuteReturns(w)
      PROVE  Life!Next
  BY <1>9, <1>a, LifeOutcome
<1>10. ASSUME NEW w \in Workers, FailJob(w) PROVE FALSE
  BY <1>10, <1>a DEF FailJob, Ownership
<1> QED BY <1>1, <1>2, <1>3, <1>4, <1>5, <1>6, <1>7, <1>8, <1>9, <1>10
        DEF Next, Lifecycle, Client, Worker

\* When no save fails the queue implements the job lifecycle: crashes,
\* restarts, threads and the FIFO are invisible in what a client reads.
THEOREM Refinement ==
    ASSUME MaxFaults = 0
    PROVE  Spec => ImplementsLifecycle
<1> DEFINE NoFault == faults = 0
<1>1. Init => NoFault /\ Life!Init
  BY DEF Init, Life!Init, NoRecord
<1>2. TypeOK /\ NoFault /\ [Next]_vars => NoFault'
  BY MaxFaults = 0
     DEF Next, Lifecycle, Client, Worker, vars, Start, Recover, FinishStart,
         Stop, ProcessExit, Submit, CancelQueued, CancelRunning, Retry, Claim,
         SkipStale, LeaveLoop, BeginExecute, SaveProgress, PassLastCheck,
         PublishOutputs, Record, ObserveCancel, ExecuteFails, ExecuteReturns,
         FailJob, Cleanup, Save, SaveFails
<1>3. TypeOK /\ BudgetInv /\ OwnInv /\ EventInv /\ NoFault /\ NoFault' /\ [Next]_vars
        => [Life!Next]_<<status, attempt>>
  BY LifeStep
<1>4. <<status, attempt>> = <<[j \in Jobs |-> disk[j].state],
                              [j \in Jobs |-> disk[j].retries]>>
  BY DEF status, attempt
<1>5. [Life!Next]_<<status, attempt>>
        => [Life!Next]_<<[j \in Jobs |-> disk[j].state],
                         [j \in Jobs |-> disk[j].retries]>>
  BY DEF status, attempt
<1> HIDE DEF NoFault
<1> QED BY <1>1, <1>2, <1>3, <1>5, BudgetAlways, EventAlways, PTL
        DEF Spec, ImplementsLifecycle, Life!Spec

\* Until a save fails, a completed job is never reopened: no retry, late
\* failure, cancellation or recovery rewrites its file.
THEOREM CompletedFinal == Spec => CompletedIsFinal
<1>1. TypeOK /\ BudgetInv /\ OwnInv /\ EventInv /\ [Next]_vars
        => [faults' = 0 =>
             \A j \in Jobs :
                disk[j].state = "completed" => disk'[j].state = "completed"]_vars
  <2> SUFFICES ASSUME TypeOK, BudgetInv, OwnInv, EventInv, [Next]_vars, faults' = 0,
                      NEW j \in Jobs, disk[j].state = "completed"
               PROVE  disk'[j].state = "completed"
    OBVIOUS
  <2>1. status[j] = "completed" /\ status'[j] = disk'[j].state
    BY DEF status
  <2>2. CASE UNCHANGED status
    BY <2>1, <2>2
  <2>3. CASE Life!Next
    <3>1. status = [k \in Jobs |-> disk[k].state]
          /\ status' = [k \in Jobs |-> disk'[k].state]
      BY DEF status
    <3>2. \A k \in Jobs : \A from, to :
            (Life!Move(k, from, to) /\ from # "completed") => status'[j] = status[j]
      BY <2>1, <3>1 DEF Life!Move
    <3>3. \A k \in Jobs : Life!Requeue(k) => status'[j] = status[j]
      BY <2>1, <3>1 DEF Life!Requeue
    <3>4. status'[j] = status[j]
      BY <2>3, <3>2, <3>3
         DEF Life!Next, Life!Create, Life!Begin, Life!Finish, Life!AcceptCancel,
             Life!ConcludeCancel, Life!Interrupt
    <3> QED BY <2>1, <3>4
  <2> QED BY <2>2, <2>3, LifeStep
<1> QED BY <1>1, BudgetAlways, EventAlways, PTL DEF Spec, CompletedIsFinal

=============================================================================
