---------------------------- MODULE BatchService ----------------------------
(***************************************************************************)
(* Batches over the job queue: BatchService (services/batch_service.py),   *)
(* BatchStore (services/batch_store.py), domain/batches.py.                *)
(*                                                                         *)
(* The job queue is present only as what it promises, JobLifecycle: every  *)
(* request of a batch is a sequence of calls into it, each one atomic, and *)
(* between any two of them jobs move on by themselves.  The request        *)
(* threads change the one live record of a batch without a lock; the store *)
(* writes whatever that record is when it is saved.                        *)
(***************************************************************************)
EXTENDS Naturals, SequencesExt

CONSTANTS
    Batches,        \* batch ids
    Size,           \* jobs in the plan of a batch
    Threads,        \* threads that serve requests
    MaxRetries,     \* settings.max_job_retries
    MaxCrashes,     \* bound: process deaths in a behaviour
    MaxFaults,      \* bound: failed saves of a batch record
    None            \* "no batch"

ASSUME BatchServiceAssumption ==
    /\ Size \in Nat \ {0}
    /\ MaxRetries \in Nat
    /\ MaxCrashes \in Nat
    /\ MaxFaults \in Nat
    /\ None \notin Batches

Items   == 1..Size
Members == Batches \X Items

VARIABLES
    status,         \* the job files: state of each member
    attempt,        \* and its retry_count
    up,             \* the process is running
    mem,            \* BatchStore._records: the live record objects
    disk,           \* the batch files
    pc,             \* where each request thread is
    batch,          \* the batch it works on
    next,           \* the member it comes to next
    visited,        \* history: the attempt of each member a cancel has passed
    crashes,        \* process deaths so far
    faults          \* failed saves so far

jobs    == <<status, attempt>>
records == <<mem, disk>>
thread  == <<pc, batch, next, visited>>
bounds  == <<crashes, faults>>
vars    == <<jobs, up, records, thread, bounds>>

Job == INSTANCE JobLifecycle WITH Jobs <- Members

-----------------------------------------------------------------------------
\* known: the store has the record.
BatchRecords == [known : BOOLEAN, listed : Seq(Items), cancel : BOOLEAN]

NoBatch  == [known |-> FALSE, listed |-> <<>>, cancel |-> FALSE]
NewBatch == [NoBatch EXCEPT !.known = TRUE]

SubmitPcs == {"submitting", "listing", "saving member", "giving up"}
Unsaved   == {"saving member", "saving cancel", "saving retry", "giving up"}
Pcs       == SubmitPcs \cup Unsaved \cup {"idle", "cancelling", "retrying"}

Cancellable == {"queued", "running"}
Retryable   == {"failed", "interrupted", "cancelled"}

\* Variant: a job that waits does not count as active.
ActiveStarted == {"running", "cancelling"}

Active == {"queued", "running", "cancelling"}

\* The job of the member a thread is at.
Current(t) == <<batch[t], mem[batch[t]].listed[next[t]]>>

Created(b) == {i \in Items : status[<<b, i>>] # "absent"}

-----------------------------------------------------------------------------
(* domain/batches.py: the state of a batch is derived from its members.    *)

Count(b, states) ==
    Cardinality({i \in ToSet(mem[b].listed) : status[<<b, i>>] \in states})

AggregateState(b) ==
    LET listed == Len(mem[b].listed)
        done   == Count(b, {"completed"})
    IN  CASE listed = 0 -> "failed"
          [] Count(b, Active) > 0 ->
                IF mem[b].cancel \/ Count(b, {"cancelling"}) > 0 THEN "cancelling"
                ELSE IF Count(b, {"running"}) > 0 THEN "running" ELSE "queued"
          [] OTHER ->
                IF done = listed THEN "completed"
                ELSE IF done > 0 THEN "partial_success"
                ELSE IF Count(b, {"failed"}) = 0 THEN "cancelled" ELSE "failed"

Init ==
    /\ Job!Init
    /\ up = TRUE
    /\ mem = [b \in Batches |-> NoBatch]
    /\ disk = [b \in Batches |-> NoBatch]
    /\ pc = [t \in Threads |-> "idle"]
    /\ batch = [t \in Threads |-> None]
    /\ next = [t \in Threads |-> 0]
    /\ visited = [t \in Threads |-> <<>>]
    /\ crashes = 0
    /\ faults = 0

-----------------------------------------------------------------------------
(* The job queue by itself: its workers, its recovery and the requests for *)
(* a single job.                                                           *)

JobStep ==
    /\ up
    /\ \E m \in Members :
        \/ Job!Begin(m) \/ Job!Finish(m) \/ Job!AcceptCancel(m)
        \/ Job!ConcludeCancel(m) \/ Job!Requeue(m) \/ Job!Interrupt(m)
    /\ UNCHANGED <<up, records, thread, bounds>>

(* The process.                                                            *)

Crash ==
    /\ up
    /\ crashes < MaxCrashes
    /\ crashes' = crashes + 1
    /\ up' = FALSE
    /\ mem' = [b \in Batches |-> NoBatch]
    /\ pc' = [t \in Threads |-> "idle"]
    /\ batch' = [t \in Threads |-> None]
    /\ next' = [t \in Threads |-> 0]
    /\ visited' = [t \in Threads |-> <<>>]
    /\ UNCHANGED <<jobs, disk, faults>>

\* BatchStore.__init__ reads every file.
Restart ==
    /\ ~up
    /\ up' = TRUE
    /\ mem' = disk
    /\ UNCHANGED <<jobs, disk, thread, bounds>>

-----------------------------------------------------------------------------
(* Steps of a request thread.                                              *)

GoTo(t, p) ==
    /\ pc' = [pc EXCEPT ![t] = p]
    /\ UNCHANGED <<batch, next, visited>>

GoToMember(t, p, i) ==
    /\ pc' = [pc EXCEPT ![t] = p]
    /\ next' = [next EXCEPT ![t] = i]
    /\ UNCHANGED <<batch, visited>>

StartOn(t, b, p) ==
    /\ up
    /\ pc[t] = "idle"
    /\ pc' = [pc EXCEPT ![t] = p]
    /\ batch' = [batch EXCEPT ![t] = b]
    /\ next' = [next EXCEPT ![t] = 1]
    /\ visited' = [visited EXCEPT ![t] = <<>>]

\* Variant: the thread keeps its batch.
FinishLingering(t) ==
    /\ pc' = [pc EXCEPT ![t] = "idle"]
    /\ next' = [next EXCEPT ![t] = 0]
    /\ visited' = [visited EXCEPT ![t] = <<>>]
    /\ UNCHANGED batch

Finish(t) ==
    /\ pc' = [pc EXCEPT ![t] = "idle"]
    /\ batch' = [batch EXCEPT ![t] = None]
    /\ next' = [next EXCEPT ![t] = 0]
    /\ visited' = [visited EXCEPT ![t] = <<>>]

\* BatchStore.save writes the live record, with what others have changed.
SaveRecord(b) ==
    /\ disk' = [disk EXCEPT ![b] = mem[b]]
    /\ UNCHANGED <<mem, faults>>

SaveFails ==
    /\ faults < MaxFaults
    /\ faults' = faults + 1
    /\ UNCHANGED records

(* submit: the record first, then job after job, each listed and saved.    *)

\* A first save that fails leaves nothing behind.
SubmitBatch(t, b) ==
    /\ ~mem[b].known
    /\ StartOn(t, b, "submitting")
    /\ mem' = [mem EXCEPT ![b] = NewBatch]
    /\ disk' = [disk EXCEPT ![b] = NewBatch]
    /\ UNCHANGED <<jobs, up, bounds>>

SubmitMember(t) ==
    /\ pc[t] = "submitting"
    /\ Job!Create(<<batch[t], next[t]>>)
    /\ GoTo(t, "listing")
    /\ UNCHANGED <<up, records, bounds>>

\* JobService.submit raises: the service is stopping or its save failed.
SubmitMemberRefused(t) ==
    /\ pc[t] = "submitting"
    /\ GoTo(t, "giving up")
    /\ UNCHANGED <<jobs, up, records, bounds>>

ListMember(t) ==
    /\ pc[t] = "listing"
    /\ mem' = [mem EXCEPT ![batch[t]].listed = Append(@, next[t])]
    /\ GoTo(t, "saving member")
    /\ UNCHANGED <<jobs, up, disk, bounds>>

\* Variant: the list is written once, when it is complete.
SaveMemberAtEnd(t) ==
    /\ pc[t] = "saving member"
    /\ IF next[t] = Size
       THEN SaveRecord(batch[t]) /\ Finish(t)
       ELSE GoToMember(t, "submitting", next[t] + 1) /\ UNCHANGED <<records, faults>>
    /\ UNCHANGED <<jobs, up, crashes>>

SaveMember(t) ==
    /\ pc[t] = "saving member"
    /\ \/ /\ SaveRecord(batch[t])
          /\ IF next[t] = Size
             THEN Finish(t)
             ELSE GoToMember(t, "submitting", next[t] + 1)
       \/ /\ SaveFails
          /\ GoTo(t, "giving up")
    /\ UNCHANGED <<jobs, up, crashes>>

\* The except branch saves once more and raises.
GiveUp(t) ==
    /\ pc[t] = "giving up"
    /\ SaveRecord(batch[t]) \/ SaveFails
    /\ Finish(t)
    /\ UNCHANGED <<jobs, up, crashes>>

(* cancel: the flag, a save, then every member listed by then.             *)

\* Variant: the flag is set and the save forgotten.
CancelBatchUnsaved(t, b) ==
    /\ mem[b].known
    /\ StartOn(t, b, "cancelling")
    /\ mem' = [mem EXCEPT ![b].cancel = TRUE]
    /\ UNCHANGED <<jobs, up, disk, bounds>>

CancelBatch(t, b) ==
    /\ mem[b].known
    /\ StartOn(t, b, "saving cancel")
    /\ mem' = [mem EXCEPT ![b].cancel = TRUE]
    /\ UNCHANGED <<jobs, up, disk, bounds>>

SaveCancel(t) ==
    /\ pc[t] = "saving cancel"
    /\ \/ SaveRecord(batch[t]) /\ GoTo(t, "cancelling")
       \/ SaveFails /\ Finish(t)
    /\ UNCHANGED <<jobs, up, crashes>>

MembersLeft(t) == next[t] <= Len(mem[batch[t]].listed)

\* Variant: only queued members are cancelled.
CancelMemberQueued(t) ==
    /\ pc[t] = "cancelling"
    /\ MembersLeft(t)
    /\ IF status[Current(t)] = "queued"
       THEN Job!AcceptCancel(Current(t))
       ELSE UNCHANGED jobs
    /\ visited' = [visited EXCEPT ![t] = Append(@, attempt[Current(t)])]
    /\ next' = [next EXCEPT ![t] = @ + 1]
    /\ UNCHANGED <<up, records, pc, batch, bounds>>

\* A member that is no longer cancellable is passed over, whether the check
\* finds it or the call refuses.
CancelMember(t) ==
    /\ pc[t] = "cancelling"
    /\ MembersLeft(t)
    /\ IF status[Current(t)] \in Cancellable
       THEN Job!AcceptCancel(Current(t))
       ELSE UNCHANGED jobs
    /\ visited' = [visited EXCEPT ![t] = Append(@, attempt[Current(t)])]
    /\ next' = [next EXCEPT ![t] = @ + 1]
    /\ UNCHANGED <<up, records, pc, batch, bounds>>

CancelEnds(t) ==
    /\ pc[t] = "cancelling"
    /\ ~MembersLeft(t)
    /\ Finish(t)
    /\ UNCHANGED <<jobs, up, records, bounds>>

(* retry_failed: every eligible member, then the flag is cleared.          *)

RetryBatch(t, b) ==
    /\ mem[b].known
    /\ StartOn(t, b, "retrying")
    /\ UNCHANGED <<jobs, up, records, bounds>>

\* A failed member whose error is not retryable is passed over.
RetryMember(t) ==
    /\ pc[t] = "retrying"
    /\ MembersLeft(t)
    /\ LET j == Current(t) IN
        \/ status[j] \in Retryable /\ Job!Requeue(j)
        \/ /\ status[j] \notin Retryable \ {"failed"} \/ attempt[j] >= MaxRetries
           /\ UNCHANGED jobs
    /\ GoToMember(t, "retrying", next[t] + 1)
    /\ UNCHANGED <<up, records, bounds>>

\* The service is stopping: the exception leaves the loop.
RetryRefused(t) ==
    /\ pc[t] = "retrying"
    /\ MembersLeft(t)
    /\ status[Current(t)] \in Retryable
    /\ Finish(t)
    /\ UNCHANGED <<jobs, up, records, bounds>>

RetryEnds(t) ==
    /\ pc[t] = "retrying"
    /\ ~MembersLeft(t)
    /\ mem' = [mem EXCEPT ![batch[t]].cancel = FALSE]
    /\ GoTo(t, "saving retry")
    /\ UNCHANGED <<jobs, up, disk, bounds>>

SaveRetry(t) ==
    /\ pc[t] = "saving retry"
    /\ SaveRecord(batch[t]) \/ SaveFails
    /\ Finish(t)
    /\ UNCHANGED <<jobs, up, crashes>>

-----------------------------------------------------------------------------
Request(t) ==
    \/ \E b \in Batches : SubmitBatch(t, b) \/ CancelBatch(t, b) \/ RetryBatch(t, b)
    \/ SubmitMember(t) \/ SubmitMemberRefused(t) \/ ListMember(t) \/ SaveMember(t)
    \/ GiveUp(t) \/ SaveCancel(t) \/ CancelMember(t) \/ CancelEnds(t)
    \/ RetryMember(t) \/ RetryRefused(t) \/ RetryEnds(t) \/ SaveRetry(t)

Next == JobStep \/ Crash \/ Restart \/ \E t \in Threads : Request(t)

Spec == Init /\ [][Next]_vars

-----------------------------------------------------------------------------
(* Properties.                                                             *)

Submitting(b) == \E t \in Threads : batch[t] = b /\ pc[t] \in SubmitPcs

\* The shape of the state; a thread works on a batch exactly while it is not
\* idle, on a member its plan or its batch has, and not while the process is
\* down.
TypeOK ==
    /\ status \in [Members -> Job!States]
    /\ attempt \in [Members -> Nat]
    /\ up \in BOOLEAN
    /\ mem \in [Batches -> BatchRecords]
    /\ disk \in [Batches -> BatchRecords]
    /\ pc \in [Threads -> Pcs]
    /\ batch \in [Threads -> Batches \cup {None}]
    /\ next \in [Threads -> Nat]
    /\ visited \in [Threads -> Seq(Nat)]
    /\ crashes \in Nat
    /\ faults \in Nat
    /\ \A t \in Threads :
        /\ IF pc[t] = "idle" THEN batch[t] = None
           ELSE up /\ batch[t] # None /\ next[t] > 0
        /\ pc[t] \in SubmitPcs => next[t] \in Items

\* The batch file and the job files agree but for the one job under way: the
\* file lists jobs that exist, in the order of the plan and each once, and
\* at most the last job created is missing from it, whatever requests,
\* crashes and failed saves come between.
MembershipIsExact ==
    \A b \in Batches :
        \E n \in 0..Size :
            /\ disk[b].listed = [i \in 1..n |-> i]
            /\ Created(b) \in {1..n, 1..(n + 1)}

\* Two requests change one live record without a lock, and still no change
\* is lost: while every save has succeeded, a record differs from its file
\* only while a request that is about to save it is under way.
NothingLeftUnsaved ==
    (faults = 0 /\ up) =>
        \A b \in Batches :
            mem[b] = disk[b] \/ \E t \in Threads : batch[t] = b /\ pc[t] \in Unsaved

\* A member that a cancellation of its batch has passed is not queued or
\* running any more, unless it was requeued since.
CancelReachesMembers ==
    \A t \in Threads :
        pc[t] = "cancelling" =>
            \A k \in 1..Len(visited[t]) :
                LET j == <<batch[t], mem[batch[t]].listed[k]>>
                IN  status[j] \in Cancellable => attempt[j] > visited[t][k]

\* A client stops polling a batch that has ended.  That is sound: once its
\* submission is over, an ended batch becomes active again only through the
\* requeue of a member, and one that has succeeded stays so.
EndedStaysEnded ==
    [][\A b \in Batches :
        (up /\ up' /\ mem[b].known /\ ~Submitting(b)
            /\ AggregateState(b) \notin {"queued", "running", "cancelling"}
            /\ ~\E i \in Items : attempt'[<<b, i>>] > attempt[<<b, i>>])
        => AggregateState(b)' = AggregateState(b)]_vars

\* The jobs of a batch are the jobs it lists, once its submission is over.
NoOrphans ==
    up => \A b \in Batches : Submitting(b) \/ Created(b) = ToSet(mem[b].listed)

=============================================================================
