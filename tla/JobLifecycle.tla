---------------------------- MODULE JobLifecycle ----------------------------
(***************************************************************************)
(* What the job API promises about one job, whatever happens inside: the   *)
(* states a record moves through, as a client that only ever reads the job *)
(* file would see them.  There is no queue, no thread, no process and no   *)
(* crash here.  A job is executed once for its creation and once for each  *)
(* retry it is granted; a completed job is final; a cancellation that was  *)
(* accepted ends the execution as cancelled or, after a crash, interrupted.*)
(***************************************************************************)
EXTENDS Naturals

CONSTANTS Jobs, MaxRetries

VARIABLES
    status,     \* JobRecord.state
    attempt     \* JobRecord.retry_count

States == {"absent", "queued", "running", "completed", "failed", "cancelling",
           "cancelled", "interrupted"}

Init ==
    /\ status = [j \in Jobs |-> "absent"]
    /\ attempt = [j \in Jobs |-> 0]

Move(j, from, to) ==
    /\ status[j] = from
    /\ status' = [status EXCEPT ![j] = to]
    /\ UNCHANGED attempt

Create(j) == Move(j, "absent", "queued")
Begin(j)  == Move(j, "queued", "running")

Finish(j) ==
    Move(j, "running", "completed") \/ Move(j, "running", "failed")

AcceptCancel(j) ==
    Move(j, "queued", "cancelled") \/ Move(j, "running", "cancelling")

ConcludeCancel(j) == Move(j, "cancelling", "cancelled")

\* A retry, asked for or automatic, and the requeue of a crashed execution.
Requeue(j) ==
    /\ status[j] \in {"running", "failed", "interrupted", "cancelled"}
    /\ attempt[j] < MaxRetries
    /\ status' = [status EXCEPT ![j] = "queued"]
    /\ attempt' = [attempt EXCEPT ![j] = @ + 1]

\* A crashed execution that is not requeued: the budget is spent or a
\* cancellation was pending.
Interrupt(j) ==
    \/ attempt[j] >= MaxRetries /\ Move(j, "running", "interrupted")
    \/ Move(j, "cancelling", "interrupted")

Next ==
    \E j \in Jobs :
        \/ Create(j) \/ Begin(j) \/ Finish(j) \/ AcceptCancel(j)
        \/ ConcludeCancel(j) \/ Requeue(j) \/ Interrupt(j)

Spec == Init /\ [][Next]_<<status, attempt>>

=============================================================================
