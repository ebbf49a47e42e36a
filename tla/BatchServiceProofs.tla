------------------------- MODULE BatchServiceProofs -------------------------
(* Machine-checked theorems about the batch service.                       *)
EXTENDS BatchService, FiniteSetTheorems, TLAPS

-----------------------------------------------------------------------------
(* Type correctness.                                                       *)

JobTypes == status \in [Members -> Job!States] /\ attempt \in [Members -> Nat]

\* A move of one job keeps the types of the job files.
LEMMA MoveTypes ==
    ASSUME JobTypes, NEW m \in Members, NEW from, NEW to \in Job!States,
           Job!Move(m, from, to)
    PROVE  JobTypes'
BY DEF JobTypes, Job!Move

LEMMA RequeueTypes ==
    ASSUME JobTypes, NEW m \in Members, Job!Requeue(m)
    PROVE  JobTypes'
BY DEF JobTypes, Job!Requeue, Job!States

\* The calls a batch makes, and the steps jobs take by themselves.
LEMMA CallTypes ==
    ASSUME JobTypes, NEW m \in Members,
           \/ Job!Create(m) \/ Job!Begin(m) \/ Job!Finish(m) \/ Job!AcceptCancel(m)
           \/ Job!ConcludeCancel(m) \/ Job!Requeue(m) \/ Job!Interrupt(m)
    PROVE  JobTypes'
<1>1. CASE Job!Requeue(m)
  BY <1>1, RequeueTypes
<1>2. CASE ~Job!Requeue(m)
  <2>1. PICK from \in Job!States, to \in Job!States : Job!Move(m, from, to)
    BY <1>2 DEF Job!Create, Job!Begin, Job!Finish, Job!AcceptCancel,
                Job!ConcludeCancel, Job!Interrupt, Job!States
  <2> QED BY <2>1, MoveTypes
<1> QED BY <1>1, <1>2

\* The job a thread is at is a member of its batch.
LEMMA CurrentIsMember ==
    ASSUME TypeOK, NEW t \in Threads, pc[t] # "idle", MembersLeft(t)
    PROVE  Current(t) \in Members
<1>1. batch[t] \in Batches /\ next[t] \in Nat /\ next[t] > 0
  BY DEF TypeOK
<1>2. mem[batch[t]].listed \in Seq(Items)
  BY <1>1 DEF TypeOK, BatchRecords
<1>3. next[t] \in 1..Len(mem[batch[t]].listed)
  BY <1>1, <1>2 DEF MembersLeft
<1>4. mem[batch[t]].listed[next[t]] \in Items
  BY <1>2, <1>3
<1> QED BY <1>1, <1>4 DEF Current, Members

AtWork(t) ==
    /\ IF pc[t] = "idle" THEN batch[t] = None
       ELSE up /\ batch[t] # None /\ next[t] > 0
    /\ pc[t] \in SubmitPcs => next[t] \in Items

ThreadTypes ==
    /\ pc \in [Threads -> Pcs]
    /\ batch \in [Threads -> Batches \cup {None}]
    /\ next \in [Threads -> Nat]
    /\ visited \in [Threads -> Seq(Nat)]
    /\ \A t \in Threads : AtWork(t)

RecordTypes ==
    mem \in [Batches -> BatchRecords] /\ disk \in [Batches -> BatchRecords]

\* The parts of the type invariant, put together after a step.
LEMMA TypeParts ==
    ASSUME JobTypes', ThreadTypes', RecordTypes', up' \in BOOLEAN,
           crashes' \in Nat, faults' \in Nat
    PROVE  TypeOK'
BY DEF TypeOK, JobTypes, ThreadTypes, AtWork, RecordTypes

LEMMA NewTypes == NoBatch \in BatchRecords /\ NewBatch \in BatchRecords
<1>1. NoBatch \in BatchRecords
  BY DEF NoBatch, BatchRecords
<1>2. NewBatch \in BatchRecords
  BY <1>1 DEF NewBatch, BatchRecords
<1> QED BY <1>1, <1>2

LEMMA FinishTypes ==
    ASSUME ThreadTypes, NEW t \in Threads, Finish(t), up' = up
    PROVE  ThreadTypes'
<1>1. /\ pc' \in [Threads -> Pcs] /\ batch' \in [Threads -> Batches \cup {None}]
      /\ next' \in [Threads -> Nat] /\ visited' \in [Threads -> Seq(Nat)]
  BY DEF ThreadTypes, Finish, Pcs
<1>2. ASSUME NEW u \in Threads PROVE AtWork(u)'
  <2>1. CASE u = t
    BY <2>1 DEF ThreadTypes, AtWork, Finish, SubmitPcs
  <2>2. CASE u # t
    BY <2>2 DEF ThreadTypes, AtWork, Finish
  <2> QED BY <2>1, <2>2
<1> QED BY <1>1, <1>2 DEF ThreadTypes

LEMMA FirstItem == 1 \in Items
<1>1. Size \in Nat /\ Size # 0
  BY BatchServiceAssumption
<1>2. Size >= 1
  BY <1>1
<1> QED BY <1>1, <1>2 DEF Items

LEMMA StartTypes ==
    ASSUME ThreadTypes, NEW t \in Threads, NEW b \in Batches, NEW p \in Pcs \ {"idle"},
           StartOn(t, b, p), up' = up
    PROVE  ThreadTypes'
<1>0. /\ pc' = [pc EXCEPT ![t] = p] /\ batch' = [batch EXCEPT ![t] = b]
      /\ next' = [next EXCEPT ![t] = 1] /\ visited' = [visited EXCEPT ![t] = <<>>]
      /\ up
  BY DEF StartOn
<1>1. /\ pc' \in [Threads -> Pcs] /\ batch' \in [Threads -> Batches \cup {None}]
      /\ next' \in [Threads -> Nat] /\ visited' \in [Threads -> Seq(Nat)]
  BY <1>0 DEF ThreadTypes
<1>2. ASSUME NEW u \in Threads PROVE AtWork(u)'
  <2>1. CASE u = t
    <3>1. b # None
      BY BatchServiceAssumption
    <3>2. pc'[t] = p /\ batch'[t] = b /\ next'[t] = 1 /\ up'
      BY <1>0 DEF ThreadTypes
    <3> QED BY <2>1, <3>1, <3>2, FirstItem DEF AtWork
  <2>2. CASE u # t
    BY <1>0, <2>2 DEF ThreadTypes, AtWork
  <2> QED BY <2>1, <2>2
<1> QED BY <1>1, <1>2 DEF ThreadTypes

LEMMA GoToTypes ==
    ASSUME ThreadTypes, NEW t \in Threads, NEW p \in Pcs \ {"idle"},
           pc[t] # "idle", GoTo(t, p), up' = up,
           p \in SubmitPcs => pc[t] \in SubmitPcs
    PROVE  ThreadTypes'
<1>1. pc' \in [Threads -> Pcs]
  BY DEF ThreadTypes, GoTo
<1>2. ASSUME NEW u \in Threads PROVE AtWork(u)'
  BY DEF ThreadTypes, AtWork, GoTo
<1> QED BY <1>1, <1>2 DEF ThreadTypes, GoTo

\* A thread that goes on to another member of its batch.
LEMMA AdvanceTypes ==
    ASSUME ThreadTypes, NEW t \in Threads, NEW p \in Pcs \ {"idle"}, NEW i \in Nat,
           pc[t] # "idle", pc' = [pc EXCEPT ![t] = p], next' = [next EXCEPT ![t] = i],
           visited' \in [Threads -> Seq(Nat)], UNCHANGED <<batch, up>>,
           i > 0, p \in SubmitPcs => i \in Items
    PROVE  ThreadTypes'
<1>1. pc' \in [Threads -> Pcs] /\ next' \in [Threads -> Nat]
  BY DEF ThreadTypes
<1>2. ASSUME NEW u \in Threads PROVE AtWork(u)'
  <2>1. CASE u = t
    BY <2>1 DEF ThreadTypes, AtWork
  <2>2. CASE u # t
    BY <2>2 DEF ThreadTypes, AtWork
  <2> QED BY <2>1, <2>2
<1> QED BY <1>1, <1>2 DEF ThreadTypes

LEMMA SaveTypes ==
    ASSUME RecordTypes, faults \in Nat, NEW b \in Batches, SaveRecord(b) \/ SaveFails
    PROVE  RecordTypes' /\ faults' \in Nat
BY DEF RecordTypes, SaveRecord, SaveFails, records

LEMMA RequestTypes ==
    ASSUME TypeOK, NEW t \in Threads, Request(t)
    PROVE  TypeOK'
<1>0. /\ JobTypes /\ ThreadTypes /\ RecordTypes
      /\ up \in BOOLEAN /\ crashes \in Nat /\ faults \in Nat
      /\ pc[t] \in Pcs /\ next[t] \in Nat
      /\ pc[t] # "idle" => batch[t] \in Batches
      /\ pc[t] \in SubmitPcs => next[t] \in Items
  BY DEF TypeOK, JobTypes, ThreadTypes, AtWork, RecordTypes
<1> USE DEF bounds, records, jobs
<1>1. ASSUME NEW b \in Batches, SubmitBatch(t, b) PROVE TypeOK'
  <2>1. ThreadTypes'
    BY <1>0, <1>1, StartTypes DEF SubmitBatch, SubmitPcs, Pcs
  <2>2. RecordTypes'
    BY <1>0, <1>1, NewTypes DEF SubmitBatch, RecordTypes
  <2> QED BY <1>0, <1>1, <2>1, <2>2, TypeParts DEF SubmitBatch, JobTypes
<1>2. ASSUME NEW b \in Batches, CancelBatch(t, b) PROVE TypeOK'
  <2>1. RecordTypes'
    BY <1>0, <1>2 DEF CancelBatch, RecordTypes, BatchRecords
  <2>2. ThreadTypes'
    BY <1>0, <1>2, StartTypes DEF CancelBatch, Unsaved, Pcs
  <2> QED BY <1>0, <1>2, <2>1, <2>2, TypeParts DEF CancelBatch, JobTypes
<1>3. ASSUME NEW b \in Batches, RetryBatch(t, b) PROVE TypeOK'
  <2>1. ThreadTypes'
    BY <1>0, <1>3, StartTypes DEF RetryBatch, Pcs
  <2> QED BY <1>0, <1>3, <2>1, TypeParts DEF RetryBatch, JobTypes, RecordTypes
<1>4. CASE SubmitMember(t)
  <2>1. <<batch[t], next[t]>> \in Members
    BY <1>0, <1>4 DEF SubmitMember, Members, SubmitPcs
  <2>2. JobTypes'
    BY <1>0, <1>4, <2>1, CallTypes DEF SubmitMember
  <2>3. ThreadTypes'
    BY <1>0, <1>4, GoToTypes DEF SubmitMember, SubmitPcs, Pcs
  <2> QED BY <1>0, <1>4, <2>2, <2>3, TypeParts DEF SubmitMember, RecordTypes
<1>5. CASE SubmitMemberRefused(t)
  <2>1. ThreadTypes'
    BY <1>0, <1>5, GoToTypes DEF SubmitMemberRefused, SubmitPcs, Pcs
  <2> QED BY <1>0, <1>5, <2>1, TypeParts DEF SubmitMemberRefused, RecordTypes, JobTypes
<1>6. CASE ListMember(t)
  <2>1. ThreadTypes'
    BY <1>0, <1>6, GoToTypes DEF ListMember, SubmitPcs, Pcs
  <2>2. RecordTypes'
    <3>1. /\ batch[t] \in Batches /\ next[t] \in Items
          /\ mem[batch[t]] \in BatchRecords
      BY <1>0, <1>6 DEF ListMember, SubmitPcs, RecordTypes
    <3>2. Append(mem[batch[t]].listed, next[t]) \in Seq(Items)
      BY <3>1 DEF BatchRecords
    <3>3. [mem[batch[t]] EXCEPT !.listed = Append(@, next[t])] \in BatchRecords
      BY <3>1, <3>2 DEF BatchRecords
    <3> QED BY <1>0, <1>6, <3>1, <3>3 DEF ListMember, RecordTypes
  <2> QED BY <1>0, <1>6, <2>1, <2>2, TypeParts DEF ListMember, JobTypes
<1>7. CASE SaveMember(t)
  <2>1. batch[t] \in Batches /\ next[t] \in Items /\ pc[t] = "saving member"
    BY <1>0, <1>7 DEF SaveMember, SubmitPcs
  <2>2. RecordTypes' /\ faults' \in Nat
    BY <1>0, <1>7, <2>1, SaveTypes DEF SaveMember
  <2>3. ThreadTypes'
    <3>1. CASE Finish(t)
      BY <1>0, <1>7, <3>1, FinishTypes DEF SaveMember
    <3>2. CASE GoTo(t, "giving up")
      BY <1>0, <1>7, <2>1, <3>2, GoToTypes DEF SaveMember, SubmitPcs, Pcs
    <3>3. CASE next[t] # Size /\ GoToMember(t, "submitting", next[t] + 1)
      <4>1. next[t] + 1 \in Items /\ next[t] + 1 \in Nat /\ next[t] + 1 > 0
        <5>1. Size \in Nat /\ next[t] \in 1..Size /\ next[t] # Size
          BY <2>1, <3>3, BatchServiceAssumption DEF Items
        <5> QED BY <5>1 DEF Items
      <4>2. "submitting" \in Pcs \ {"idle"}
        BY DEF Pcs, SubmitPcs
      <4>3. /\ pc' = [pc EXCEPT ![t] = "submitting"]
            /\ next' = [next EXCEPT ![t] = next[t] + 1]
            /\ UNCHANGED <<batch, visited, up>>
        BY <1>7, <3>3 DEF GoToMember, SaveMember
      <4> QED BY <1>0, <2>1, <4>1, <4>2, <4>3, AdvanceTypes DEF ThreadTypes
    <3> QED BY <1>7, <3>1, <3>2, <3>3 DEF SaveMember
  <2> QED BY <1>0, <1>7, <2>2, <2>3, TypeParts DEF SaveMember, JobTypes
<1>8. CASE GiveUp(t)
  BY <1>0, <1>8, SaveTypes, FinishTypes, TypeParts DEF GiveUp, JobTypes
<1>9. CASE SaveCancel(t)
  <2>1. ThreadTypes'
    BY <1>0, <1>9, FinishTypes, GoToTypes DEF SaveCancel, SubmitPcs, Unsaved, Pcs
  <2> QED BY <1>0, <1>9, <2>1, SaveTypes, TypeParts DEF SaveCancel, JobTypes
<1>10. CASE CancelMember(t)
  <2>1. Current(t) \in Members /\ attempt[Current(t)] \in Nat
    BY <1>0, <1>10, CurrentIsMember DEF CancelMember, JobTypes
  <2>2. JobTypes'
    <3>1. CASE Job!AcceptCancel(Current(t))
      BY <1>0, <2>1, <3>1, CallTypes
    <3> QED BY <1>0, <1>10, <3>1 DEF CancelMember, JobTypes
  <2>3. ThreadTypes'
    <3>1. /\ pc[t] = "cancelling" /\ next[t] + 1 \in Nat /\ next[t] + 1 > 0
          /\ "cancelling" \in Pcs \ {"idle"} /\ "cancelling" \notin SubmitPcs
      BY <1>0, <1>10 DEF CancelMember, Pcs, SubmitPcs
    <3>2. visited' \in [Threads -> Seq(Nat)]
      BY <1>0, <1>10, <2>1 DEF CancelMember, ThreadTypes
    <3>3. /\ pc' = [pc EXCEPT ![t] = "cancelling"]
          /\ next' = [next EXCEPT ![t] = next[t] + 1] /\ UNCHANGED <<batch, up>>
      BY <1>0, <1>10 DEF CancelMember, ThreadTypes
    <3> QED BY <1>0, <3>1, <3>2, <3>3, AdvanceTypes
  <2> QED BY <1>0, <1>10, <2>2, <2>3, TypeParts DEF CancelMember, RecordTypes
<1>11. CASE CancelEnds(t)
  BY <1>0, <1>11, FinishTypes, TypeParts DEF CancelEnds, JobTypes, RecordTypes
<1>12. CASE RetryMember(t)
  <2>1. Current(t) \in Members
    BY <1>0, <1>12, CurrentIsMember DEF RetryMember
  <2>2. JobTypes'
    <3>1. CASE Job!Requeue(Current(t))
      BY <1>0, <2>1, <3>1, CallTypes
    <3> QED BY <1>0, <1>12, <3>1 DEF RetryMember, JobTypes
  <2>3. ThreadTypes'
    <3>1. /\ pc[t] = "retrying" /\ next[t] + 1 \in Nat /\ next[t] + 1 > 0
          /\ "retrying" \in Pcs \ {"idle"} /\ "retrying" \notin SubmitPcs
      BY <1>0, <1>12 DEF RetryMember, Pcs, SubmitPcs
    <3>2. /\ pc' = [pc EXCEPT ![t] = "retrying"] /\ UNCHANGED <<batch, visited, up>>
          /\ next' = [next EXCEPT ![t] = next[t] + 1]
      BY <1>12 DEF RetryMember, GoToMember
    <3> QED BY <1>0, <3>1, <3>2, AdvanceTypes DEF ThreadTypes
  <2> QED BY <1>0, <1>12, <2>2, <2>3, TypeParts DEF RetryMember, RecordTypes
<1>13. CASE RetryRefused(t)
  BY <1>0, <1>13, FinishTypes, TypeParts DEF RetryRefused, JobTypes, RecordTypes
<1>14. CASE RetryEnds(t)
  <2>1. ThreadTypes'
    BY <1>0, <1>14, GoToTypes DEF RetryEnds, SubmitPcs, Unsaved, Pcs
  <2>2. RecordTypes'
    BY <1>0, <1>14 DEF RetryEnds, RecordTypes, BatchRecords
  <2> QED BY <1>0, <1>14, <2>1, <2>2, TypeParts DEF RetryEnds, JobTypes
<1>15. CASE SaveRetry(t)
  BY <1>0, <1>15, SaveTypes, FinishTypes, TypeParts DEF SaveRetry, JobTypes
<1> QED BY <1>1, <1>2, <1>3, <1>4, <1>5, <1>6, <1>7, <1>8, <1>9, <1>10, <1>11,
           <1>12, <1>13, <1>14, <1>15 DEF Request

THEOREM TypeStep == TypeOK /\ [Next]_vars => TypeOK'
<1> SUFFICES ASSUME TypeOK, [Next]_vars PROVE TypeOK'
  OBVIOUS
<1>0. /\ JobTypes /\ ThreadTypes /\ RecordTypes
      /\ up \in BOOLEAN /\ crashes \in Nat /\ faults \in Nat
  BY DEF TypeOK, JobTypes, ThreadTypes, AtWork, RecordTypes
<1>1. CASE UNCHANGED vars
  BY <1>1 DEF TypeOK, vars, jobs, records, thread, bounds
<1>2. CASE JobStep
  <2>1. JobTypes'
    BY <1>0, <1>2, CallTypes DEF JobStep
  <2> QED BY <1>0, <1>2, <2>1, TypeParts
          DEF JobStep, ThreadTypes, AtWork, RecordTypes, records, thread, bounds
<1>3. CASE Crash
  <2>1. ThreadTypes'
    BY <1>3 DEF Crash, ThreadTypes, AtWork, Pcs, SubmitPcs
  <2>2. RecordTypes'
    BY <1>0, <1>3, NewTypes DEF Crash, RecordTypes
  <2>3. UNCHANGED <<status, attempt, faults>> /\ up' = FALSE /\ crashes' = crashes + 1
    BY <1>3 DEF Crash, jobs
  <2>4. JobTypes'
    BY <1>0, <2>3 DEF JobTypes
  <2>5. up' \in BOOLEAN /\ crashes' \in Nat /\ faults' \in Nat
    <3>1. crashes' \in Nat
      BY <1>0, <2>3
    <3> QED BY <1>0, <2>3, <3>1
  <2> QED BY <2>1, <2>2, <2>4, <2>5, TypeParts
<1>4. CASE Restart
  BY <1>0, <1>4, TypeParts
     DEF Restart, ThreadTypes, AtWork, RecordTypes, JobTypes, jobs, thread, bounds
<1>5. CASE \E t \in Threads : Request(t)
  BY <1>5, RequestTypes
<1> QED BY <1>1, <1>2, <1>3, <1>4, <1>5 DEF Next

\* The shape of the state holds in every reachable state, for any number of
\* batches, jobs per batch, threads, crashes and failed saves.
THEOREM TypeCorrect == Spec => []TypeOK
<1>1. Init => TypeOK
  BY BatchServiceAssumption, NewTypes
     DEF Init, TypeOK, Job!Init, Job!States, Pcs, SubmitPcs, Members
<1> QED BY <1>1, TypeStep, PTL DEF Spec

-----------------------------------------------------------------------------
(* The batch file and the job files agree.                                 *)

Listing(n) == [i \in 1..n |-> i]

\* What a record lists is the plan up to some member, and no job beyond the
\* next one exists.
Tracks(r, b) ==
    \E n \in 0..Size : r.listed = Listing(n) /\ Created(b) \in {1..n, 1..(n + 1)}

\* Where the submission that a thread is in has come to.
SubmitAt(t) ==
    LET r == mem[batch[t]]
        d == disk[batch[t]]
        i == next[t]
    IN  /\ pc[t] = "submitting" =>
            /\ Created(batch[t]) = 1..(i - 1)
            /\ r.listed = Listing(i - 1) /\ d.listed = Listing(i - 1)
        /\ pc[t] = "listing" =>
            /\ Created(batch[t]) = 1..i
            /\ r.listed = Listing(i - 1) /\ d.listed = Listing(i - 1)
        /\ pc[t] = "saving member" =>
            Created(batch[t]) = 1..i /\ r.listed = Listing(i)

FileTracks(b) ==
    Tracks(disk[b], b) /\ (~disk[b].known => Created(b) = {})

LiveTracks(b) ==
    Tracks(mem[b], b) /\ mem[b].known = disk[b].known

\* A batch is submitted by one thread, and only its live record is worked on.
OneSubmitter ==
    /\ \A t \in Threads : pc[t] # "idle" => mem[batch[t]].known
    /\ \A t, u \in Threads :
        pc[t] \in SubmitPcs /\ pc[u] \in SubmitPcs /\ batch[t] = batch[u] => t = u

MemberInv ==
    /\ \A b \in Batches : FileTracks(b)
    /\ up => \A b \in Batches : LiveTracks(b)
    /\ OneSubmitter
    /\ \A t \in Threads : SubmitAt(t)

LEMMA ListingFacts ==
    /\ Listing(0) = <<>> /\ 1..0 = {}
    /\ \A k \in Nat : Append(Listing(k), k + 1) = Listing(k + 1)
    /\ \A k \in Nat : 1..k \cup {k + 1} = 1..(k + 1)
<1>1. Listing(0) = <<>> /\ 1..0 = {}
  BY DEF Listing
<1>2. ASSUME NEW k \in Nat PROVE Append(Listing(k), k + 1) = Listing(k + 1)
  <2>1. Listing(k) \in Seq(Nat) /\ Len(Listing(k)) = k
    BY DEF Listing
  <2>2. /\ Append(Listing(k), k + 1) \in Seq(Nat)
        /\ Len(Append(Listing(k), k + 1)) = k + 1
        /\ \A i \in 1..k : Append(Listing(k), k + 1)[i] = Listing(k)[i]
        /\ Append(Listing(k), k + 1)[k + 1] = k + 1
    BY <2>1
  <2>3. Listing(k + 1) \in Seq(Nat) /\ Len(Listing(k + 1)) = k + 1
    BY DEF Listing
  <2>4. ASSUME NEW i \in 1..(k + 1)
        PROVE  Append(Listing(k), k + 1)[i] = Listing(k + 1)[i]
    <3>1. CASE i = k + 1
      BY <2>2, <3>1 DEF Listing
    <3>2. CASE i # k + 1
      <4>1. i \in 1..k
        BY <3>2
      <4> QED BY <2>2, <4>1 DEF Listing
    <3> QED BY <3>1, <3>2
  <2> QED BY <2>2, <2>3, <2>4
<1>3. ASSUME NEW k \in Nat PROVE 1..k \cup {k + 1} = 1..(k + 1)
  OBVIOUS
<1> QED BY <1>1, <1>2, <1>3

\* Once a job exists, no call of the queue makes it absent again or creates
\* another.
LEMMA CreatedKept ==
    ASSUME JobTypes, NEW m,
           \/ Job!Begin(m) \/ Job!Finish(m) \/ Job!AcceptCancel(m)
           \/ Job!ConcludeCancel(m) \/ Job!Requeue(m) \/ Job!Interrupt(m)
    PROVE  \A b \in Batches : Created(b)' = Created(b)
<1>1. PICK to \in Job!States \ {"absent"} :
        status[m] # "absent" /\ status' = [status EXCEPT ![m] = to]
  BY DEF Job!Begin, Job!Finish, Job!AcceptCancel, Job!ConcludeCancel, Job!Requeue,
         Job!Interrupt, Job!Move, Job!States
<1>2. ASSUME NEW x \in Members
      PROVE  status'[x] = "absent" <=> status[x] = "absent"
  BY <1>1 DEF JobTypes
<1>3. ASSUME NEW b \in Batches, NEW i \in Items PROVE <<b, i>> \in Members
  BY <1>3 DEF Members
<1> QED BY <1>2, <1>3 DEF Created

LEMMA CreateAdds ==
    ASSUME JobTypes, NEW b \in Batches, NEW i \in Items, Job!Create(<<b, i>>)
    PROVE  /\ Created(b)' = Created(b) \cup {i}
           /\ \A c \in Batches \ {b} : Created(c)' = Created(c)
<1>1. status[<<b, i>>] = "absent" /\ status' = [status EXCEPT ![<<b, i>>] = "queued"]
  BY DEF Job!Create, Job!Move
<1>2. \A c \in Batches, k \in Items : <<c, k>> \in Members
  BY DEF Members
<1>3. ASSUME NEW c \in Batches, NEW k \in Items
      PROVE  status'[<<c, k>>] = IF c = b /\ k = i THEN "queued" ELSE status[<<c, k>>]
  BY <1>1, <1>2 DEF JobTypes
<1> QED BY <1>1, <1>3 DEF Created

\* A step that creates no job and lists none, and writes at most live records.
JobsKept == \A b \in Batches : Created(b)' = Created(b)

RecordsKept ==
    \A b \in Batches :
        /\ mem'[b].listed = mem[b].listed /\ mem'[b].known = mem[b].known
        /\ disk'[b] = disk[b] \/ disk'[b] = mem[b]

SubmissionsKept ==
    \A t \in Threads :
        /\ pc'[t] # "idle" => batch'[t] \in Batches /\ mem[batch'[t]].known
        /\ pc'[t] \in SubmitPcs => pc[t] \in SubmitPcs /\ batch'[t] = batch[t]
        /\ pc'[t] \in SubmitPcs \ {"giving up"} => pc'[t] = pc[t] /\ next'[t] = next[t]

Frame == JobsKept /\ RecordsKept /\ SubmissionsKept /\ up /\ up'

LEMMA FrameKeeps ==
    ASSUME MemberInv, Frame
    PROVE  MemberInv'
<1>1. ASSUME NEW b \in Batches PROVE FileTracks(b)' /\ LiveTracks(b)'
  <2>1. FileTracks(b) /\ LiveTracks(b)
    BY DEF MemberInv, Frame
  <2>2. /\ Created(b)' = Created(b)
        /\ mem'[b].listed = mem[b].listed /\ mem'[b].known = mem[b].known
        /\ disk'[b] = disk[b] \/ disk'[b] = mem[b]
    BY DEF Frame, JobsKept, RecordsKept
  <2> QED BY <2>1, <2>2 DEF FileTracks, LiveTracks, Tracks
<1>2. OneSubmitter'
  <2>1. ASSUME NEW t \in Threads, pc'[t] # "idle" PROVE mem'[batch'[t]].known
    BY <2>1 DEF Frame, RecordsKept, SubmissionsKept
  <2> QED BY <2>1 DEF Frame, SubmissionsKept, MemberInv, OneSubmitter
<1>3. ASSUME NEW t \in Threads PROVE SubmitAt(t)'
  <2>1. CASE pc'[t] \in SubmitPcs \ {"giving up"}
    <3>1. /\ pc'[t] = pc[t] /\ next'[t] = next[t]
          /\ batch'[t] = batch[t] /\ batch[t] \in Batches
      BY <2>1 DEF Frame, SubmissionsKept, SubmitPcs
    <3>2. /\ Created(batch[t])' = Created(batch[t])
          /\ mem'[batch[t]].listed = mem[batch[t]].listed
          /\ disk'[batch[t]] = disk[batch[t]] \/ disk'[batch[t]] = mem[batch[t]]
      BY <3>1 DEF Frame, JobsKept, RecordsKept
    <3>3. SubmitAt(t)
      BY DEF MemberInv
    <3> QED BY <3>1, <3>2, <3>3 DEF SubmitAt
  <2>2. CASE pc'[t] \notin SubmitPcs \ {"giving up"}
    BY <2>2 DEF SubmitAt, SubmitPcs
  <2> QED BY <2>1, <2>2
<1> QED BY <1>1, <1>2, <1>3 DEF MemberInv

LEMMA UnchangedJobs == UNCHANGED jobs => JobsKept
BY DEF jobs, JobsKept, Created

LEMMA SavesKeep ==
    ASSUME RecordTypes, NEW b \in Batches, SaveRecord(b) \/ SaveFails
    PROVE  RecordsKept
BY DEF RecordTypes, SaveRecord, SaveFails, RecordsKept, records

LEMMA UnchangedRecords == UNCHANGED records => RecordsKept
BY DEF records, RecordsKept

\* The flag is all that a request but a submission changes in a live record.
LEMMA FlagKeeps ==
    ASSUME RecordTypes, NEW b \in Batches, NEW flag \in BOOLEAN,
           mem' = [mem EXCEPT ![b].cancel = flag], UNCHANGED disk
    PROVE  RecordsKept
BY DEF RecordTypes, BatchRecords, RecordsKept

LEMMA FinishKeeps ==
    ASSUME ThreadTypes, OneSubmitter, NEW t \in Threads, Finish(t)
    PROVE  SubmissionsKept
BY DEF ThreadTypes, AtWork, OneSubmitter, Finish, SubmissionsKept, SubmitPcs

LEMMA GoToKeeps ==
    ASSUME ThreadTypes, OneSubmitter, NEW t \in Threads, pc[t] # "idle",
           NEW p \in Pcs, pc' = [pc EXCEPT ![t] = p], UNCHANGED batch,
           \A u \in Threads \ {t} : next'[u] = next[u],
           p \in SubmitPcs => p = "giving up" /\ pc[t] \in SubmitPcs
    PROVE  SubmissionsKept
BY DEF ThreadTypes, AtWork, OneSubmitter, SubmissionsKept, SubmitPcs

LEMMA StartKeeps ==
    ASSUME ThreadTypes, OneSubmitter, NEW t \in Threads, NEW b \in Batches,
           NEW p \in Pcs \ SubmitPcs, mem[b].known, StartOn(t, b, p)
    PROVE  SubmissionsKept
BY DEF ThreadTypes, AtWork, OneSubmitter, StartOn, SubmissionsKept, SubmitPcs

\* The requests that create and list no job.
LEMMA RequestKeeps ==
    ASSUME TypeOK, MemberInv, NEW t \in Threads, Request(t),
           ~\E b \in Batches : SubmitBatch(t, b),
           ~SubmitMember(t), ~ListMember(t),
           ~(SaveMember(t) /\ SaveRecord(batch[t]))
    PROVE  Frame
<1>0. /\ JobTypes /\ ThreadTypes /\ RecordTypes /\ OneSubmitter
      /\ pc[t] \in Pcs /\ (pc[t] # "idle" => up /\ batch[t] \in Batches)
  BY DEF TypeOK, JobTypes, ThreadTypes, AtWork, RecordTypes, MemberInv
<1> USE DEF Pcs, SubmitPcs, Unsaved
<1>1. ASSUME NEW b \in Batches, CancelBatch(t, b) PROVE Frame
  BY <1>0, <1>1, UnchangedJobs, FlagKeeps, StartKeeps DEF CancelBatch, StartOn, Frame
<1>2. ASSUME NEW b \in Batches, RetryBatch(t, b) PROVE Frame
  BY <1>0, <1>2, UnchangedJobs, UnchangedRecords, StartKeeps DEF RetryBatch, StartOn, Frame
<1>3. CASE SubmitMemberRefused(t)
  BY <1>0, <1>3, UnchangedJobs, UnchangedRecords, GoToKeeps
     DEF SubmitMemberRefused, GoTo, Frame
<1>4. CASE SaveMember(t)
  <2>1. SaveFails /\ GoTo(t, "giving up") /\ UNCHANGED <<jobs, up>> /\ pc[t] = "saving member"
    BY <1>4 DEF SaveMember
  <2> QED BY <1>0, <2>1, UnchangedJobs, SavesKeep, GoToKeeps DEF GoTo, Frame
<1>5. CASE GiveUp(t)
  BY <1>0, <1>5, UnchangedJobs, SavesKeep, FinishKeeps DEF GiveUp, Frame
<1>6. CASE SaveCancel(t)
  <2>1. SubmissionsKept
    BY <1>0, <1>6, FinishKeeps, GoToKeeps DEF SaveCancel, GoTo
  <2> QED BY <1>0, <1>6, <2>1, UnchangedJobs, SavesKeep DEF SaveCancel, Frame
<1>7. CASE CancelMember(t)
  <2>1. JobsKept
    BY <1>0, <1>7, UnchangedJobs, CreatedKept DEF CancelMember, JobsKept
  <2>2. SubmissionsKept
    BY <1>0, <1>7 DEF CancelMember, SubmissionsKept, OneSubmitter, ThreadTypes, AtWork
  <2> QED BY <1>0, <1>7, <2>1, <2>2, UnchangedRecords DEF CancelMember, Frame
<1>8. CASE CancelEnds(t)
  BY <1>0, <1>8, UnchangedJobs, UnchangedRecords, FinishKeeps DEF CancelEnds, Frame
<1>9. CASE RetryMember(t)
  <2>1. JobsKept
    BY <1>0, <1>9, UnchangedJobs, CreatedKept DEF RetryMember, JobsKept
  <2>2. SubmissionsKept
    BY <1>0, <1>9, GoToKeeps DEF RetryMember, GoToMember, ThreadTypes
  <2> QED BY <1>0, <1>9, <2>1, <2>2, UnchangedRecords DEF RetryMember, Frame
<1>10. CASE RetryRefused(t)
  BY <1>0, <1>10, UnchangedJobs, UnchangedRecords, FinishKeeps DEF RetryRefused, Frame
<1>11. CASE RetryEnds(t)
  BY <1>0, <1>11, UnchangedJobs, FlagKeeps, GoToKeeps DEF RetryEnds, GoTo, Frame
<1>12. CASE SaveRetry(t)
  BY <1>0, <1>12, UnchangedJobs, SavesKeep, FinishKeeps DEF SaveRetry, Frame
<1> QED BY <1>1, <1>2, <1>3, <1>4, <1>5, <1>6, <1>7, <1>8, <1>9, <1>10, <1>11, <1>12
        DEF Request

\* A step of the one thread that submits a batch leaves the others alone.
LEMMA SubmissionKeeps ==
    ASSUME ThreadTypes, MemberInv, NEW t \in Threads, NEW b \in Batches, up, up',
           \A c \in Batches \ {b} :
               Created(c)' = Created(c) /\ mem'[c] = mem[c] /\ disk'[c] = disk[c],
           \A u \in Threads \ {t} :
               /\ pc'[u] = pc[u] /\ batch'[u] = batch[u] /\ next'[u] = next[u]
               /\ ~(pc[u] \in SubmitPcs /\ batch[u] = b),
           pc'[t] # "idle" => batch'[t] = b,
           mem'[b].known, FileTracks(b)', LiveTracks(b)', SubmitAt(t)'
    PROVE  MemberInv'
<1>1. ASSUME NEW c \in Batches \ {b} PROVE FileTracks(c)' /\ LiveTracks(c)'
  BY <1>1 DEF MemberInv, FileTracks, LiveTracks, Tracks
<1>2. OneSubmitter'
  <2>1. OneSubmitter
    BY DEF MemberInv
  <2>2. ASSUME NEW u \in Threads, pc'[u] # "idle" PROVE mem'[batch'[u]].known
    <3>1. CASE u = t
      BY <2>2, <3>1
    <3>2. CASE u # t
      <4>1. batch'[u] = batch[u] /\ batch[u] \in Batches /\ mem[batch[u]].known
        BY <2>1, <2>2, <3>2 DEF OneSubmitter, ThreadTypes, AtWork
      <4> QED BY <4>1
    <3> QED BY <3>1, <3>2
  <2>3. ASSUME NEW u \in Threads, NEW v \in Threads, pc'[u] \in SubmitPcs,
               pc'[v] \in SubmitPcs, batch'[u] = batch'[v]
        PROVE  u = v
    <3>1. pc'[t] \in SubmitPcs => batch'[t] = b
      BY DEF SubmitPcs
    <3>2. CASE u = t
      BY <2>3, <3>1, <3>2
    <3>3. CASE v = t
      BY <2>3, <3>1, <3>3
    <3>4. CASE u # t /\ v # t
      BY <2>1, <2>3, <3>4 DEF OneSubmitter
    <3> QED BY <3>2, <3>3, <3>4
  <2> QED BY <2>2, <2>3 DEF OneSubmitter
<1>3. ASSUME NEW u \in Threads \ {t} PROVE SubmitAt(u)'
  <2>1. CASE pc[u] \in SubmitPcs
    <3>1. batch[u] \in Batches \ {b}
      BY <2>1 DEF ThreadTypes, AtWork, SubmitPcs
    <3>2. /\ Created(batch[u])' = Created(batch[u])
          /\ mem'[batch[u]] = mem[batch[u]] /\ disk'[batch[u]] = disk[batch[u]]
      BY <3>1
    <3>3. SubmitAt(u) /\ pc'[u] = pc[u] /\ batch'[u] = batch[u] /\ next'[u] = next[u]
      BY DEF MemberInv
    <3> QED BY <3>2, <3>3 DEF SubmitAt
  <2>2. CASE pc[u] \notin SubmitPcs
    BY <2>2 DEF SubmitAt, SubmitPcs
  <2> QED BY <2>1, <2>2
<1> QED BY <1>1, <1>2, <1>3 DEF MemberInv

\* The thread that submits a batch is the only one.
LEMMA AloneAt ==
    ASSUME OneSubmitter, NEW t \in Threads, pc[t] \in SubmitPcs,
           NEW u \in Threads \ {t}
    PROVE  ~(pc[u] \in SubmitPcs /\ batch[u] = batch[t])
BY DEF OneSubmitter

LEMMA SubmitBatchKeeps ==
    ASSUME TypeOK, MemberInv, NEW t \in Threads, NEW b \in Batches, SubmitBatch(t, b)
    PROVE  MemberInv'
<1>0. /\ JobTypes /\ ThreadTypes /\ RecordTypes /\ OneSubmitter
      /\ 0 \in 0..Size
  BY BatchServiceAssumption
     DEF TypeOK, JobTypes, ThreadTypes, AtWork, RecordTypes, MemberInv
<1>1. /\ ~mem[b].known /\ up /\ up' /\ UNCHANGED <<status, attempt>>
      /\ pc' = [pc EXCEPT ![t] = "submitting"] /\ batch' = [batch EXCEPT ![t] = b]
      /\ next' = [next EXCEPT ![t] = 1]
      /\ mem' = [mem EXCEPT ![b] = NewBatch] /\ disk' = [disk EXCEPT ![b] = NewBatch]
  BY DEF SubmitBatch, StartOn, jobs
<1>2. Created(b) = {} /\ \A c \in Batches : Created(c)' = Created(c)
  <2>1. FileTracks(b) /\ LiveTracks(b)
    BY <1>1 DEF MemberInv
  <2> QED BY <1>1, <2>1 DEF FileTracks, LiveTracks, Created
<1>3. /\ mem'[b] = NewBatch /\ disk'[b] = NewBatch
      /\ NewBatch.known /\ NewBatch.listed = Listing(0)
  <2>1. NewBatch.known /\ NewBatch.listed = <<>>
    BY DEF NewBatch, NoBatch
  <2> QED BY <1>0, <1>1, <2>1, ListingFacts DEF RecordTypes
<1>4. FileTracks(b)' /\ LiveTracks(b)'
  BY <1>0, <1>2, <1>3, ListingFacts DEF FileTracks, LiveTracks, Tracks
<1>5. SubmitAt(t)'
  <2>1. pc'[t] = "submitting" /\ batch'[t] = b /\ next'[t] = 1 /\ 1 - 1 = 0
    BY <1>0, <1>1 DEF ThreadTypes
  <2> QED BY <1>2, <1>3, <2>1, ListingFacts DEF SubmitAt
<1>6. \A u \in Threads \ {t} :
        /\ pc'[u] = pc[u] /\ batch'[u] = batch[u] /\ next'[u] = next[u]
        /\ ~(pc[u] \in SubmitPcs /\ batch[u] = b)
  BY <1>0, <1>1 DEF ThreadTypes, OneSubmitter, SubmitPcs
<1>7. \A c \in Batches \ {b} : mem'[c] = mem[c] /\ disk'[c] = disk[c]
  BY <1>0, <1>1 DEF RecordTypes
<1>8. batch'[t] = b
  BY <1>0, <1>1 DEF ThreadTypes
<1> QED BY <1>0, <1>1, <1>2, <1>3, <1>4, <1>5, <1>6, <1>7, <1>8, SubmissionKeeps

LEMMA SubmitMemberKeeps ==
    ASSUME TypeOK, MemberInv, NEW t \in Threads, SubmitMember(t)
    PROVE  MemberInv'
<1> DEFINE b == batch[t]
           i == next[t]
<1>0. /\ JobTypes /\ ThreadTypes /\ RecordTypes /\ OneSubmitter
      /\ pc[t] = "submitting" /\ pc[t] \in SubmitPcs /\ up /\ b \in Batches /\ i \in Items
  BY DEF TypeOK, JobTypes, ThreadTypes, AtWork, RecordTypes, MemberInv, SubmitMember,
         SubmitPcs
<1>1. /\ pc' = [pc EXCEPT ![t] = "listing"]
      /\ UNCHANGED <<batch, next, mem, disk, up>>
  BY DEF SubmitMember, GoTo, records
<1>2. /\ Created(b) = 1..(i - 1)
      /\ mem[b].listed = Listing(i - 1) /\ disk[b].listed = Listing(i - 1)
  BY <1>0 DEF MemberInv, SubmitAt
<1>3. i - 1 \in 0..Size /\ i - 1 \in Nat /\ (i - 1) + 1 = i
  BY <1>0, BatchServiceAssumption DEF Items
<1>4. ASSUME NEW c \in Batches
      PROVE  Created(c)' = IF c = b THEN 1..i ELSE Created(c)
  <2>1. Job!Create(<<b, i>>)
    BY DEF SubmitMember
  <2>2. 1..(i - 1) \cup {i} = 1..i
    BY <1>3, ListingFacts
  <2> HIDE DEF b, i
  <2> QED BY <1>0, <1>2, <2>1, <2>2, CreateAdds
<1>5. mem[b].known /\ LiveTracks(b) /\ FileTracks(b)
  BY <1>0 DEF MemberInv, OneSubmitter
<1>6. FileTracks(b)' /\ LiveTracks(b)'
  BY <1>0, <1>1, <1>2, <1>3, <1>4, <1>5 DEF FileTracks, LiveTracks, Tracks
<1>7. SubmitAt(t)'
  BY <1>0, <1>1, <1>2, <1>4 DEF SubmitAt, ThreadTypes
<1> QED BY <1>0, <1>1, <1>4, <1>5, <1>6, <1>7, AloneAt, SubmissionKeeps DEF ThreadTypes

LEMMA ListMemberKeeps ==
    ASSUME TypeOK, MemberInv, NEW t \in Threads, ListMember(t)
    PROVE  MemberInv'
<1> DEFINE b == batch[t]
           i == next[t]
<1>0. /\ ThreadTypes /\ RecordTypes /\ OneSubmitter
      /\ pc[t] = "listing" /\ pc[t] \in SubmitPcs /\ up /\ b \in Batches /\ i \in Items
  BY DEF TypeOK, ThreadTypes, AtWork, RecordTypes, MemberInv, ListMember, SubmitPcs
<1>1. /\ pc' = [pc EXCEPT ![t] = "saving member"]
      /\ mem' = [mem EXCEPT ![b].listed = Append(@, i)]
      /\ UNCHANGED <<batch, next, disk, up, status, attempt>>
  BY DEF ListMember, GoTo, jobs
<1>2. Created(b) = 1..i /\ mem[b].listed = Listing(i - 1)
  BY <1>0 DEF MemberInv, SubmitAt
<1>3. i - 1 \in Nat /\ (i - 1) + 1 = i /\ i \in 0..Size
  BY <1>0, BatchServiceAssumption DEF Items
<1>4. \A c \in Batches : Created(c)' = Created(c)
  BY <1>1 DEF Created
<1>5. mem[b].known /\ LiveTracks(b) /\ FileTracks(b)
  BY <1>0 DEF MemberInv, OneSubmitter
<1>6. mem'[b].known = mem[b].known /\ mem'[b].listed = Listing(i)
  <2>1. Append(Listing(i - 1), i) = Listing(i)
    BY <1>3, ListingFacts
  <2> HIDE DEF i
  <2> QED BY <1>0, <1>1, <1>2, <2>1 DEF RecordTypes, BatchRecords
<1>7. FileTracks(b)' /\ LiveTracks(b)'
  BY <1>0, <1>1, <1>2, <1>3, <1>4, <1>5, <1>6 DEF FileTracks, LiveTracks, Tracks
<1>8. SubmitAt(t)'
  BY <1>0, <1>1, <1>2, <1>4, <1>6 DEF SubmitAt, ThreadTypes
<1>9. \A c \in Batches \ {b} : mem'[c] = mem[c] /\ disk'[c] = disk[c]
  BY <1>0, <1>1 DEF RecordTypes
<1> QED BY <1>0, <1>1, <1>4, <1>5, <1>6, <1>7, <1>8, <1>9, AloneAt, SubmissionKeeps
        DEF ThreadTypes

LEMMA SaveMemberKeeps ==
    ASSUME TypeOK, MemberInv, NEW t \in Threads, SaveMember(t), SaveRecord(batch[t]),
           NEW b \in Batches, batch[t] = b, NEW i \in Items, next[t] = i
    PROVE  MemberInv'
<1>0. /\ ThreadTypes /\ RecordTypes /\ OneSubmitter
      /\ pc[t] = "saving member" /\ pc[t] \in SubmitPcs /\ up
  BY DEF TypeOK, ThreadTypes, AtWork, RecordTypes, MemberInv, SaveMember, SubmitPcs
<1>1. /\ disk' = [disk EXCEPT ![b] = mem[b]]
      /\ UNCHANGED <<mem, up, status, attempt>>
  BY DEF SaveMember, SaveRecord, jobs
<1>2. Created(b) = 1..i /\ mem[b].listed = Listing(i)
  BY <1>0 DEF MemberInv, SubmitAt
<1>3. \A c \in Batches : Created(c)' = Created(c)
  BY <1>1 DEF Created
<1>4. mem[b].known /\ LiveTracks(b)
  BY <1>0 DEF MemberInv, OneSubmitter
<1>5. disk'[b] = mem[b] /\ mem'[b] = mem[b]
  BY <1>0, <1>1 DEF RecordTypes
<1>6. FileTracks(b)' /\ LiveTracks(b)'
  BY <1>3, <1>4, <1>5 DEF FileTracks, LiveTracks, Tracks
<1>7. \A c \in Batches \ {b} : mem'[c] = mem[c] /\ disk'[c] = disk[c]
  BY <1>0, <1>1 DEF RecordTypes
<1>8. \A u \in Threads \ {t} :
        pc'[u] = pc[u] /\ batch'[u] = batch[u] /\ next'[u] = next[u]
  BY <1>0 DEF SaveMember, Finish, GoTo, GoToMember, ThreadTypes
<1>9. SubmitAt(t)' /\ (pc'[t] # "idle" => batch'[t] = b)
  <2>1. CASE Finish(t) \/ GoTo(t, "giving up")
    BY <1>0, <2>1 DEF Finish, GoTo, SubmitAt, ThreadTypes
  <2>2. CASE GoToMember(t, "submitting", next[t] + 1)
    <3>1. pc'[t] = "submitting" /\ next'[t] = i + 1 /\ batch'[t] = b
      BY <1>0, <2>2 DEF GoToMember, ThreadTypes
    <3>2. (i + 1) - 1 = i
      BY BatchServiceAssumption DEF Items
    <3> QED BY <1>2, <1>3, <1>5, <3>1, <3>2 DEF SubmitAt
  <2> QED BY <2>1, <2>2 DEF SaveMember
<1>10. \A u \in Threads \ {t} : ~(pc[u] \in SubmitPcs /\ batch[u] = b)
  BY <1>0, AloneAt
<1>11. mem'[b].known /\ up'
  BY <1>0, <1>1, <1>4
<1> QED BY <1>0, <1>3, <1>6, <1>7, <1>8, <1>9, <1>10, <1>11, SubmissionKeeps

LEMMA JobStepKeeps ==
    ASSUME TypeOK, MemberInv, JobStep
    PROVE  Frame
<1>1. JobTypes /\ ThreadTypes /\ OneSubmitter
  BY DEF TypeOK, JobTypes, ThreadTypes, AtWork, MemberInv
<1>2. JobsKept
  BY <1>1, CreatedKept DEF JobStep, JobsKept
<1>3. UNCHANGED <<up, mem, disk, pc, batch, next>> /\ up
  BY DEF JobStep, records, thread
<1>4. SubmissionsKept
  BY <1>1, <1>3 DEF SubmissionsKept, OneSubmitter, ThreadTypes, AtWork
<1> QED BY <1>2, <1>3, <1>4 DEF RecordsKept, Frame

THEOREM MemberStep == TypeOK /\ MemberInv /\ [Next]_vars => MemberInv'
<1> SUFFICES ASSUME TypeOK, MemberInv, [Next]_vars PROVE MemberInv'
  OBVIOUS
<1>1. CASE UNCHANGED vars
  <2>1. UNCHANGED <<status, up, mem, disk, pc, batch, next>>
    BY <1>1 DEF vars, jobs, records, thread
  <2>2. \A b \in Batches : Created(b)' = Created(b)
    BY <2>1 DEF Created
  <2> QED BY <2>1, <2>2 DEF MemberInv, FileTracks, LiveTracks, Tracks, OneSubmitter,
                            SubmitAt, Created
<1>2. CASE Crash
  <2>1. /\ UNCHANGED <<status, disk>> /\ ~up'
        /\ \A t \in Threads : pc'[t] = "idle"
    BY <1>2 DEF Crash, jobs
  <2>2. \A b \in Batches : FileTracks(b)'
    BY <2>1 DEF MemberInv, FileTracks, Tracks, Created
  <2> QED BY <2>1, <2>2 DEF MemberInv, OneSubmitter, SubmitAt, SubmitPcs
<1>3. CASE Restart
  <2>1. UNCHANGED <<status, disk, pc>> /\ mem' = disk
        /\ \A t \in Threads : pc'[t] = "idle"
    BY <1>3 DEF Restart, jobs, thread, TypeOK
  <2>2. \A b \in Batches : FileTracks(b)' /\ LiveTracks(b)'
    BY <2>1 DEF MemberInv, FileTracks, LiveTracks, Tracks, Created
  <2> QED BY <2>1, <2>2 DEF MemberInv, OneSubmitter, SubmitAt, SubmitPcs
<1>4. ASSUME NEW t \in Threads, Request(t) PROVE MemberInv'
  <2>1. CASE SaveMember(t) /\ SaveRecord(batch[t])
    <3>1. batch[t] \in Batches /\ next[t] \in Items
      BY <2>1 DEF SaveMember, TypeOK, SubmitPcs
    <3> QED BY <2>1, <3>1, SaveMemberKeeps
  <2> QED BY <1>4, <2>1, SubmitBatchKeeps, SubmitMemberKeeps, ListMemberKeeps,
             RequestKeeps, FrameKeeps
<1> QED BY <1>1, <1>2, <1>3, <1>4, JobStepKeeps, FrameKeeps DEF Next

LEMMA InitMembers == Init => MemberInv
<1> SUFFICES ASSUME Init PROVE MemberInv
  OBVIOUS
<1>1. /\ \A b \in Batches :
           /\ mem[b].known = FALSE /\ mem[b].listed = <<>>
           /\ disk[b].known = FALSE /\ disk[b].listed = <<>>
      /\ \A t \in Threads : pc[t] = "idle"
  BY DEF Init, NoBatch
<1>2. \A b \in Batches : Created(b) = {}
  BY DEF Init, Job!Init, Created, Members
<1>3. 0 \in 0..Size
  BY BatchServiceAssumption
<1>4. ASSUME NEW b \in Batches PROVE FileTracks(b) /\ LiveTracks(b)
  <2>1. disk[b].listed = Listing(0) /\ mem[b].listed = Listing(0) /\ Created(b) = 1..0
    BY <1>1, <1>2, ListingFacts
  <2>2. Tracks(disk[b], b) /\ Tracks(mem[b], b)
    BY <1>3, <2>1 DEF Tracks
  <2> QED BY <1>1, <1>2, <2>2 DEF FileTracks, LiveTracks
<1> QED BY <1>1, <1>4 DEF MemberInv, OneSubmitter, SubmitAt, SubmitPcs

\* At every moment the batch file lists the jobs that exist but for the one
\* under way, for any number of batches, requests, crashes and failed saves.
THEOREM FilesTrackJobs == Spec => []MembershipIsExact
<1>1. Init => MemberInv
  BY InitMembers
<1>2. MemberInv => MembershipIsExact
  BY DEF MemberInv, FileTracks, Tracks, Listing, MembershipIsExact
<1> QED BY <1>1, <1>2, TypeCorrect, MemberStep, PTL DEF Spec

-----------------------------------------------------------------------------
(* Nothing that a request changes in a live record is lost.                *)

Saved(b) ==
    mem[b] = disk[b] \/ \E t \in Threads : batch[t] = b /\ pc[t] \in Unsaved

AllSaved == \A b \in Batches : Saved(b)

\* A step of one thread leaves the others where they are.
OthersStay(t) ==
    \A u \in Threads \ {t} : pc'[u] = pc[u] /\ batch'[u] = batch[u]

\* A save settles the batch of the thread and no other one.
LEMMA SaveSettles ==
    ASSUME RecordTypes, AllSaved, NEW t \in Threads, SaveRecord(batch[t]), OthersStay(t)
    PROVE  AllSaved'
<1> SUFFICES ASSUME NEW b \in Batches PROVE Saved(b)'
  BY DEF AllSaved
<1>1. CASE b = batch[t]
  BY <1>1 DEF SaveRecord, RecordTypes, Saved
<1>2. CASE b # batch[t]
  <2>1. mem'[b] = mem[b] /\ disk'[b] = disk[b]
    BY <1>2 DEF SaveRecord, RecordTypes
  <2>2. CASE mem[b] = disk[b]
    BY <2>1, <2>2 DEF Saved
  <2>3. CASE mem[b] # disk[b]
    <3>1. PICK u \in Threads : batch[u] = b /\ pc[u] \in Unsaved
      BY <2>3 DEF AllSaved, Saved
    <3>2. batch'[u] = b /\ pc'[u] \in Unsaved
      BY <1>2, <3>1 DEF OthersStay
    <3> QED BY <3>2 DEF Saved
  <2> QED BY <2>2, <2>3
<1> QED BY <1>1, <1>2

\* A change of a live record is made by a thread that goes on to save it, and
\* that had nothing to save before.
LEMMA ChangeIsPending ==
    ASSUME AllSaved, NEW t \in Threads, pc[t] \notin Unsaved, OthersStay(t),
           \A b \in Batches :
               \/ mem'[b] = mem[b] /\ disk'[b] = disk[b]
               \/ mem'[b] = disk'[b]
               \/ batch'[t] = b /\ pc'[t] \in Unsaved
    PROVE  AllSaved'
<1> SUFFICES ASSUME NEW b \in Batches PROVE Saved(b)'
  BY DEF AllSaved
<1>1. CASE mem'[b] = mem[b] /\ disk'[b] = disk[b]
  <2>1. CASE mem[b] = disk[b]
    BY <1>1, <2>1 DEF Saved
  <2>2. CASE mem[b] # disk[b]
    <3>1. PICK u \in Threads : batch[u] = b /\ pc[u] \in Unsaved
      BY <2>2 DEF AllSaved, Saved
    <3>2. batch'[u] = b /\ pc'[u] \in Unsaved
      BY <3>1 DEF OthersStay
    <3> QED BY <3>2 DEF Saved
  <2> QED BY <2>1, <2>2
<1>2. CASE ~(mem'[b] = mem[b] /\ disk'[b] = disk[b])
  BY <1>2 DEF Saved
<1> QED BY <1>1, <1>2

LEMMA RequestSaves ==
    ASSUME TypeOK, AllSaved, NEW t \in Threads, Request(t), faults' = faults
    PROVE  AllSaved'
<1>0. /\ ThreadTypes /\ RecordTypes /\ faults \in Nat
      /\ pc[t] \in Pcs /\ (pc[t] # "idle" => batch[t] \in Batches)
  BY DEF TypeOK, ThreadTypes, AtWork, RecordTypes
<1>1. ~SaveFails
  BY <1>0 DEF SaveFails
<1>2. OthersStay(t)
  BY <1>0 DEF Request, SubmitBatch, CancelBatch, RetryBatch, SubmitMember,
              SubmitMemberRefused, ListMember, SaveMember, GiveUp, SaveCancel,
              CancelMember, CancelEnds, RetryMember, RetryRefused, RetryEnds, SaveRetry,
              StartOn, Finish, GoTo, GoToMember, OthersStay, ThreadTypes
<1> USE DEF Unsaved
<1>3. ASSUME NEW b \in Batches, SubmitBatch(t, b) PROVE AllSaved'
  <2>1. \A c \in Batches : (mem'[c] = mem[c] /\ disk'[c] = disk[c]) \/ mem'[c] = disk'[c]
    BY <1>0, <1>3 DEF SubmitBatch, RecordTypes
  <2>2. pc[t] = "idle"
    BY <1>3 DEF SubmitBatch, StartOn
  <2> QED BY <1>2, <2>1, <2>2, ChangeIsPending
<1>4. ASSUME NEW b \in Batches, CancelBatch(t, b) PROVE AllSaved'
  <2>1. \A c \in Batches \ {b} : mem'[c] = mem[c] /\ disk'[c] = disk[c]
    BY <1>0, <1>4 DEF CancelBatch, RecordTypes
  <2>2. pc[t] = "idle" /\ pc'[t] = "saving cancel" /\ batch'[t] = b
    BY <1>0, <1>4 DEF CancelBatch, StartOn, ThreadTypes
  <2> QED BY <1>2, <2>1, <2>2, ChangeIsPending
<1>5. CASE ListMember(t) \/ RetryEnds(t)
  <2>1. \A c \in Batches \ {batch[t]} : mem'[c] = mem[c] /\ disk'[c] = disk[c]
    BY <1>0, <1>5 DEF ListMember, RetryEnds, RecordTypes
  <2>2. /\ pc[t] \in {"listing", "retrying"} /\ pc'[t] \in {"saving member", "saving retry"}
        /\ batch'[t] = batch[t]
    BY <1>0, <1>5 DEF ListMember, RetryEnds, GoTo, ThreadTypes
  <2> QED BY <1>2, <2>1, <2>2, ChangeIsPending
<1>6. CASE \/ \E b \in Batches : RetryBatch(t, b)
           \/ SubmitMember(t) \/ SubmitMemberRefused(t) \/ CancelMember(t)
           \/ CancelEnds(t) \/ RetryMember(t) \/ RetryRefused(t)
  <2>1. UNCHANGED <<mem, disk>>
    BY <1>6 DEF RetryBatch, SubmitMember, SubmitMemberRefused, CancelMember, CancelEnds,
                RetryMember, RetryRefused, records
  <2>2. pc[t] \in {"idle", "submitting", "cancelling", "retrying"}
    BY <1>6 DEF RetryBatch, StartOn, SubmitMember, SubmitMemberRefused, CancelMember,
                CancelEnds, RetryMember, RetryRefused
  <2> QED BY <1>2, <2>1, <2>2, ChangeIsPending
<1>7. CASE SaveMember(t) \/ GiveUp(t) \/ SaveCancel(t) \/ SaveRetry(t)
  <2>1. SaveRecord(batch[t])
    BY <1>1, <1>7 DEF SaveMember, GiveUp, SaveCancel, SaveRetry
  <2> QED BY <1>0, <1>2, <2>1, SaveSettles
<1> QED BY <1>3, <1>4, <1>5, <1>6, <1>7 DEF Request

\* What a request changes in a live record is in the file or about to be
\* written to it, as long as no save has failed: no two requests undo each
\* other's changes, for any number of batches and threads, and over any
\* number of crashes.
THEOREM RecordsAreSaved == Spec => []NothingLeftUnsaved
<1>1. Init => NothingLeftUnsaved
  BY DEF Init, NothingLeftUnsaved
<1>2. TypeOK /\ NothingLeftUnsaved /\ [Next]_vars => NothingLeftUnsaved'
  <2> SUFFICES ASSUME TypeOK, NothingLeftUnsaved, [Next]_vars, faults' = 0, up'
               PROVE  AllSaved'
    BY DEF NothingLeftUnsaved, AllSaved, Saved
  <2>1. CASE UNCHANGED vars \/ JobStep
    <3>1. UNCHANGED <<up, mem, disk, pc, batch, faults>>
      BY <2>1 DEF vars, records, thread, bounds, JobStep
    <3> QED BY <3>1 DEF NothingLeftUnsaved, AllSaved, Saved
  <2>2. CASE Crash
    BY <2>2 DEF Crash
  <2>3. CASE Restart
    BY <2>3 DEF Restart, AllSaved, Saved
  <2>4. ASSUME NEW t \in Threads, Request(t) PROVE AllSaved'
    <3>1. faults = 0
      <4>1. faults' \in {faults, faults + 1}
        BY <2>4 DEF Request, SubmitBatch, CancelBatch, RetryBatch, SubmitMember,
                    SubmitMemberRefused, ListMember, SaveMember, GiveUp, SaveCancel,
                    CancelMember, CancelEnds, RetryMember, RetryRefused, RetryEnds,
                    SaveRetry, SaveRecord, SaveFails, bounds
      <4>2. faults \in Nat
        BY DEF TypeOK
      <4> QED BY <4>1, <4>2
    <3>2. up
      BY <2>4 DEF TypeOK, Request, SubmitBatch, CancelBatch, RetryBatch, StartOn,
                  SubmitMember, SubmitMemberRefused, ListMember, SaveMember, GiveUp,
                  SaveCancel, CancelMember, CancelEnds, RetryMember, RetryRefused,
                  RetryEnds, SaveRetry
    <3>3. AllSaved
      BY <3>1, <3>2 DEF NothingLeftUnsaved, AllSaved, Saved
    <3> QED BY <2>4, <3>1, <3>3, RequestSaves
  <2> QED BY <2>1, <2>2, <2>3, <2>4 DEF Next
<1> QED BY <1>1, <1>2, TypeCorrect, PTL DEF Spec

-----------------------------------------------------------------------------
(* A cancellation reaches every member it passes.                          *)

\* Job m is taken one step on, by the queue or by a request.
JobCall(m) ==
    \/ Job!Create(m) \/ Job!Begin(m) \/ Job!Finish(m) \/ Job!AcceptCancel(m)
    \/ Job!ConcludeCancel(m) \/ Job!Requeue(m) \/ Job!Interrupt(m)

\* A request that is under way runs in a live process and works on a batch.
LEMMA RequestRuns ==
    ASSUME TypeOK, NEW t \in Threads, Request(t)
    PROVE  /\ up /\ up'
           /\ pc[t] # "idle" => batch[t] \in Batches
           /\ \A u \in Threads \ {t} :
                /\ pc'[u] = pc[u] /\ batch'[u] = batch[u]
                /\ next'[u] = next[u] /\ visited'[u] = visited[u]
<1>1. up /\ up'
  BY DEF TypeOK, Request, SubmitBatch, CancelBatch, RetryBatch, StartOn,
         SubmitMember, SubmitMemberRefused, ListMember, SaveMember, GiveUp, SaveCancel,
         CancelMember, CancelEnds, RetryMember, RetryRefused, RetryEnds, SaveRetry,
         Finish, GoTo, GoToMember
<1>2. pc[t] # "idle" => batch[t] \in Batches
  BY DEF TypeOK
<1>3. ASSUME NEW u \in Threads \ {t}
      PROVE  /\ pc'[u] = pc[u] /\ batch'[u] = batch[u]
             /\ next'[u] = next[u] /\ visited'[u] = visited[u]
  BY DEF TypeOK, Request, SubmitBatch, CancelBatch, RetryBatch, StartOn,
         SubmitMember, SubmitMemberRefused, ListMember, SaveMember, GiveUp, SaveCancel,
         CancelMember, CancelEnds, RetryMember, RetryRefused, RetryEnds, SaveRetry,
         Finish, GoTo, GoToMember
<1> QED BY <1>1, <1>2, <1>3

\* A request calls the queue for one job at most: it creates the job it is
\* about to list, or it cancels or requeues the member it is at.
LEMMA RequestCalls ==
    ASSUME TypeOK, NEW t \in Threads, Request(t)
    PROVE  \/ UNCHANGED jobs
           \/ /\ pc[t] = "submitting" /\ <<batch[t], next[t]>> \in Members
              /\ Job!Create(<<batch[t], next[t]>>)
           \/ \E m \in Members : Job!AcceptCancel(m) \/ Job!Requeue(m)
<1>1. CASE SubmitMember(t)
  BY <1>1 DEF SubmitMember, TypeOK, SubmitPcs, Members
<1>2. CASE CancelMember(t) \/ RetryMember(t)
  <2>1. pc[t] # "idle" /\ MembersLeft(t)
    BY <1>2 DEF CancelMember, RetryMember
  <2>2. Current(t) \in Members
    BY <2>1, CurrentIsMember
  <2> QED BY <1>2, <2>2 DEF CancelMember, RetryMember
<1>3. CASE ~SubmitMember(t) /\ ~CancelMember(t) /\ ~RetryMember(t)
  BY <1>3 DEF Request, SubmitBatch, CancelBatch, RetryBatch, SubmitMemberRefused,
              ListMember, SaveMember, GiveUp, SaveCancel, CancelEnds, RetryRefused,
              RetryEnds, SaveRetry
<1> QED BY <1>1, <1>2, <1>3

\* A job that was passed at attempt a is not cancellable at that attempt.
Passed(j, a) ==
    /\ status[j] # "absent"
    /\ a <= attempt[j]
    /\ status[j] \in Cancellable => attempt[j] > a

\* Only a requeue, which is a later attempt, makes such a job wait again.
LEMMA PassedKept ==
    ASSUME JobTypes, NEW j \in Members, NEW a \in Nat, Passed(j, a),
           NEW m \in Members, JobCall(m)
    PROVE  Passed(j, a)'
<1>0. attempt[j] \in Nat
  BY DEF JobTypes
<1>1. CASE m # j
  <2>1. status'[j] = status[j] /\ attempt'[j] = attempt[j]
    BY <1>1 DEF JobTypes, JobCall, Job!Create, Job!Begin, Job!Finish, Job!AcceptCancel,
                Job!ConcludeCancel, Job!Requeue, Job!Interrupt, Job!Move
  <2> QED BY <2>1 DEF Passed
<1>2. CASE m = j /\ Job!Requeue(m)
  <2>1. status'[j] = "queued" /\ attempt'[j] = attempt[j] + 1
    BY <1>2 DEF JobTypes, Job!Requeue
  <2> QED BY <1>0, <2>1 DEF Passed
<1>3. CASE m = j /\ ~Job!Requeue(m)
  <2>1. /\ attempt'[j] = attempt[j]
        /\ status'[j] # "absent"
        /\ status'[j] \in Cancellable => status[j] \in Cancellable
    BY <1>3 DEF JobTypes, JobCall, Job!Create, Job!Begin, Job!Finish, Job!AcceptCancel,
                Job!ConcludeCancel, Job!Interrupt, Job!Move, Passed, Cancellable
  <2> QED BY <2>1 DEF Passed
<1> QED BY <1>1, <1>2, <1>3

LEMMA PassedStays ==
    ASSUME TypeOK, [Next]_vars, NEW j \in Members, NEW a \in Nat, Passed(j, a)
    PROVE  Passed(j, a)'
<1>0. JobTypes
  BY DEF TypeOK, JobTypes
<1>1. CASE UNCHANGED jobs
  BY <1>1 DEF jobs, Passed
<1>2. CASE \E m \in Members : JobCall(m)
  BY <1>0, <1>2, PassedKept
<1>3. UNCHANGED jobs \/ \E m \in Members : JobCall(m)
  <2>1. CASE UNCHANGED vars \/ Crash \/ Restart
    BY <2>1 DEF vars, Crash, Restart
  <2>2. CASE JobStep
    BY <2>2 DEF JobStep, JobCall
  <2>3. CASE \E t \in Threads : Request(t)
    BY <2>3, RequestCalls DEF JobCall
  <2> QED BY <2>1, <2>2, <2>3 DEF Next
<1> QED BY <1>1, <1>2, <1>3

\* The first members that list a names are those list b names.
Begins(a, b) == Len(a) <= Len(b) /\ \A k \in 1..Len(a) : b[k] = a[k]

LEMMA BeginsFacts ==
    /\ \A a \in Seq(Items) : Begins(a, a)
    /\ \A a \in Seq(Items), i \in Items : Begins(a, Append(a, i))
BY DEF Begins

\* Only the submission of a batch changes what its record lists.
LEMMA ListedKept ==
    ASSUME TypeOK, NEW t \in Threads, Request(t), NEW b \in Batches, mem[b].known,
           ~(ListMember(t) /\ batch[t] = b)
    PROVE  mem'[b].listed = mem[b].listed
<1>0. mem \in [Batches -> BatchRecords]
  BY DEF TypeOK
<1>1. CASE ListMember(t) \/ \E c \in Batches : SubmitBatch(t, c)
  <2>1. mem'[b] = mem[b]
    BY <1>0, <1>1 DEF ListMember, SubmitBatch
  <2> QED BY <2>1
<1>2. CASE RetryEnds(t) \/ \E c \in Batches : CancelBatch(t, c)
  <2>1. PICK c \in Batches, flag \in BOOLEAN : mem' = [mem EXCEPT ![c].cancel = flag]
    BY <1>2 DEF RetryEnds, CancelBatch, TypeOK
  <2> QED BY <1>0, <2>1 DEF BatchRecords
<1>3. CASE mem' = mem
  BY <1>3
<1> QED BY <1>1, <1>2, <1>3
        DEF Request, RetryBatch, SubmitMember, SubmitMemberRefused, SaveMember, GiveUp,
            SaveCancel, CancelMember, CancelEnds, RetryMember, RetryRefused, SaveRetry,
            SaveRecord, SaveFails, records

\* While the process runs, the list of a batch that is known only grows.
LEMMA ListedGrows ==
    ASSUME TypeOK, NEW t \in Threads, Request(t), NEW b \in Batches, mem[b].known
    PROVE  Begins(mem[b].listed, mem'[b].listed)
<1>0. mem \in [Batches -> BatchRecords] /\ mem[b].listed \in Seq(Items)
  BY DEF TypeOK, BatchRecords
<1>1. CASE ListMember(t) /\ b = batch[t]
  <2>1. mem'[b].listed = Append(mem[b].listed, next[t]) /\ next[t] \in Items
    BY <1>0, <1>1 DEF ListMember, TypeOK, SubmitPcs, BatchRecords
  <2> QED BY <1>0, <2>1, BeginsFacts
<1>2. CASE ~(ListMember(t) /\ b = batch[t])
  BY <1>0, <1>2, ListedKept, BeginsFacts
<1> QED BY <1>1, <1>2

CancelPcs == {"saving cancel", "cancelling"}

\* A cancellation has passed the members up to the one it is at.
CancelAt(t) ==
    pc[t] \in CancelPcs =>
        /\ Len(visited[t]) = next[t] - 1
        /\ Len(visited[t]) <= Len(mem[batch[t]].listed)
        /\ \A k \in 1..Len(visited[t]) :
            Passed(<<batch[t], mem[batch[t]].listed[k]>>, visited[t][k])

CancelInv == \A t \in Threads : CancelAt(t)

\* What a cancellation has done so far no step undoes.
LEMMA CancelStands ==
    ASSUME TypeOK, [Next]_vars, NEW u \in Threads, CancelAt(u),
           pc[u] \in CancelPcs,
           batch[u] \in Batches, batch'[u] = batch[u],
           next'[u] = next[u], visited'[u] = visited[u],
           Begins(mem[batch[u]].listed, mem'[batch[u]].listed)
    PROVE  CancelAt(u)'
<1>0. /\ mem[batch[u]].listed \in Seq(Items) /\ mem'[batch[u]].listed \in Seq(Items)
      /\ visited[u] \in Seq(Nat) /\ next[u] \in Nat
  BY TypeStep DEF TypeOK, BatchRecords
<1>1. /\ Len(visited[u]) \in Nat /\ Len(mem[batch[u]].listed) \in Nat
      /\ Len(mem'[batch[u]].listed) \in Nat
  BY <1>0
<1>2. Len(visited[u]) = next[u] - 1 /\ Len(visited[u]) <= Len(mem[batch[u]].listed)
  BY DEF CancelAt
<1>3. Len(visited[u]) <= Len(mem'[batch[u]].listed)
  BY <1>1, <1>2 DEF Begins
<1>4. ASSUME NEW k \in 1..Len(visited[u])
      PROVE  Passed(<<batch[u], mem[batch[u]].listed[k]>>, visited[u][k])'
  <2>1. k \in 1..Len(mem[batch[u]].listed) /\ visited[u][k] \in Nat
    BY <1>0, <1>1, <1>2
  <2>2. mem[batch[u]].listed[k] \in Items /\ mem'[batch[u]].listed[k] = mem[batch[u]].listed[k]
    BY <1>0, <2>1 DEF Begins
  <2>3. PICK j \in Members, a \in Nat :
            j = <<batch[u], mem[batch[u]].listed[k]>> /\ a = visited[u][k]
    BY <2>1, <2>2 DEF Members
  <2>4. Passed(j, a)
    BY <2>3 DEF CancelAt
  <2>5. Passed(j, a)'
    BY <2>4, PassedStays
  <2> QED BY <2>2, <2>3, <2>5
<1> QED BY <1>2, <1>3, <1>4 DEF CancelAt

\* The members that a record lists are jobs that exist.
LEMMA ListedExist ==
    ASSUME TypeOK, MemberInv, up, NEW b \in Batches, NEW k \in 1..Len(mem[b].listed)
    PROVE  status[<<b, mem[b].listed[k]>>] # "absent"
<1>1. PICK n \in 0..Size : mem[b].listed = Listing(n) /\ Created(b) \in {1..n, 1..(n + 1)}
  BY DEF MemberInv, LiveTracks, Tracks
<1>2. n \in Nat /\ Listing(n) \in Seq(Nat) /\ Len(Listing(n)) = n
  BY <1>1, BatchServiceAssumption DEF Listing
<1>3. k \in 1..n /\ Listing(n)[k] = k
  BY <1>1, <1>2 DEF Listing
<1>4. k \in Created(b)
  BY <1>1, <1>2, <1>3
<1> QED BY <1>1, <1>3, <1>4 DEF Created

\* A cancellation goes past a member after it has cancelled it, or has found
\* it no longer cancellable.
LEMMA CancelMemberPasses ==
    ASSUME TypeOK, MemberInv, NEW t \in Threads, CancelAt(t), CancelMember(t)
    PROVE  CancelAt(t)'
<1>0. /\ pc[t] # "idle" /\ pc[t] \in CancelPcs /\ MembersLeft(t) /\ JobTypes
      /\ up /\ batch[t] \in Batches /\ next[t] \in Nat /\ next[t] > 0
      /\ visited[t] \in Seq(Nat)
  BY DEF CancelMember, CancelPcs, TypeOK, JobTypes
<1>1. /\ mem' = mem /\ batch' = batch /\ next'[t] = next[t] + 1
      /\ visited'[t] = Append(visited[t], attempt[Current(t)])
  BY DEF CancelMember, TypeOK, records
<1>2. mem[batch[t]].listed \in Seq(Items)
  BY <1>0 DEF TypeOK, BatchRecords
<1>3. Current(t) \in Members /\ attempt[Current(t)] \in Nat
  BY <1>0, CurrentIsMember DEF JobTypes
<1>4. Len(visited[t]) \in Nat /\ Len(visited[t]) = next[t] - 1
  BY <1>0 DEF CancelAt
<1>5. next[t] \in 1..Len(mem[batch[t]].listed) /\ Len(mem[batch[t]].listed) \in Nat
  BY <1>0, <1>2 DEF MembersLeft
<1>6. Len(visited'[t]) = next'[t] - 1 /\ Len(visited'[t]) <= Len(mem'[batch'[t]].listed)
  BY <1>0, <1>1, <1>3, <1>4, <1>5
<1>7. ASSUME NEW k \in 1..Len(visited'[t])
      PROVE  Passed(<<batch[t], mem[batch[t]].listed[k]>>, visited[t][k])'
  <2>1. CASE k = next[t]
    <3>1. status[Current(t)] # "absent"
      BY <1>0, <1>5, ListedExist DEF Current
    <3>2. PICK j \in Members, a \in Nat : j = Current(t) /\ a = attempt[j]
      BY <1>3
    <3>3. /\ attempt'[j] = a /\ status'[j] # "absent" /\ status'[j] \notin Cancellable
      BY <1>0, <3>1, <3>2
         DEF CancelMember, Job!AcceptCancel, Job!Move, Cancellable, JobTypes, jobs
    <3>4. Passed(j, a)'
      BY <3>3 DEF Passed
    <3>5. visited'[t][k] = a
      BY <1>0, <1>1, <1>4, <2>1, <3>2
    <3>6. j = <<batch'[t], mem'[batch'[t]].listed[k]>>
      BY <1>1, <2>1, <3>2 DEF Current
    <3> QED BY <3>4, <3>5, <3>6
  <2>2. CASE k # next[t]
    <3>1. k \in 1..Len(visited[t])
      <4>1. Len(visited'[t]) = next[t]
        BY <1>0, <1>1, <1>6
      <4>2. k \in 1..next[t] /\ next[t] \in Nat /\ Len(visited[t]) = next[t] - 1
        BY <1>0, <1>4, <4>1
      <4> QED BY <2>2, <4>2
    <3>2. mem[batch[t]].listed[k] \in Items
      BY <1>2, <1>4, <1>5, <3>1
    <3>3. visited'[t][k] = visited[t][k] /\ visited[t][k] \in Nat
      BY <1>0, <1>1, <1>3, <3>1, SMTT(30)
    <3>4. PICK j \in Members, a \in Nat :
              j = <<batch[t], mem[batch[t]].listed[k]>> /\ a = visited[t][k]
      BY <1>0, <3>2, <3>3 DEF Members
    <3>5. Passed(j, a)
      BY <1>0, <3>1, <3>4 DEF CancelAt
    <3>6. Passed(j, a)'
      <4>1. [Next]_vars
        BY DEF Next, Request
      <4> QED BY <3>5, <4>1, PassedStays
    <3> QED BY <1>1, <3>3, <3>4, <3>6
  <2> QED BY <2>1, <2>2
<1> QED BY <1>6, <1>7 DEF CancelAt

LEMMA RequestCancels ==
    ASSUME TypeOK, MemberInv, CancelInv, NEW t \in Threads, Request(t)
    PROVE  CancelInv'
<1>0. [Next]_vars
  BY DEF Next
<1>1. ASSUME NEW u \in Threads \ {t} PROVE CancelAt(u)'
  <2>1. /\ pc'[u] = pc[u] /\ batch'[u] = batch[u]
        /\ next'[u] = next[u] /\ visited'[u] = visited[u]
    BY RequestRuns
  <2>2. CASE pc[u] \in CancelPcs
    <3>1. batch[u] \in Batches /\ mem[batch[u]].known
      BY <2>2 DEF TypeOK, CancelPcs, MemberInv, OneSubmitter
    <3>2. Begins(mem[batch[u]].listed, mem'[batch[u]].listed)
      BY <3>1, ListedGrows
    <3> QED BY <1>0, <2>1, <2>2, <3>1, <3>2, CancelStands DEF CancelInv
  <2>3. CASE pc[u] \notin CancelPcs
    BY <2>1, <2>3 DEF CancelAt
  <2> QED BY <2>2, <2>3
<1>2. CancelAt(t)'
  <2>1. ASSUME NEW b \in Batches, CancelBatch(t, b) PROVE CancelAt(t)'
    <3>1. visited'[t] = <<>> /\ next'[t] = 1 /\ batch'[t] = b
      BY <2>1 DEF CancelBatch, StartOn, TypeOK
    <3>2. mem'[b].listed \in Seq(Items)
      BY <1>0, TypeStep DEF TypeOK, BatchRecords
    <3>3. Len(<<>>) = 1 - 1 /\ Len(<<>>) <= Len(mem'[b].listed) /\ 1..Len(<<>>) = {}
      BY <3>2
    <3> QED BY <3>1, <3>3 DEF CancelAt
  <2>2. CASE SaveCancel(t) /\ GoTo(t, "cancelling")
    <3>1. /\ pc[t] \in CancelPcs /\ batch[t] \in Batches
          /\ batch'[t] = batch[t] /\ next'[t] = next[t] /\ visited'[t] = visited[t]
      BY <2>2 DEF SaveCancel, GoTo, CancelPcs, TypeOK
    <3>2. mem[batch[t]].known
      BY <2>2 DEF SaveCancel, MemberInv, OneSubmitter
    <3>3. Begins(mem[batch[t]].listed, mem'[batch[t]].listed)
      BY <3>1, <3>2, ListedGrows
    <3> QED BY <1>0, <3>1, <3>3, CancelStands DEF CancelInv
  <2>3. CASE CancelMember(t)
    BY <2>3, CancelMemberPasses DEF CancelInv
  <2>4. CASE pc'[t] \notin CancelPcs
    BY <2>4 DEF CancelAt
  <2>5. \/ \E b \in Batches : CancelBatch(t, b)
        \/ SaveCancel(t) /\ GoTo(t, "cancelling")
        \/ CancelMember(t) \/ pc'[t] \notin CancelPcs
    BY DEF Request, SubmitBatch, RetryBatch, StartOn, SubmitMember, SubmitMemberRefused,
           ListMember, SaveMember, GiveUp, SaveCancel, CancelEnds, RetryMember,
           RetryRefused, RetryEnds, SaveRetry, Finish, GoTo, GoToMember, CancelPcs, TypeOK
  <2> QED BY <2>1, <2>2, <2>3, <2>4, <2>5
<1> QED BY <1>1, <1>2 DEF CancelInv

\* A member that a cancellation has passed neither waits nor runs, unless it
\* was requeued since: for any number of batches, members and threads, and
\* whatever submissions and retries of the same batch go on beside it.
THEOREM CancelIsThorough == Spec => []CancelReachesMembers
<1>1. Init => CancelInv
  BY DEF Init, CancelInv, CancelAt, CancelPcs
<1>2. TypeOK /\ MemberInv /\ CancelInv /\ [Next]_vars => CancelInv'
  <2> SUFFICES ASSUME TypeOK, MemberInv, CancelInv, [Next]_vars, NEW u \in Threads
               PROVE  CancelAt(u)'
    BY DEF CancelInv
  <2>1. CASE UNCHANGED vars \/ JobStep
    <3>1. UNCHANGED <<mem, pc, batch, next, visited>>
      BY <2>1 DEF vars, records, thread, JobStep
    <3>2. CASE pc[u] \in CancelPcs
      <4>1. batch[u] \in Batches /\ mem[batch[u]].listed \in Seq(Items)
        BY <3>2 DEF TypeOK, CancelPcs, BatchRecords
      <4> QED BY <3>1, <3>2, <4>1, BeginsFacts, CancelStands DEF CancelInv
    <3>3. CASE pc[u] \notin CancelPcs
      BY <3>1, <3>3 DEF CancelAt
    <3> QED BY <3>2, <3>3
  <2>2. CASE Crash
    BY <2>2 DEF Crash, CancelAt, CancelPcs
  <2>3. CASE Restart
    BY <2>3 DEF Restart, thread, TypeOK, CancelAt, CancelPcs
  <2>4. CASE \E t \in Threads : Request(t)
    BY <2>4, RequestCancels DEF CancelInv
  <2> QED BY <2>1, <2>2, <2>3, <2>4 DEF Next
<1>3. CancelInv => CancelReachesMembers
  BY DEF CancelInv, CancelAt, CancelPcs, Passed, CancelReachesMembers
<1> QED BY <1>1, <1>2, <1>3, InitMembers, TypeCorrect, MemberStep, PTL DEF Spec

-----------------------------------------------------------------------------
(* A batch that has ended stays ended.                                     *)

\* What a record lists are items of the plan, so there are finitely many.
LEMMA CountIsNat ==
    ASSUME TypeOK, NEW b \in Batches, NEW S
    PROVE  /\ ToSet(mem[b].listed) \subseteq Items
           /\ Count(b, S) \in Nat
           /\ Count(b, S) = 0 <=> \A i \in ToSet(mem[b].listed) : status[<<b, i>>] \notin S
<1> DEFINE C == {i \in ToSet(mem[b].listed) : status[<<b, i>>] \in S}
<1>1. ToSet(mem[b].listed) \subseteq Items
  <2>1. mem[b].listed \in Seq(Items)
    BY DEF TypeOK, BatchRecords
  <2> QED BY <2>1 DEF ToSet
<1>2. IsFiniteSet(Items)
  BY BatchServiceAssumption, FS_Interval DEF Items
<1>3. IsFiniteSet(C)
  BY <1>1, <1>2, FS_Subset
<1>4. Cardinality(C) \in Nat /\ (Cardinality(C) = 0 <=> C = {})
  BY <1>3, FS_CardinalityType, FS_EmptySet
<1> QED BY <1>1, <1>4 DEF Count

Ended(b) == AggregateState(b) \notin {"queued", "running", "cancelling"}

AllRest(b) == \A i \in ToSet(mem[b].listed) : status[<<b, i>>] \notin Active

\* The members of a batch that has ended neither wait nor run.
LEMMA EndedAtRest ==
    ASSUME TypeOK, NEW b \in Batches, Ended(b)
    PROVE  AllRest(b)
<1>0. mem[b].listed \in Seq(Items)
  BY DEF TypeOK, BatchRecords
<1>1. CASE Len(mem[b].listed) = 0
  <2>1. ToSet(mem[b].listed) = {}
    BY <1>0, <1>1 DEF ToSet
  <2> QED BY <2>1 DEF AllRest
<1>2. CASE Len(mem[b].listed) # 0
  <2>1. ~(Count(b, Active) > 0)
    BY <1>2 DEF Ended, AggregateState
  <2>2. Count(b, Active) \in Nat
    BY CountIsNat
  <2>3. Count(b, Active) = 0
    BY <2>1, <2>2
  <2> QED BY <2>3, CountIsNat DEF AllRest
<1> QED BY <1>1, <1>2

\* As long as they do not, the state of the batch is a matter of what it
\* lists and how they ended; the cancel flag has no part in it.
LEMMA RestDecides ==
    ASSUME TypeOK, TypeOK', NEW b \in Batches, AllRest(b),
           mem'[b].listed = mem[b].listed,
           \A i \in ToSet(mem[b].listed) : status'[<<b, i>>] = status[<<b, i>>]
    PROVE  AggregateState(b)' = AggregateState(b)
<1>1. ASSUME NEW S PROVE Count(b, S)' = Count(b, S)
  BY DEF Count
<1>2. ~(Count(b, Active) > 0)
  <2>1. Count(b, Active) = 0
    BY CountIsNat DEF AllRest
  <2> QED BY <2>1
<1>3. ~(Count(b, Active)' > 0)
  BY <1>1, <1>2
<1>4. /\ Count(b, {"completed"})' = Count(b, {"completed"})
      /\ Count(b, {"failed"})' = Count(b, {"failed"})
  BY <1>1
<1> QED BY <1>2, <1>3, <1>4 DEF AggregateState

\* The queue takes a job that rests up again only by a requeue.
LEMMA RestKept ==
    ASSUME JobTypes, NEW m \in Members, JobCall(m), NEW j \in Members,
           status[j] \notin Active, attempt'[j] <= attempt[j],
           m = j => status[j] # "absent"
    PROVE  status'[j] = status[j]
<1>0. attempt[j] \in Nat
  BY DEF JobTypes
<1>1. CASE m # j
  BY <1>1 DEF JobTypes, JobCall, Job!Create, Job!Begin, Job!Finish, Job!AcceptCancel,
              Job!ConcludeCancel, Job!Requeue, Job!Interrupt, Job!Move
<1>2. CASE m = j /\ Job!Requeue(m)
  <2>1. attempt'[j] = attempt[j] + 1
    BY <1>2 DEF JobTypes, Job!Requeue
  <2> QED BY <1>0, <2>1
<1>3. CASE m = j /\ ~Job!Requeue(m)
  BY <1>3 DEF JobCall, Job!Create, Job!Begin, Job!Finish, Job!AcceptCancel,
              Job!ConcludeCancel, Job!Interrupt, Job!Move, Active
<1> QED BY <1>1, <1>2, <1>3

\* A batch that has ended, and whose submission is over, keeps its state until
\* one of its jobs is requeued: for any number of batches, members and
\* requests, and whichever of the flags and saves of the record change.
THEOREM EndIsFinal == Spec => EndedStaysEnded
<1>1. ASSUME TypeOK, MemberInv, [Next]_vars, NEW b \in Batches, up, up', mem[b].known,
             ~Submitting(b), Ended(b),
             ~\E i \in Items : attempt'[<<b, i>>] > attempt[<<b, i>>]
      PROVE  AggregateState(b)' = AggregateState(b)
  <2>0. JobTypes /\ JobTypes' /\ TypeOK' /\ AllRest(b)
    BY <1>1, TypeStep, EndedAtRest DEF TypeOK, JobTypes
  <2>1. ASSUME NEW i \in ToSet(mem[b].listed)
        PROVE  /\ i \in Items /\ <<b, i>> \in Members
               /\ status[<<b, i>>] # "absent" /\ status[<<b, i>>] \notin Active
               /\ attempt'[<<b, i>>] <= attempt[<<b, i>>]
    <3>1. i \in Items /\ <<b, i>> \in Members
      BY <1>1, CountIsNat DEF Members
    <3>2. status[<<b, i>>] # "absent"
      <4>1. mem[b].listed \in Seq(Items)
        BY <1>1 DEF TypeOK, BatchRecords
      <4>2. PICK k \in 1..Len(mem[b].listed) : i = mem[b].listed[k]
        BY <4>1 DEF ToSet
      <4> QED BY <1>1, <4>2, ListedExist
    <3>3. attempt'[<<b, i>>] \in Nat /\ attempt[<<b, i>>] \in Nat
      BY <2>0, <3>1 DEF JobTypes
    <3>4. ~(attempt'[<<b, i>>] > attempt[<<b, i>>])
      BY <1>1, <3>1
    <3> QED BY <2>0, <3>1, <3>2, <3>3, <3>4 DEF AllRest
  <2>2. ASSUME NEW m \in Members, JobCall(m), NEW i \in ToSet(mem[b].listed)
        PROVE  status'[<<b, i>>] = status[<<b, i>>]
    BY <2>0, <2>1, <2>2, RestKept
  <2>3. UNCHANGED jobs \/ \E m \in Members : JobCall(m)
    <3>1. CASE UNCHANGED vars \/ Crash \/ Restart
      BY <3>1 DEF vars, Crash, Restart
    <3>2. CASE JobStep
      BY <3>2 DEF JobStep, JobCall
    <3>3. CASE \E t \in Threads : Request(t)
      BY <1>1, <3>3, RequestCalls DEF JobCall
    <3> QED BY <1>1, <3>1, <3>2, <3>3 DEF Next
  <2>4. \A i \in ToSet(mem[b].listed) : status'[<<b, i>>] = status[<<b, i>>]
    BY <2>2, <2>3 DEF jobs
  <2>5. mem'[b].listed = mem[b].listed
    <3>1. CASE UNCHANGED vars \/ JobStep
      BY <3>1 DEF vars, records, JobStep
    <3>2. CASE Crash \/ Restart
      BY <1>1, <3>2 DEF Crash, Restart
    <3>3. ASSUME NEW t \in Threads, Request(t) PROVE mem'[b].listed = mem[b].listed
      <4>1. ~(ListMember(t) /\ batch[t] = b)
        BY <1>1 DEF ListMember, Submitting, SubmitPcs
      <4> QED BY <1>1, <3>3, <4>1, ListedKept
    <3> QED BY <1>1, <3>1, <3>2, <3>3 DEF Next
  <2> QED BY <1>1, <2>0, <2>4, <2>5, RestDecides
<1>2. TypeOK /\ MemberInv /\ [Next]_vars =>
        [\A b \in Batches :
            (up /\ up' /\ mem[b].known /\ ~Submitting(b)
                /\ AggregateState(b) \notin {"queued", "running", "cancelling"}
                /\ ~\E i \in Items : attempt'[<<b, i>>] > attempt[<<b, i>>])
            => AggregateState(b)' = AggregateState(b)]_vars
  BY <1>1 DEF Ended
<1> QED BY <1>2, InitMembers, TypeCorrect, MemberStep, PTL DEF Spec, EndedStaysEnded

-----------------------------------------------------------------------------
(* The composition.  Whatever a batch does to jobs is a move of the job    *)
(* lifecycle, of a job of its plan: the queue, which implements that       *)
(* lifecycle, can stand for it.                                            *)

\* Seen from the job files alone, batches and the requests that overlap on
\* them, crashes included, are the lifecycle of independent jobs.
THEOREM BatchKeepsLifecycle == Spec => Job!Spec
<1>1. Init => Job!Init
  BY DEF Init
<1>2. TypeOK /\ [Next]_vars => [Job!Next]_<<status, attempt>>
  <2> SUFFICES ASSUME TypeOK, [Next]_vars PROVE Job!Next \/ UNCHANGED jobs
    BY DEF jobs
  <2>1. CASE JobStep
    BY <2>1 DEF JobStep, Job!Next
  <2>2. CASE Crash \/ Restart \/ UNCHANGED vars
    BY <2>2 DEF Crash, Restart, vars
  <2>3. CASE \E t \in Threads : Request(t)
    BY <2>3, RequestCalls DEF Job!Next
  <2> QED BY <2>1, <2>2, <2>3 DEF Next
<1> QED BY <1>1, <1>2, TypeCorrect, PTL DEF Spec, Job!Spec

=============================================================================
