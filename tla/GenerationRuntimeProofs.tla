----------------------- MODULE GenerationRuntimeProofs -----------------------
(***************************************************************************)
(* Proofs about GenerationRuntime, for any set of models, administrators   *)
(* and requests and any amount of work: the shape of the state, that        *)
(* exclusive VRAM never holds two diffusion pipelines, that the files of a  *)
(* generation say what became of it, that models are whole but for the      *)
(* losses their property names, that activations take effect, and that no   *)
(* lock is left behind.  Nothing is assumed of how operations overlap.      *)
(***************************************************************************)
EXTENDS GenerationRuntime, TLAPS

-----------------------------------------------------------------------------
(* Type correctness. *)

\* A request moves to a place and ends in an outcome.
LEMMA ToTyped ==
    ASSUME TypeOK, NEW r \in Requests, NEW p \in Places, To(r, p)
    PROVE  pc' \in [Requests -> Places]
BY DEF TypeOK, To

LEMMA EndTyped ==
    ASSUME TypeOK, NEW r \in Requests, NEW p \in Ended, End(r, p)
    PROVE  /\ pc' \in [Requests -> Places]
           /\ lock' \in Requests \cup {None}
           /\ using' \in [Requests -> Known]
           /\ cancel' \in [Requests -> BOOLEAN]
BY ToTyped DEF TypeOK, End, Places, Known

LEMMA ProceedTyped ==
    ASSUME TypeOK, NEW r \in Requests, NEW p \in Places, Proceed(r, p)
    PROVE  /\ pc' \in [Requests -> Places]
           /\ lock' \in Requests \cup {None}
           /\ using' \in [Requests -> Known]
           /\ cancel' \in [Requests -> BOOLEAN]
<1>1. CASE cancel[r]
    BY <1>1, EndTyped DEF Proceed, Ended
<1>2. CASE ~cancel[r]
    BY <1>2, ToTyped DEF Proceed, Stay, held, TypeOK
<1> QED BY <1>1, <1>2

LEMMA ChosenTyped ==
    ASSUME StoreTypeOK
    PROVE  Chosen \in Models \cup {Configured}
BY NoneIsNoModel DEF StoreTypeOK, Chosen, GetActive, Usable

\* What an operation of the models API may write.
LEMMA OpTyped ==
    ASSUME StoreTypeOK, NEW a \in Admins
    PROVE  /\ op[a] \in Operations
           /\ op[a].model \in Models \cup {None}
           /\ op[a].parts \in SUBSET Parts
           /\ op[a].files \in SUBSET Parts
           /\ op[a].was \in BOOLEAN
           /\ op[a].left \in BOOLEAN
           /\ \A s \in Steps : Go(a, s) => op' \in [Admins -> Operations]
           /\ Done(a) => op' \in [Admins -> Operations]
<1>1. /\ op[a] \in Operations
      /\ op \in [Admins -> Operations]
    BY DEF StoreTypeOK, Operations
<1>2. NoOp \in Operations
    BY DEF NoOp, Operations, Steps
<1>3. ASSUME NEW s \in Steps, Go(a, s) PROVE op' \in [Admins -> Operations]
    BY <1>1, <1>3 DEF Go, Operations
<1>4. ASSUME Done(a) PROVE op' \in [Admins -> Operations]
    BY <1>1, <1>2, <1>4 DEF Done
<1>5. /\ op[a].model \in Models \cup {None}
      /\ op[a].parts \in SUBSET Parts
      /\ op[a].files \in SUBSET Parts
      /\ op[a].was \in BOOLEAN
      /\ op[a].left \in BOOLEAN
    BY <1>1 DEF Operations
<1> QED BY <1>1, <1>3, <1>4, <1>5

\* The budget only shrinks.
LEMMA SpendTyped == ASSUME StoreTypeOK, Spend PROVE budget' \in 0..MaxWork
BY MaxWorkIsNat DEF StoreTypeOK, Spend

\* An operation begins with a record of its own.
LEMMA BeginTyped ==
    ASSUME StoreTypeOK, NEW a \in Admins, NEW m \in Models, NEW s \in Steps,
           NEW was \in BOOLEAN, NEW files \in SUBSET Parts, Begin(a, m, s, was, files)
    PROVE  op' \in [Admins -> Operations] /\ budget' \in 0..MaxWork
<1>1. op' \in [Admins -> Operations]
    BY DEF StoreTypeOK, Begin, Operations
<1> QED BY <1>1, SpendTyped DEF Begin

\* A thread that is in an operation is in that of a model.
Named == \A a \in Admins : op[a].step # "idle" => op[a].model \in Models

StoreInv == StoreTypeOK /\ Named

LEMMA StoreInvInit == StoreInit => StoreInv
BY NoneIsNoModel, MaxWorkIsNat
   DEF StoreInit, StoreInv, StoreTypeOK, Named, NoOp, Operations, Records, Statuses, Steps

\* The step of a thread keeps the operations named.
LEMMA NamedKept ==
    ASSUME StoreInv, NEW a \in Admins
    PROVE  /\ \A s \in Steps : ~At(a, "idle") /\ Go(a, s) => Named'
           /\ Done(a) => Named'
           /\ \A m \in Models, s \in Steps, was \in BOOLEAN, files \in SUBSET Parts :
                Begin(a, m, s, was, files) => Named'
           /\ ~At(a, "idle") => op[a].model \in Models
<1>1. op \in [Admins -> Operations]
    BY DEF StoreInv, StoreTypeOK
<1>2. ~At(a, "idle") => op[a].model \in Models
    BY DEF StoreInv, Named, At
<1>3. ASSUME NEW s \in Steps, ~At(a, "idle"), Go(a, s) PROVE Named'
    BY <1>1, <1>2, <1>3 DEF Go, StoreInv, Named, Operations
<1>4. ASSUME Done(a) PROVE Named'
    BY <1>1, <1>4 DEF Done, StoreInv, Named, Operations, NoOp
<1>5. ASSUME NEW m \in Models, NEW s \in Steps, NEW was \in BOOLEAN,
             NEW files \in SUBSET Parts, Begin(a, m, s, was, files)
      PROVE  Named'
    BY <1>1, <1>5 DEF Begin, StoreInv, Named, Operations
<1> QED BY <1>2, <1>3, <1>4, <1>5

\* Every step of the models API keeps the shape of the store.
LEMMA OpStepTyped ==
    ASSUME StoreInv, NEW a \in Admins, OpStep(a)
    PROVE  StoreInv'
<1> DEFINE m == op[a].model
<1>1. /\ home \in [Models -> BOOLEAN]
      /\ tree \in [Models -> SUBSET Parts]
      /\ record \in [Models -> Records \cup {None}]
      /\ op \in [Admins -> Operations]
      /\ {active, saved, answered, cache} \subseteq Models \cup {Configured, None}
      /\ setting \in Models \cup {Configured}
      /\ cut \subseteq Models /\ raced \subseteq Models /\ untold \subseteq Models
      /\ budget \in 0..MaxWork
    BY DEF StoreInv, StoreTypeOK
<1>2. /\ m \in Models \cup {None} /\ op[a].parts \in SUBSET Parts
      /\ op[a].files \in SUBSET Parts /\ op[a].was \in BOOLEAN
      /\ \A s \in Steps : Go(a, s) => op' \in [Admins -> Operations]
      /\ Done(a) => op' \in [Admins -> Operations]
    BY OpTyped DEF StoreInv
<1>3. /\ \A s \in Steps : ~At(a, "idle") /\ Go(a, s) => Named'
      /\ Done(a) => Named'
      /\ ~At(a, "idle") => m \in Models
    BY NamedKept
<1>4. CASE Fetch(a)
    <2>1. op' \in [Admins -> Operations]
        BY <1>1, <1>2, <1>4 DEF Fetch, Operations, Steps
    <2>2. Named'
        BY <1>1, <1>2, <1>3, <1>4 DEF Fetch, At, Named, StoreInv, Operations
    <2> QED BY <1>1, <1>4, <2>1, <2>2 DEF Fetch, StoreInv, StoreTypeOK, history
<1>5. CASE CheckStaged(a)
    BY <1>1, <1>2, <1>3, <1>5 DEF CheckStaged, At, Steps, StoreInv, StoreTypeOK, history
<1>6. CASE Promote(a)
    <2>1. /\ home' \in [Models -> BOOLEAN]
          /\ tree' \in [Models -> SUBSET Parts]
        BY <1>1, <1>2, <1>6 DEF Promote
    <2>2. op' \in [Admins -> Operations] /\ Named'
        BY <1>2, <1>3, <1>6 DEF Promote, At, Steps
    <2>3. cut' \subseteq Models /\ untold' \subseteq Models
        <3>1. m \in Models
            BY <1>3, <1>6 DEF Promote, At
        <3> QED BY <1>1, <1>6, <3>1 DEF Promote
    <2> QED BY <1>1, <1>6, <2>1, <2>2, <2>3 DEF Promote, StoreInv, StoreTypeOK, history
<1>7. CASE WriteSidecar(a)
    BY <1>1, <1>2, <1>3, <1>7 DEF WriteSidecar, At, Steps, StoreInv, StoreTypeOK, history
<1>8. CASE Finalize(a)
    <2>1. /\ home' \in [Models -> BOOLEAN]
          /\ tree' \in [Models -> SUBSET Parts]
        BY <1>1, <1>8 DEF Finalize
    <2>2. m \in Models
        BY <1>3, <1>8 DEF Finalize, At
    <2>3. tree[m] \in SUBSET Parts
        BY <1>1, <2>2
    <2>4. [status |-> "installed", files |-> tree[m]] \in Records
        BY <2>3 DEF Records, Statuses
    <2>5. record' \in [Models -> Records \cup {None}]
        BY <1>1, <1>8, <2>4 DEF Finalize
    <2>6. saved' \in Models \cup {Configured, None}
        BY <1>1, <1>8 DEF Finalize
    <2> QED BY <1>1, <1>2, <1>3, <1>8, <2>1, <2>5, <2>6 DEF Finalize, StoreInv, StoreTypeOK, history
<1>9. CASE ApplySetting(a)
    BY <1>1, <1>2, <1>3, <1>9 DEF ApplySetting, At, Steps, StoreInv, StoreTypeOK, history
<1>10. CASE UnloadForActivation(a)
    BY <1>1, <1>2, <1>3, <1>10 DEF UnloadForActivation, At, StoreInv, StoreTypeOK, history
<1>11. CASE UnloadForDelete(a)
    <2>1. op' \in [Admins -> Operations] /\ Named'
        BY <1>2, <1>3, <1>11 DEF UnloadForDelete, At, Steps, Go
    <2> QED BY <1>1, <1>11, <2>1 DEF UnloadForDelete, StoreInv, StoreTypeOK, history
<1>12. CASE Unlink(a)
    <2>1. tree' \in [Models -> SUBSET Parts]
        <3>1. tree' = tree \/ \E p \in Parts : tree' = [tree EXCEPT ![m] = @ \ {p}]
            BY <1>2, <1>12 DEF Unlink
        <3> QED BY <1>1, <3>1
    <2>2. m \in Models
        BY <1>3, <1>12 DEF Unlink, At
    <2>3. op' \in [Admins -> Operations] /\ Named'
        <3>1. CASE Go(a, "metadata")
            BY <1>2, <1>3, <1>12, <3>1 DEF Unlink, At, Steps
        <3>2. ASSUME NEW p \in Parts, op' = [op EXCEPT ![a].parts = @ \ {p}]
              PROVE  op' \in [Admins -> Operations] /\ Named'
            BY <1>1, <1>2, <2>2, <3>2 DEF Operations, StoreInv, Named
        <3>3. ASSUME NEW p \in Parts,
                     op' = [op EXCEPT ![a].parts = @ \ {p}, ![a].left = TRUE]
              PROVE  op' \in [Admins -> Operations] /\ Named'
            <4>1. /\ op' \in [Admins -> Operations]
                  /\ \A b \in Admins : op'[b].model = op[b].model /\ op'[b].step = op[b].step
                <5>1. [op[a] EXCEPT !.parts = @ \ {p}] \in Operations
                    BY <1>1 DEF Operations
                <5>2. [op[a] EXCEPT !.parts = @ \ {p}, !.left = TRUE] \in Operations
                    BY <5>1 DEF Operations
                <5>3. op' = [op EXCEPT ![a] = [op[a] EXCEPT !.parts = @ \ {p}, !.left = TRUE]]
                    BY <1>1, <3>3
                <5> QED BY <1>1, <5>2, <5>3 DEF Operations
            <4> QED BY <4>1 DEF StoreInv, Named
        <3> QED BY <1>2, <1>12, <3>1, <3>2, <3>3 DEF Unlink
    <2> QED BY <1>1, <1>12, <2>1, <2>3 DEF Unlink, StoreInv, StoreTypeOK, history
<1>13. CASE EndDelete(a)
    <2>1. [status |-> "deletion_failed", files |-> op[a].files] \in Records
        BY <1>2 DEF Records, Statuses
    <2>2. m \in Models
        BY <1>3, <1>13 DEF EndDelete, At
    <2>3. record' \in [Models -> Records \cup {None}]
        BY <1>1, <1>13, <2>1 DEF EndDelete, Deleted, DeletionFailed
    <2>4. home' \in [Models -> BOOLEAN] /\ cut' \subseteq Models
        BY <1>1, <1>13, <2>2 DEF EndDelete, Deleted, DeletionFailed
    <2>5. {active', saved', answered', cache'} \subseteq Models \cup {Configured, None}
        BY <1>1, <1>13 DEF EndDelete, Deleted, DeletionFailed
    <2> QED BY <1>1, <1>2, <1>3, <1>13, <2>3, <2>4, <2>5 DEF EndDelete, StoreInv, StoreTypeOK
<1>14. CASE SaveRevalidated(a)
    <2>0. m \in Models
        BY <1>3, <1>14 DEF SaveRevalidated, At
    <2>1. [status |-> IF op[a].was THEN "installed" ELSE "invalid",
           files |-> IF op[a].files = {} THEN tree[m] ELSE op[a].files] \in Records
        BY <1>1, <1>2, <2>0 DEF Records, Statuses
    <2>2. record' \in [Models -> Records \cup {None}]
        BY <1>1, <1>14, <2>1 DEF SaveRevalidated
    <2>3. home' \in [Models -> BOOLEAN]
        BY <1>1, <1>14 DEF SaveRevalidated
    <2> QED BY <1>1, <1>2, <1>3, <1>14, <2>2, <2>3 DEF SaveRevalidated, StoreInv, StoreTypeOK, history
<1>15. CASE SetActive(a)
    <2>1. m \in Models
        BY <1>3, <1>15 DEF SetActive, At
    <2> QED BY <1>1, <1>2, <1>3, <1>15, <2>1
            DEF SetActive, At, Steps, StoreInv, StoreTypeOK, history
<1>16. CASE List(a)
    <2>1. m \in Models
        BY <1>3, <1>16 DEF List, At
    <2>2. op' \in [Admins -> Operations] /\ Named'
        <3>1. tree[m] \in SUBSET Parts
            BY <1>1, <2>1
        <3>2. op' = [op EXCEPT ![a].step = "unlink", ![a].parts = tree[m]]
            BY <1>16 DEF List
        <3>3. "unlink" \in Steps
            BY DEF Steps
        <3>4. /\ op' \in [Admins -> Operations]
              /\ \A b \in Admins : op'[b].model = op[b].model
              /\ \A b \in Admins \ {a} : op'[b].step = op[b].step
            <4>1. op[a] \in Operations /\ op'[a] = [op[a] EXCEPT !.step = "unlink", !.parts = tree[m]]
                BY <1>1, <3>2
            <4>2. op'[a] \in Operations /\ op'[a].model = op[a].model
                BY <3>1, <3>3, <4>1 DEF Operations
            <4>3. \A b \in Admins \ {a} : op'[b] = op[b]
                BY <1>1, <3>2
            <4>4. DOMAIN op' = Admins /\ op' = [b \in Admins |-> op'[b]]
                BY <1>1, <3>2
            <4> QED BY <1>1, <4>2, <4>3, <4>4
        <3> QED BY <2>1, <3>4 DEF StoreInv, Named
    <2> QED BY <1>1, <1>16, <2>2 DEF List, StoreInv, StoreTypeOK, history
<1> QED BY <1>4, <1>5, <1>6, <1>7, <1>8, <1>9, <1>10, <1>11, <1>12, <1>13, <1>14, <1>15, <1>16 DEF OpStep

LEMMA StoreStepTyped ==
    ASSUME StoreInv, NEW busy, StoreStep(busy)
    PROVE  StoreInv'
<1>1. /\ record \in [Models -> Records \cup {None}]
      /\ op \in [Admins -> Operations]
      /\ active \in Models \cup {Configured, None}
      /\ saved \in Models \cup {Configured, None}
    BY DEF StoreInv, StoreTypeOK
<1>2. \A m \in Models : record[m] # None => record[m].files \in SUBSET Parts
    BY <1>1 DEF Records
<1>3. ASSUME NEW a \in Admins, NEW m \in Models, NEW s \in Steps, NEW was \in BOOLEAN,
             NEW files \in SUBSET Parts, Begin(a, m, s, was, files)
      PROVE  /\ op' \in [Admins -> Operations]
             /\ budget' \in 0..MaxWork
             /\ Named'
    BY <1>3, BeginTyped, NamedKept DEF StoreInv
<1>4. ASSUME NEW a \in Admins, NEW m \in Models, BeginInstall(a, m) PROVE StoreInv'
    <2>1. "fetch" \in Steps /\ {} \in SUBSET Parts
        BY DEF Steps
    <2> QED BY <1>3, <1>4, <2>1 DEF BeginInstall, StoreInv, StoreTypeOK, history
<1>5. ASSUME NEW a \in Admins, NEW m \in Models, BeginActivate(a, m) PROVE StoreInv'
    <2>1. "activate" \in Steps /\ {} \in SUBSET Parts
        BY DEF Steps
    <2> QED BY <1>3, <1>5, <2>1 DEF BeginActivate, StoreInv, StoreTypeOK, history
<1>6. ASSUME NEW a \in Admins, NEW m \in Models, BeginRevalidate(a, m) PROVE StoreInv'
    <2>1. "save" \in Steps /\ record[m].files \in SUBSET Parts
        BY <1>2, <1>6 DEF BeginRevalidate, Steps
    <2> QED BY <1>3, <1>6, <2>1 DEF BeginRevalidate, Structured, StoreInv, StoreTypeOK, history
<1>7. ASSUME NEW a \in Admins, NEW m \in Models, BeginDelete(a, m, busy) PROVE StoreInv'
    <2>1. record[m].files \in SUBSET Parts
        BY <1>2, <1>7 DEF BeginDelete
    <2>2. (IF GetActive = m THEN "release" ELSE "list") \in Steps
        BY DEF Steps
    <2>3. (GetActive = m) \in BOOLEAN
        OBVIOUS
    <2>4. /\ op' \in [Admins -> Operations]
          /\ budget' \in 0..MaxWork
          /\ Named'
        BY <1>3, <1>7, <2>1, <2>2, <2>3 DEF BeginDelete
    <2> QED BY <1>7, <2>4 DEF BeginDelete, StoreInv, StoreTypeOK, history
<1>8. ASSUME NEW a \in Admins, OpStep(a) PROVE StoreInv'
    BY <1>8, OpStepTyped
<1>9. CASE SetStorageDirectory
    <2>1. PICK lost \in SUBSET Parts :
            op' = [b \in Admins |->
                     IF op[b].step \in {"fetch", "check", "promote"}
                     THEN [op[b] EXCEPT !.parts = @ \ lost, !.was = TRUE] ELSE op[b]]
        BY <1>9 DEF SetStorageDirectory
    <2>2. op' \in [Admins -> Operations]
        <3>1. ASSUME NEW b \in Admins
              PROVE  [op[b] EXCEPT !.parts = @ \ lost, !.was = TRUE] \in Operations
            BY <1>1 DEF Operations
        <3> QED BY <1>1, <2>1, <3>1
    <2>3. Named'
        BY <1>1, <2>1 DEF StoreInv, Named, Operations
    <2>4. budget' \in 0..MaxWork
        BY <1>9, SpendTyped DEF SetStorageDirectory, StoreInv
    <2> QED BY <1>1, <1>9, <2>2, <2>3, <2>4 DEF SetStorageDirectory, StoreInv, StoreTypeOK, history
<1> QED BY <1>4, <1>5, <1>6, <1>7, <1>8, <1>9 DEF StoreStep

LEMMA StoreRestartTyped ==
    ASSUME StoreInv, StoreRestart, budget' \in 0..MaxWork
    PROVE  StoreInv'
<1>1. op' \in [Admins -> Operations] /\ Named'
    BY DEF StoreRestart, NoOp, Operations, Steps, Named
<1>2. cut' \subseteq Models
    BY DEF StoreRestart
<1> QED BY <1>1, <1>2 DEF StoreRestart, StoreInv, StoreTypeOK, history

-----------------------------------------------------------------------------
(* The requests. *)

TypeInv == TypeOK /\ Named

\* What the steps of a request leave alone of the store.
LEMMA StoreKept ==
    ASSUME StoreInv, UNCHANGED storeVars, cache' \in Models \cup {Configured, None}
    PROVE  StoreInv'
BY DEF StoreInv, StoreTypeOK, Named, storeVars, modelVars, history

\* An availability check leaves the session in one of its three states.
LEMMA SessionTyped ==
    ASSUME TypeOK, EnsureSession \/ UNCHANGED remover
    PROVE  remover' \in Loads \ {"mended"}
BY DEF TypeOK, EnsureSession, Loads

LEMMA UnloadedTyped ==
    /\ \A x \in Loads : Unloaded(x) \in Loads
    /\ \A x \in Loads \ {"mended"} : Unloaded(x) \in Loads \ {"mended"}
BY DEF Loads, Unloaded

\* The part of the shape that the steps of a request change.
RequestShape ==
    /\ loader \in Requests \cup {None} /\ lock \in Requests \cup {None}
    /\ pc \in [Requests -> Places] /\ need \in [Requests -> Needs \cup {{}}]
    /\ cancel \in [Requests -> BOOLEAN]
    /\ using \in [Requests -> Known]
    /\ remover \in Loads \ {"mended"} /\ inpainter \in Loads
    /\ out \in [Requests -> SUBSET Files]

LEMMA RunTyped ==
    ASSUME TypeInv, NEW r \in Requests, Run(r)
    PROVE  TypeInv'
<1>1. TypeOK /\ StoreInv /\ RequestShape
    BY DEF TypeInv, TypeOK, StoreInv, RequestShape
<1>2. ASSUME NEW p \in Places, To(r, p) PROVE pc' \in [Requests -> Places]
    BY <1>1, <1>2, ToTyped
<1>3. ASSUME NEW p \in Ended, End(r, p)
      PROVE  /\ pc' \in [Requests -> Places]
             /\ lock' \in Requests \cup {None}
             /\ using' \in [Requests -> Known]
             /\ cancel' \in [Requests -> BOOLEAN]
    BY <1>1, <1>3, EndTyped
<1>4. ASSUME NEW p \in Places, Proceed(r, p)
      PROVE  /\ pc' \in [Requests -> Places]
             /\ lock' \in Requests \cup {None}
             /\ using' \in [Requests -> Known]
             /\ cancel' \in [Requests -> BOOLEAN]
    BY <1>1, <1>4, ProceedTyped
<1>5. /\ Chosen \in Models \cup {Configured}
      /\ cache \in Models \cup {Configured, None}
    BY <1>1, ChosenTyped DEF StoreInv, StoreTypeOK
<1>6. ASSUME Accept(r) PROVE RequestShape'
    BY <1>1, <1>2, <1>3, <1>4, <1>6 DEF Accept, Stay, held, RequestShape, Places, Ended
<1>7. ASSUME Execute(r) PROVE RequestShape'
    BY <1>1, <1>2, <1>3, <1>4, SessionTyped, <1>7 DEF Execute, Stay, held, RequestShape, Places, Ended
<1>8. ASSUME Validated(r) PROVE RequestShape'
    BY <1>1, <1>2, <1>3, <1>4, <1>8 DEF Validated, Stay, held, RequestShape, Places, Ended
<1>9. ASSUME Acquire(r) PROVE RequestShape'
    BY <1>1, <1>2, <1>3, <1>4, <1>9 DEF Acquire, Stay, held, RequestShape, Places, Ended
<1>10. ASSUME Prepare(r) PROVE RequestShape'
    BY <1>1, <1>2, <1>3, <1>4, UnloadedTyped, <1>10 DEF Prepare, Stay, held, RequestShape, Places, Ended
<1>11. ASSUME FindCached(r) PROVE RequestShape'
    BY <1>1, <1>2, <1>3, <1>4, <1>11 DEF FindCached, Stay, held, RequestShape, Places, Ended
<1>12. ASSUME Reuse(r) PROVE RequestShape'
    BY <1>1, <1>2, <1>3, <1>4, <1>5, <1>12 DEF Reuse, Known, Stay, held, RequestShape, Places, Ended
<1>13. ASSUME BeginLoad(r) PROVE RequestShape'
    BY <1>1, <1>2, <1>3, <1>4, <1>5, <1>13 DEF BeginLoad, Known, Stay, held, RequestShape, Places, Ended
<1>14. ASSUME EndLoad(r) PROVE RequestShape'
    BY <1>1, <1>2, <1>3, <1>4, <1>5, <1>14 DEF EndLoad, Known, Stay, held, RequestShape, Places, Ended
<1>15. ASSUME Sample(r) PROVE RequestShape'
    BY <1>1, <1>2, <1>3, <1>4, <1>15 DEF Sample, Known, Stay, held, RequestShape, Places, Ended
<1>16. ASSUME HandOver(r) PROVE RequestShape'
    BY <1>1, <1>2, <1>3, <1>4, <1>16 DEF HandOver, AfterCutout, Stay, held, RequestShape, Places, Ended
<1>17. ASSUME BeginCutout(r) PROVE RequestShape'
    BY <1>1, <1>2, <1>3, <1>4, SessionTyped, <1>17 DEF BeginCutout, Stay, held, RequestShape, Places, Ended
<1>18. ASSUME EndCutout(r) PROVE RequestShape'
    BY <1>1, <1>2, <1>3, <1>4, UnloadedTyped, <1>18 DEF EndCutout, AfterCutout, Stay, held, RequestShape, Places, Ended
<1>19. ASSUME BeginRepair(r) PROVE RequestShape'
    BY <1>1, <1>2, <1>3, <1>4, <1>19 DEF BeginRepair, EnsurePipeline, Loads, Stay, held, RequestShape, Places, Ended
<1>20. ASSUME EndRepair(r) PROVE RequestShape'
    BY <1>1, <1>2, <1>3, <1>4, <1>20 DEF EndRepair, Stay, held, RequestShape, Places, Ended
<1>21. ASSUME Finish(r) PROVE RequestShape'
    BY <1>1, <1>2, <1>3, <1>4, UnloadedTyped, <1>21 DEF Finish, Stay, held, RequestShape, Places, Ended
<1>22. ASSUME MakeDirectory(r) PROVE RequestShape'
    BY <1>1, <1>2, <1>3, <1>4, <1>22 DEF MakeDirectory, Files, Stay, held, RequestShape, Places, Ended
<1>23. ASSUME WriteOriginal(r) PROVE RequestShape'
    BY <1>1, <1>2, <1>3, <1>4, <1>23 DEF WriteOriginal, Write, Files, Stay, held, RequestShape, Places, Ended
<1>24. ASSUME WriteImage(r) PROVE RequestShape'
    BY <1>1, <1>2, <1>3, <1>4, <1>24 DEF WriteImage, Write, Files, Stay, held, RequestShape, Places, Ended
<1>25. ASSUME WriteManifest(r) PROVE RequestShape'
    BY <1>1, <1>2, <1>3, <1>4, <1>25 DEF WriteManifest, Write, Files, Stay, held, RequestShape, Places, Ended
<1>26. RequestShape'
    BY <1>6, <1>7, <1>8, <1>9, <1>10, <1>11, <1>12, <1>13, <1>14, <1>15, <1>16, <1>17, <1>18, <1>19, <1>20, <1>21, <1>22, <1>23, <1>24, <1>25 DEF Run
<1>27. UNCHANGED storeVars
    BY DEF Run, Accept, Execute, Validated, Acquire, Prepare, FindCached, Reuse, BeginLoad, EndLoad, Sample, HandOver, BeginCutout, EndCutout, BeginRepair, EndRepair, Finish, MakeDirectory, WriteOriginal, WriteImage, WriteManifest, Write
<1>28. cache' \in Models \cup {Configured, None}
    BY <1>1, <1>5 DEF Run, Accept, Execute, Validated, Acquire, Prepare, FindCached, Reuse, BeginLoad, EndLoad, Sample, HandOver, BeginCutout, EndCutout, BeginRepair, EndRepair, Finish, MakeDirectory, WriteOriginal, WriteImage, WriteManifest, Write, RequestShape, Known
<1> QED BY <1>1, <1>26, <1>27, <1>28, StoreKept DEF TypeInv, TypeOK, StoreInv, RequestShape

LEMMA TypeStep ==
    ASSUME TypeInv, [Next]_vars
    PROVE  TypeInv'
<1>1. TypeOK /\ StoreInv /\ RequestShape
    BY DEF TypeInv, TypeOK, StoreInv, RequestShape
<1>2. ASSUME NEW r \in Requests, Submit(r) PROVE TypeInv'
    <2>1. RequestShape'
        BY <1>1, <1>2, ToTyped, SessionTyped
           DEF Submit, Stay, held, RequestShape, Places, Submitting
    <2>2. budget' \in 0..MaxWork
        BY <1>1, <1>2, SpendTyped DEF Submit, StoreInv
    <2> QED BY <1>1, <1>2, <2>1, <2>2
            DEF Submit, TypeInv, TypeOK, StoreInv, StoreTypeOK, Named, modelVars, history, RequestShape
<1>3. ASSUME NEW r \in Requests, Cancel(r) PROVE TypeInv'
    <2>1. RequestShape'
        BY <1>1, <1>3 DEF Cancel, RequestShape
    <2> QED BY <1>1, <1>3, <2>1, StoreKept
            DEF Cancel, TypeInv, TypeOK, StoreInv, StoreTypeOK, RequestShape
<1>4. ASSUME NEW r \in Requests, Run(r) PROVE TypeInv'
    BY <1>4, RunTyped
<1>5. CASE Models_API
    <2>1. StoreInv'
        BY <1>1, <1>5, StoreStepTyped DEF Models_API
    <2>2. loader' \in Requests \cup {None}
        BY <1>1, <1>5 DEF Models_API, StoreStep, OpStep, BeginInstall, BeginActivate,
           BeginRevalidate, BeginDelete, Fetch, CheckStaged, Promote, WriteSidecar, Finalize,
           SetActive, ApplySetting, UnloadForActivation, UnloadForDelete, List, Unlink,
           EndDelete, SaveRevalidated, SetStorageDirectory, RequestShape
    <2> QED BY <1>1, <1>5, <2>1, <2>2
            DEF Models_API, runVars, held, TypeInv, TypeOK, StoreInv, RequestShape
<1>6. CASE Crash
    <2>1. RequestShape'
        BY <1>1, <1>6 DEF Crash, StoreRestart, RequestShape, Places, Ended, Known, Loads
    <2>2. StoreInv'
        BY <1>1, <1>6, SpendTyped, StoreRestartTyped DEF Crash, StoreInv
    <2> QED BY <2>1, <2>2 DEF TypeInv, TypeOK, StoreInv, RequestShape
<1>7. CASE UNCHANGED vars
    BY <1>1, <1>7 DEF vars, storeVars, modelVars, history, runVars, held, TypeInv, TypeOK, StoreTypeOK, Named
<1> QED BY <1>2, <1>3, <1>4, <1>5, <1>6, <1>7 DEF Next

LEMMA TypeInit == Init => TypeInv
<1> SUFFICES ASSUME Init PROVE TypeInv
    OBVIOUS
<1>1. StoreInv
    BY StoreInvInit DEF Init
<1>2. RequestShape
    BY DEF Init, StoreInit, RequestShape, Places, Submitting, Known, Loads
<1> QED BY <1>1, <1>2 DEF TypeInv, TypeOK, StoreInv, RequestShape

\* Every variable keeps its shape: the records of the models, the operations on
\* them and the requests, whatever fails and however often the process dies.
THEOREM TypeCorrect == Spec => []TypeOK
<1>1. Init => TypeInv
    BY TypeInit
<1>2. TypeInv /\ [Next]_vars => TypeInv'
    BY TypeStep
<1>3. TypeInv => TypeOK
    BY DEF TypeInv
<1> QED BY <1>1, <1>2, <1>3, PTL DEF Spec

-----------------------------------------------------------------------------
(* One diffusion pipeline.  A thread between Prepare and HandOver owns the   *)
(* generation lock; there may be a seam inpainter only while none is there,  *)
(* and no pipeline after HandOver until the seams are repaired.              *)

Locked == {"prepare", "pipeline", "reuse", "loading", "sampling", "handover",
           "cutout", "cutting", "repair", "repairing", "finish",
           "persist", "original", "image", "manifest"}
Diffusing == {"pipeline", "reuse", "loading", "sampling", "handover"}
Processed == {"cutout", "cutting", "repair", "repairing"}

LockInv ==
    /\ \A r \in Requests : pc[r] \in Locked => lock = r
    /\ \A r \in Requests : using[r] # None => pc[r] \in {"loading", "sampling"}
    /\ loader # None => pc[loader] = "loading"

VramInv ==
    Exclusive =>
        /\ inpainter \in Resident =>
             cache = None /\ \A r \in Requests : pc[r] \notin Diffusing
        /\ \A r \in Requests : pc[r] \in Processed => cache = None

ResidencyInv == TypeInv /\ LockInv /\ VramInv

\* Steps of the models API unload the pipeline or leave it alone.
LEMMA StoreStepResidency ==
    ASSUME NEW busy, StoreStep(busy)
    PROVE  cache' \in {cache, None} /\ UNCHANGED loader
BY DEF StoreStep, OpStep, BeginInstall, BeginActivate,
       BeginRevalidate, BeginDelete, Fetch, CheckStaged, Promote, WriteSidecar, Finalize,
       SetActive, ApplySetting, UnloadForActivation, UnloadForDelete, List, Unlink,
       EndDelete, SaveRevalidated, SetStorageDirectory

LEMMA RunLock ==
    ASSUME TypeInv, LockInv, NEW r \in Requests, Run(r)
    PROVE  LockInv'
<1>1. /\ pc \in [Requests -> Places] /\ using \in [Requests -> Known]
      /\ lock \in Requests \cup {None} /\ loader \in Requests \cup {None}
      /\ None \notin Requests
    BY NoneIsNoRequest DEF TypeInv, TypeOK
<1>2. CASE Accept(r)
    BY <1>1, <1>2 DEF Accept, To, End, Proceed, Stay, held, LockInv, Locked, storeVars, Ended
<1>3. CASE Execute(r)
    BY <1>1, <1>3 DEF Execute, To, End, Proceed, Stay, held, LockInv, Locked, storeVars, Ended
<1>4. CASE Validated(r)
    BY <1>1, <1>4 DEF Validated, To, End, Proceed, Stay, held, LockInv, Locked, storeVars, Ended
<1>5. CASE Acquire(r)
    BY <1>1, <1>5 DEF Acquire, To, End, Proceed, Stay, held, LockInv, Locked, storeVars, Ended
<1>6. CASE Prepare(r)
    BY <1>1, <1>6 DEF Prepare, To, End, Proceed, Stay, held, LockInv, Locked, storeVars, Ended
<1>7. CASE FindCached(r)
    BY <1>1, <1>7 DEF FindCached, To, End, Proceed, Stay, held, LockInv, Locked, storeVars, Ended
<1>8. CASE Reuse(r)
    BY <1>1, <1>8 DEF Reuse, To, End, Proceed, Stay, held, LockInv, Locked, storeVars, Ended
<1>9. CASE BeginLoad(r)
    BY <1>1, <1>9 DEF BeginLoad, To, End, Proceed, Stay, held, LockInv, Locked, storeVars, Ended
<1>10. CASE EndLoad(r)
    BY <1>1, <1>10 DEF EndLoad, To, End, Proceed, Stay, held, LockInv, Locked, storeVars, Ended
<1>11. CASE Sample(r)
    BY <1>1, <1>11 DEF Sample, To, End, Proceed, Stay, held, LockInv, Locked, storeVars, Ended
<1>12. CASE HandOver(r)
    BY <1>1, <1>12 DEF HandOver, AfterCutout, To, End, Proceed, Stay, held, LockInv, Locked, storeVars, Ended
<1>13. CASE BeginCutout(r)
    BY <1>1, <1>13 DEF BeginCutout, To, End, Proceed, Stay, held, LockInv, Locked, storeVars, Ended
<1>14. CASE EndCutout(r)
    BY <1>1, <1>14 DEF EndCutout, AfterCutout, To, End, Proceed, Stay, held, LockInv, Locked, storeVars, Ended
<1>15. CASE BeginRepair(r)
    BY <1>1, <1>15 DEF BeginRepair, To, End, Proceed, Stay, held, LockInv, Locked, storeVars, Ended
<1>16. CASE EndRepair(r)
    BY <1>1, <1>16 DEF EndRepair, To, End, Proceed, Stay, held, LockInv, Locked, storeVars, Ended
<1>17. CASE Finish(r)
    BY <1>1, <1>17 DEF Finish, To, End, Proceed, Stay, held, LockInv, Locked, storeVars, Ended
<1>18. CASE MakeDirectory(r)
    BY <1>1, <1>18 DEF MakeDirectory, To, End, Proceed, Stay, held, LockInv, Locked, storeVars, Ended
<1>19. CASE WriteOriginal(r)
    BY <1>1, <1>19 DEF WriteOriginal, Write, To, End, Proceed, Stay, held, LockInv, Locked, storeVars, Ended
<1>20. CASE WriteImage(r)
    BY <1>1, <1>20 DEF WriteImage, Write, To, End, Proceed, Stay, held, LockInv, Locked, storeVars, Ended
<1>21. CASE WriteManifest(r)
    BY <1>1, <1>21 DEF WriteManifest, Write, To, End, Proceed, Stay, held, LockInv, Locked, storeVars, Ended
<1> QED BY <1>2, <1>3, <1>4, <1>5, <1>6, <1>7, <1>8, <1>9, <1>10, <1>11, <1>12, <1>13, <1>14, <1>15, <1>16, <1>17, <1>18, <1>19, <1>20, <1>21 DEF Run

LEMMA RunVram ==
    ASSUME TypeInv, LockInv, VramInv, NEW r \in Requests, Run(r)
    PROVE  VramInv'
<1>1. /\ pc \in [Requests -> Places]
      /\ lock \in Requests \cup {None} /\ loader \in Requests \cup {None}
      /\ None \notin Requests /\ inpainter \in {"unloaded", "loaded", "broken", "mended"}
    BY NoneIsNoRequest DEF TypeInv, TypeOK, Loads
<1>2. \A q \in Requests : pc[q] \in Locked => lock = q
    BY DEF LockInv
<1>3. CASE Accept(r)
    BY <1>1, <1>2, <1>3 DEF Accept, To, End, Proceed, Stay, held, VramInv, Locked, Diffusing, Processed, Unloaded, Resident
<1>4. CASE Execute(r)
    BY <1>1, <1>2, <1>4 DEF Execute, To, End, Proceed, Stay, held, VramInv, Locked, Diffusing, Processed, Unloaded, Resident
<1>5. CASE Validated(r)
    BY <1>1, <1>2, <1>5 DEF Validated, To, End, Proceed, Stay, held, VramInv, Locked, Diffusing, Processed, Unloaded, Resident
<1>6. CASE Acquire(r)
    BY <1>1, <1>2, <1>6 DEF Acquire, To, End, Proceed, Stay, held, VramInv, Locked, Diffusing, Processed, Unloaded, Resident
<1>7. CASE Prepare(r)
    BY <1>1, <1>2, <1>7 DEF Prepare, To, End, Proceed, Stay, held, VramInv, Locked, Diffusing, Processed, Unloaded, Resident
<1>8. CASE FindCached(r)
    BY <1>1, <1>2, <1>8 DEF FindCached, To, End, Proceed, Stay, held, VramInv, Locked, Diffusing, Processed, Unloaded, Resident
<1>9. CASE Reuse(r)
    BY <1>1, <1>2, <1>9 DEF Reuse, To, End, Proceed, Stay, held, VramInv, Locked, Diffusing, Processed, Unloaded, Resident
<1>10. CASE BeginLoad(r)
    BY <1>1, <1>2, <1>10 DEF BeginLoad, To, End, Proceed, Stay, held, VramInv, Locked, Diffusing, Processed, Unloaded, Resident
<1>11. CASE EndLoad(r)
    BY <1>1, <1>2, <1>11 DEF EndLoad, To, End, Proceed, Stay, held, VramInv, Locked, Diffusing, Processed, Unloaded, Resident
<1>12. CASE Sample(r)
    BY <1>1, <1>2, <1>12 DEF Sample, To, End, Proceed, Stay, held, VramInv, Locked, Diffusing, Processed, Unloaded, Resident
<1>13. CASE HandOver(r)
    BY <1>1, <1>2, <1>13 DEF HandOver, AfterCutout, To, End, Proceed, Stay, held, VramInv, Locked, Diffusing, Processed, Unloaded, Resident
<1>14. CASE BeginCutout(r)
    BY <1>1, <1>2, <1>14 DEF BeginCutout, To, End, Proceed, Stay, held, VramInv, Locked, Diffusing, Processed, Unloaded, Resident
<1>15. CASE EndCutout(r)
    BY <1>1, <1>2, <1>15 DEF EndCutout, AfterCutout, To, End, Proceed, Stay, held, VramInv, Locked, Diffusing, Processed, Unloaded, Resident
<1>16. CASE BeginRepair(r)
    BY <1>1, <1>2, <1>16 DEF BeginRepair, EnsurePipeline, To, End, Proceed, Stay, held, VramInv, Locked, Diffusing, Processed, Unloaded, Resident
<1>17. CASE EndRepair(r)
    BY <1>1, <1>2, <1>17 DEF EndRepair, To, End, Proceed, Stay, held, VramInv, Locked, Diffusing, Processed, Unloaded, Resident
<1>18. CASE Finish(r)
    BY <1>1, <1>2, <1>18 DEF Finish, To, End, Proceed, Stay, held, VramInv, Locked, Diffusing, Processed, Unloaded, Resident
<1>19. CASE MakeDirectory(r)
    BY <1>1, <1>2, <1>19 DEF MakeDirectory, To, End, Proceed, Stay, held, VramInv, Locked, Diffusing, Processed, Unloaded, Resident
<1>20. CASE WriteOriginal(r)
    BY <1>1, <1>2, <1>20 DEF WriteOriginal, Write, To, End, Proceed, Stay, held, VramInv, Locked, Diffusing, Processed, Unloaded, Resident
<1>21. CASE WriteImage(r)
    BY <1>1, <1>2, <1>21 DEF WriteImage, Write, To, End, Proceed, Stay, held, VramInv, Locked, Diffusing, Processed, Unloaded, Resident
<1>22. CASE WriteManifest(r)
    BY <1>1, <1>2, <1>22 DEF WriteManifest, Write, To, End, Proceed, Stay, held, VramInv, Locked, Diffusing, Processed, Unloaded, Resident
<1> QED BY <1>3, <1>4, <1>5, <1>6, <1>7, <1>8, <1>9, <1>10, <1>11, <1>12, <1>13, <1>14, <1>15, <1>16, <1>17, <1>18, <1>19, <1>20, <1>21, <1>22 DEF Run

LEMMA LockStep ==
    ASSUME TypeInv, LockInv, [Next]_vars
    PROVE  LockInv'
<1>1. /\ pc \in [Requests -> Places] /\ using \in [Requests -> Known]
      /\ loader \in Requests \cup {None} /\ None \notin Requests
    BY NoneIsNoRequest DEF TypeInv, TypeOK
<1>2. ASSUME NEW r \in Requests, Submit(r) PROVE LockInv'
    <2>1. /\ pc[r] = "new" /\ pc' = [pc EXCEPT ![r] = "probing"]
          /\ UNCHANGED <<loader, lock, using>>
        BY <1>2 DEF Submit, To, held
    <2> QED BY <1>1, <2>1 DEF LockInv, Locked
<1>3. ASSUME NEW r \in Requests, Run(r) PROVE LockInv'
    BY <1>3, RunLock
<1>4. ASSUME UNCHANGED <<loader, pc, lock, using>> PROVE LockInv'
    BY <1>4 DEF LockInv
<1>5. CASE Models_API
    <2>1. StoreStep(JobsActive) /\ UNCHANGED <<pc, lock, using>>
        BY <1>5 DEF Models_API, runVars, held
    <2>2. UNCHANGED loader
        BY <2>1, StoreStepResidency
    <2> QED BY <1>4, <2>1, <2>2
<1>6. CASE Crash
    <2>1. /\ pc' = [r \in Requests |-> IF pc[r] \in Ended \cup {"new"} THEN pc[r] ELSE "lost"]
          /\ loader' = None /\ using' = [r \in Requests |-> None]
        BY <1>6 DEF Crash, StoreRestart
    <2>2. \A r \in Requests : pc'[r] \notin Locked
        BY <2>1 DEF Ended, Locked
    <2> QED BY <2>1, <2>2 DEF LockInv
<1>7. ASSUME NEW r \in Requests, Cancel(r) PROVE LockInv'
    BY <1>4, <1>7 DEF Cancel
<1>8. CASE UNCHANGED vars
    BY <1>4, <1>8 DEF vars, runVars, held
<1> QED BY <1>2, <1>3, <1>5, <1>6, <1>7, <1>8 DEF Next

LEMMA ResidencyStep ==
    ASSUME ResidencyInv, [Next]_vars
    PROVE  ResidencyInv'
<1>1. /\ TypeInv /\ LockInv /\ VramInv /\ TypeInv' /\ LockInv'
      /\ pc \in [Requests -> Places]
    BY TypeStep, LockStep DEF ResidencyInv, TypeInv, TypeOK
<1>2. ASSUME UNCHANGED <<pc, inpainter>>, cache' \in {cache, None} PROVE VramInv'
    BY <1>1, <1>2 DEF VramInv
<1>3. ASSUME NEW r \in Requests, Submit(r) PROVE VramInv'
    <2>1. /\ pc[r] = "new" /\ pc' = [pc EXCEPT ![r] = "probing"]
          /\ UNCHANGED <<cache, inpainter>>
        BY <1>3 DEF Submit, To
    <2> QED BY <1>1, <2>1 DEF VramInv, Diffusing, Processed
<1>4. ASSUME NEW r \in Requests, Run(r) PROVE VramInv'
    BY <1>1, <1>4, RunVram
<1>5. CASE Models_API
    <2>1. StoreStep(JobsActive) /\ UNCHANGED <<pc, inpainter>>
        BY <1>5 DEF Models_API, runVars
    <2>2. cache' \in {cache, None}
        BY <2>1, StoreStepResidency
    <2>3. VramInv'
        BY <1>2, <2>1, <2>2
    <2> QED BY <1>1, <2>3 DEF ResidencyInv
<1>6. CASE Crash
    <2>1. /\ cache' = None /\ inpainter' = "unloaded"
        BY <1>6 DEF Crash, StoreRestart
    <2>2. VramInv'
        BY <2>1 DEF VramInv, Resident
    <2> QED BY <1>1, <2>2 DEF ResidencyInv
<1>7. ASSUME NEW r \in Requests, Cancel(r) PROVE VramInv'
    BY <1>2, <1>7 DEF Cancel
<1>8. CASE UNCHANGED vars
    <2>1. VramInv'
        BY <1>2, <1>8 DEF vars, runVars
    <2> QED BY <1>1, <2>1 DEF ResidencyInv
<1> QED BY <1>1, <1>3, <1>4, <1>5, <1>6, <1>7, <1>8 DEF Next, ResidencyInv

\* With exclusive VRAM two diffusion pipelines are never resident together, for
\* any number of requests, models and operations on them: Prepare unloads the
\* inpainter before a pipeline may be loaded, HandOver the pipeline before the
\* inpainter may be, and no way out of the lock leaves a thread between them.
THEOREM Residency == Spec => []OneDiffusionPipeline
<1>1. Init => ResidencyInv
    <2> SUFFICES ASSUME Init PROVE ResidencyInv
        OBVIOUS
    <2>1. LockInv /\ VramInv
        BY DEF Init, StoreInit, LockInv, VramInv, Locked, Diffusing, Processed, Resident
    <2> QED BY <2>1, TypeInit DEF ResidencyInv
<1>2. ResidencyInv /\ [Next]_vars => ResidencyInv'
    BY ResidencyStep
<1>3. ResidencyInv => OneDiffusionPipeline
    <2> SUFFICES ASSUME ResidencyInv, Exclusive, inpainter \in Resident
                 PROVE  cache = None /\ loader = None /\ \A r \in Requests : using[r] = None
        BY DEF OneDiffusionPipeline
    <2>1. cache = None /\ \A r \in Requests : pc[r] \notin Diffusing
        BY DEF ResidencyInv, VramInv
    <2>2. \A r \in Requests : using[r] = None
        BY <2>1 DEF ResidencyInv, LockInv, Diffusing
    <2>3. loader = None
        BY <2>1 DEF ResidencyInv, LockInv, Diffusing, TypeInv, TypeOK
    <2> QED BY <2>1, <2>2, <2>3
<1> QED BY <1>1, <1>2, <1>3, PTL DEF Spec

-----------------------------------------------------------------------------
(* The files.  What a generation has on disk follows from where its thread   *)
(* is, and stays when the thread is gone.                                    *)

Originals(r) == IF Preserve /\ need[r] # {} THEN {"original"} ELSE {}
Written == {"original", "image", "manifest", "completed", "failed", "lost"}

FilesInv(r) ==
    /\ pc[r] \notin Written => out[r] = {}
    /\ pc[r] = "original" => Preserve /\ need[r] # {} /\ out[r] \ {"tmp.png"} = {"dir"}
    /\ pc[r] = "image" => out[r] \ {"tmp.png"} = {"dir"} \cup Originals(r)
    /\ pc[r] = "manifest" => out[r] \ {"tmp.json"} = {"dir", "image"} \cup Originals(r)
    /\ pc[r] = "completed" => out[r] = {"dir", "image", "manifest"} \cup Originals(r)
    /\ pc[r] = "failed" => out[r] \cap {"manifest", "tmp.png", "tmp.json"} = {}
    /\ pc[r] = "lost" =>
         /\ "manifest" \notin out[r]
         /\ "tmp.json" \in out[r] => "image" \in out[r] /\ "tmp.png" \notin out[r]

OutputInv == TypeInv /\ \A r \in Requests : FilesInv(r)

LEMMA RunFiles ==
    ASSUME TypeInv, NEW r \in Requests, FilesInv(r), Run(r)
    PROVE  FilesInv(r)'
<1>1. /\ pc \in [Requests -> Places] /\ out \in [Requests -> SUBSET Files]
      /\ need \in [Requests -> Needs \cup {{}}]
    BY DEF TypeInv, TypeOK
<1>2. CASE Accept(r)
    BY <1>1, <1>2 DEF Accept, To, End, Proceed, Stay, held, FilesInv, Written, Originals
<1>3. CASE Execute(r)
    BY <1>1, <1>3 DEF Execute, To, End, Proceed, Stay, held, FilesInv, Written, Originals
<1>4. CASE Validated(r)
    BY <1>1, <1>4 DEF Validated, To, End, Proceed, Stay, held, FilesInv, Written, Originals
<1>5. CASE Acquire(r)
    BY <1>1, <1>5 DEF Acquire, To, End, Proceed, Stay, held, FilesInv, Written, Originals
<1>6. CASE Prepare(r)
    BY <1>1, <1>6 DEF Prepare, To, End, Proceed, Stay, held, FilesInv, Written, Originals
<1>7. CASE FindCached(r)
    BY <1>1, <1>7 DEF FindCached, To, End, Proceed, Stay, held, FilesInv, Written, Originals
<1>8. CASE Reuse(r)
    BY <1>1, <1>8 DEF Reuse, To, End, Proceed, Stay, held, FilesInv, Written, Originals
<1>9. CASE BeginLoad(r)
    BY <1>1, <1>9 DEF BeginLoad, To, End, Proceed, Stay, held, FilesInv, Written, Originals
<1>10. CASE EndLoad(r)
    BY <1>1, <1>10 DEF EndLoad, To, End, Proceed, Stay, held, FilesInv, Written, Originals
<1>11. CASE Sample(r)
    BY <1>1, <1>11 DEF Sample, To, End, Proceed, Stay, held, FilesInv, Written, Originals
<1>12. CASE HandOver(r)
    BY <1>1, <1>12 DEF HandOver, AfterCutout, To, End, Proceed, Stay, held, FilesInv, Written, Originals
<1>13. CASE BeginCutout(r)
    BY <1>1, <1>13 DEF BeginCutout, To, End, Proceed, Stay, held, FilesInv, Written, Originals
<1>14. CASE EndCutout(r)
    BY <1>1, <1>14 DEF EndCutout, AfterCutout, To, End, Proceed, Stay, held, FilesInv, Written, Originals
<1>15. CASE BeginRepair(r)
    BY <1>1, <1>15 DEF BeginRepair, To, End, Proceed, Stay, held, FilesInv, Written, Originals
<1>16. CASE EndRepair(r)
    BY <1>1, <1>16 DEF EndRepair, To, End, Proceed, Stay, held, FilesInv, Written, Originals
<1>17. CASE Finish(r)
    BY <1>1, <1>17 DEF Finish, To, End, Proceed, Stay, held, FilesInv, Written, Originals
<1>18. CASE MakeDirectory(r)
    BY <1>1, <1>18 DEF MakeDirectory, KeepsOriginal, To, End, Proceed, Stay, held, FilesInv, Written, Originals
<1>19. CASE WriteOriginal(r)
    BY <1>1, <1>19 DEF WriteOriginal, Write, To, End, Proceed, Stay, held, FilesInv, Written, Originals
<1>20. CASE WriteImage(r)
    BY <1>1, <1>20 DEF WriteImage, Write, To, End, Proceed, Stay, held, FilesInv, Written, Originals
<1>21. CASE WriteManifest(r)
    BY <1>1, <1>21 DEF WriteManifest, Write, To, End, Proceed, Stay, held, FilesInv, Written, Originals
<1> QED BY <1>2, <1>3, <1>4, <1>5, <1>6, <1>7, <1>8, <1>9, <1>10, <1>11, <1>12, <1>13, <1>14, <1>15, <1>16, <1>17, <1>18, <1>19, <1>20, <1>21 DEF Run

\* The other requests are left alone.
LEMMA RunOthers ==
    ASSUME TypeInv, NEW r \in Requests, NEW q \in Requests, q # r, FilesInv(q),
           Run(r) \/ Submit(r) \/ Cancel(r)
    PROVE  FilesInv(q)'
<1>1. /\ pc \in [Requests -> Places] /\ out \in [Requests -> SUBSET Files]
      /\ need \in [Requests -> Needs \cup {{}}]
    BY DEF TypeInv, TypeOK
<1>2. pc'[q] = pc[q] /\ out'[q] = out[q] /\ need'[q] = need[q]
    BY <1>1 DEF Run, Submit, Cancel, To, End, Proceed, Write, Accept, Execute, Validated, Acquire, Prepare, FindCached, Reuse, BeginLoad, EndLoad, Sample, HandOver, BeginCutout, EndCutout, BeginRepair, EndRepair, Finish, MakeDirectory, WriteOriginal, WriteImage, WriteManifest
<1> QED BY <1>2 DEF FilesInv, Originals

LEMMA OutputStep ==
    ASSUME OutputInv, [Next]_vars
    PROVE  OutputInv'
<1>1. TypeInv /\ TypeInv' /\ \A r \in Requests : FilesInv(r)
    BY TypeStep DEF OutputInv
<1>2. /\ pc \in [Requests -> Places] /\ need \in [Requests -> Needs \cup {{}}]
      /\ out \in [Requests -> SUBSET Files]
    BY <1>1 DEF TypeInv, TypeOK
<1>3. SUFFICES ASSUME NEW q \in Requests PROVE FilesInv(q)'
    BY <1>1 DEF OutputInv
<1>4. FilesInv(q)
    BY <1>1
<1>5. ASSUME NEW r \in Requests, Run(r) PROVE FilesInv(q)'
    BY <1>1, <1>4, <1>5, RunFiles, RunOthers
<1>6. ASSUME NEW r \in Requests, Submit(r) PROVE FilesInv(q)'
    <2>1. CASE q # r
        BY <1>1, <1>4, <1>6, <2>1, RunOthers
    <2>2. CASE q = r
        <3>1. pc[q] = "new" /\ pc'[q] = "probing" /\ out'[q] = out[q]
            BY <1>2, <1>6, <2>2 DEF Submit, To
        <3>2. out[q] = {}
            BY <1>4, <3>1 DEF FilesInv, Written
        <3> QED BY <3>1, <3>2 DEF FilesInv
    <2> QED BY <2>1, <2>2
<1>7. ASSUME UNCHANGED <<pc, need, out>> PROVE FilesInv(q)'
    BY <1>4, <1>7 DEF FilesInv, Originals
<1>8. ASSUME NEW r \in Requests, Cancel(r) PROVE FilesInv(q)'
    BY <1>7, <1>8 DEF Cancel
<1>9. CASE Crash
    <2>1. /\ pc'[q] = IF pc[q] \in Ended \cup {"new"} THEN pc[q] ELSE "lost"
          /\ out'[q] = out[q] /\ need'[q] = need[q]
        BY <1>9 DEF Crash
    <2>2. CASE pc[q] \in Ended \cup {"new"}
        BY <1>4, <2>1, <2>2 DEF FilesInv, Originals
    <2>3. CASE pc[q] \notin Ended \cup {"new"}
        <3>1. /\ "manifest" \notin out[q]
              /\ "tmp.json" \in out[q] => "image" \in out[q] /\ "tmp.png" \notin out[q]
            <4>1. CASE pc[q] \notin Written
                BY <1>4, <4>1 DEF FilesInv
            <4>2. CASE pc[q] = "original"
                BY <1>4, <4>2 DEF FilesInv
            <4>3. CASE pc[q] = "image"
                BY <1>4, <4>3 DEF FilesInv, Originals
            <4>4. CASE pc[q] = "manifest"
                BY <1>4, <4>4 DEF FilesInv, Originals
            <4> QED BY <2>3, <4>1, <4>2, <4>3, <4>4 DEF Written, Ended
        <3>2. pc'[q] = "lost"
            BY <2>1, <2>3
        <3> QED BY <2>1, <3>1, <3>2 DEF FilesInv, Written
    <2> QED BY <2>2, <2>3
<1>10. CASE Models_API
    BY <1>7, <1>10 DEF Models_API, runVars
<1>11. CASE UNCHANGED vars
    BY <1>7, <1>11 DEF vars, runVars
<1> QED BY <1>5, <1>6, <1>8, <1>9, <1>10, <1>11 DEF Next

LEMMA OutputAlways == Spec => []OutputInv
<1>1. Init => OutputInv
    <2> SUFFICES ASSUME Init PROVE OutputInv
        OBVIOUS
    <2>1. \A r \in Requests : pc[r] = "new" /\ out[r] = {}
        BY DEF Init
    <2> QED BY <2>1, TypeInit DEF OutputInv, FilesInv
<1>2. OutputInv /\ [Next]_vars => OutputInv'
    BY OutputStep
<1> QED BY <1>1, <1>2, PTL DEF Spec

\* A completed generation has all its files and a cancelled one has none, for
\* any number of requests and crashes: the atomic writes of persist leave a
\* temporary file only in the directory of a thread that is still there, or
\* that died with the process.
THEOREM Outcome == Spec => []OutcomeIsHonest
<1>1. OutputInv => OutcomeIsHonest
    <2> SUFFICES ASSUME OutputInv, NEW r \in Requests
                 PROVE  /\ pc[r] = "completed" =>
                             out[r] = {"dir", "image", "manifest"} \cup Originals(r)
                        /\ pc[r] \in {"cancelled", "refused"} => out[r] = {}
                        /\ pc[r] = "failed" =>
                             out[r] \cap {"manifest", "tmp.png", "tmp.json"} = {}
        BY DEF OutcomeIsHonest, Originals
    <2>1. FilesInv(r)
        BY DEF OutputInv
    <2> QED BY <2>1 DEF FilesInv, Written
<1> QED BY <1>1, OutputAlways, PTL

\* What resolves is whole: a manifest, even one still in its temporary file, is
\* there only when the final image is, and then no temporary image is.
THEOREM WholeOrNothing == Spec => []ServedIsWhole
<1>1. OutputInv => ServedIsWhole
    <2> SUFFICES ASSUME OutputInv, NEW r \in Requests, Metadata(r) # {}
                 PROVE  "image" \in out[r] /\ Served(r) = {"image"}
        BY DEF ServedIsWhole
    <2>1. FilesInv(r) /\ pc[r] \in Places
        BY DEF OutputInv, TypeInv, TypeOK
    <2>2. "manifest" \in out[r] \/ "tmp.json" \in out[r]
        BY DEF Metadata
    <2>3. "image" \in out[r] /\ ("manifest" \in out[r] \/ "tmp.png" \notin out[r])
        <3>1. CASE pc[r] \notin Written
            BY <2>1, <2>2, <3>1 DEF FilesInv
        <3>2. CASE pc[r] \in {"original", "image"}
            BY <2>1, <2>2, <3>2 DEF FilesInv, Originals
        <3>3. CASE pc[r] = "manifest"
            BY <2>1, <2>2, <3>3 DEF FilesInv, Originals
        <3>4. CASE pc[r] = "completed"
            BY <2>1, <2>2, <3>4 DEF FilesInv, Originals
        <3>5. CASE pc[r] = "failed"
            BY <2>1, <2>2, <3>5 DEF FilesInv
        <3>6. CASE pc[r] = "lost"
            BY <2>1, <2>2, <3>6 DEF FilesInv
        <3> QED BY <3>1, <3>2, <3>3, <3>4, <3>5, <3>6 DEF Written
    <2> QED BY <2>3 DEF Served
<1> QED BY <1>1, OutputAlways, PTL

-----------------------------------------------------------------------------
(* Whole models.  The handlers of the models API run in a pool of threads    *)
(* without a lock, and nothing is assumed of how they overlap.  The models    *)
(* whose deletion met a revalidation or another deletion are in raced; of     *)
(* every other one the operations under way know enough, and exclude one      *)
(* another enough, for its record to be true of its directory.                *)

Installs == {"sidecar", "finalize"}
Deletes  == {"release", "list", "unlink", "metadata"}
Rewrites == Deletes \cup {"save"}

Recorded(m) ==
    /\ record[m] # None => home[m] /\ (m \notin untold => record[m].files = Parts)
    /\ Usable(m) /\ m \notin Deleting \cup cut =>
         Structured(tree[m]) /\ record[m].files \subseteq tree[m]

\* What an operation on m that has begun may count on.
Grounded(a, m) ==
    /\ op[a].step \in {"check", "promote"} /\ ~op[a].was => op[a].parts = Parts
    /\ op[a].step \in Installs =>
         home[m] /\ record[m] = None /\ (m \notin untold => tree[m] = Parts)
    /\ op[a].step \in Rewrites => record[m] # None /\ (m \notin untold => op[a].files = Parts)
    /\ op[a].step = "save" /\ op[a].was => Structured(tree[m]) /\ op[a].files \subseteq tree[m]

\* One install at most has reached the directory of m, and who deletes m is
\* alone with its record.
Alone(m) ==
    \A a, b \in Admins :
        op[a].model = m /\ op[b].model = m =>
            /\ op[a].step \in Installs /\ op[b].step \in Installs => a = b
            /\ op[a].step \in Deletes /\ op[b].step \in Rewrites => a = b

Sound(m) == Recorded(m) /\ Alone(m) /\ \A a \in Admins : op[a].model = m => Grounded(a, m)

WholeInv == StoreInv /\ \A m \in Models \ raced : Sound(m)

\* Where an operation is after one of its steps.
LEMMA Moved ==
    ASSUME StoreInv, NEW a \in Admins
    PROVE  /\ \A s \in Steps : Go(a, s) =>
                /\ op'[a].step = s /\ op'[a].model = op[a].model
                /\ op'[a].was = op[a].was /\ op'[a].files = op[a].files
                /\ op'[a].parts = op[a].parts
                /\ \A b \in Admins \ {a} : op'[b] = op[b]
           /\ Done(a) => /\ op'[a].step = "idle"
                         /\ \A b \in Admins \ {a} : op'[b] = op[b]
<1>1. op \in [Admins -> Operations]
    BY DEF StoreInv, StoreTypeOK
<1>2. ASSUME NEW s \in Steps, Go(a, s)
      PROVE  /\ op'[a].step = s /\ op'[a].model = op[a].model
             /\ op'[a].was = op[a].was /\ op'[a].files = op[a].files
             /\ op'[a].parts = op[a].parts
             /\ \A b \in Admins \ {a} : op'[b] = op[b]
    BY <1>1, <1>2 DEF Go, Operations
<1>3. ASSUME Done(a)
      PROVE  op'[a].step = "idle" /\ \A b \in Admins \ {a} : op'[b] = op[b]
    BY <1>1, <1>3 DEF Done, NoOp
<1> QED BY <1>2, <1>3

\* Nothing of n changes.
Same(n) ==
    /\ home'[n] = home[n] /\ tree'[n] = tree[n] /\ record'[n] = record[n]
    /\ n \in untold' <=> n \in untold
    /\ n \in cut' <=> n \in cut

\* A step on m leaves the other models and the operations on them alone.
LEMMA Elsewhere ==
    ASSUME WholeInv, StoreInv', NEW a \in Admins, NEW m \in Models,
           raced \subseteq raced',
           op[a].step = "idle" \/ op[a].model = m,
           op'[a].step = "idle" \/ op'[a].model = m,
           \A b \in Admins \ {a} : op'[b] = op[b],
           \A n \in Models \ {m} : Same(n),
           m \notin raced' => Sound(m)'
    PROVE  WholeInv'
<1>1. ASSUME NEW n \in Models, n \notin raced', n # m PROVE Sound(n)'
    <2>1. Recorded(n) /\ Alone(n) /\ (\A b \in Admins : op[b].model = n => Grounded(b, n))
        BY <1>1 DEF WholeInv, Sound
    <2>2. Same(n)
        BY <1>1
    <2>3. ASSUME n \in Deleting PROVE n \in Deleting'
        <3>1. PICK b \in Admins : op[b].step \in {"unlink", "metadata"} /\ op[b].model = n
            BY <2>3 DEF Deleting, Under
        <3>2. op'[b] = op[b]
            BY <1>1, <3>1
        <3> QED BY <3>1, <3>2 DEF Deleting, Under
    <2>4. Recorded(n)'
        BY <2>1, <2>2, <2>3 DEF Recorded, Usable, Same
    <2>5. Alone(n)'
        BY <1>1, <2>1 DEF Alone, Installs, Deletes, Rewrites
    <2>6. ASSUME NEW b \in Admins, op'[b].model = n PROVE Grounded(b, n)'
        <3>1. CASE b = a
            BY <1>1, <2>6, <3>1 DEF Grounded, Installs, Rewrites, Deletes
        <3>2. CASE b # a
            BY <2>1, <2>2, <2>6, <3>2 DEF Grounded, Same
        <3> QED BY <3>1, <3>2
    <2> QED BY <2>4, <2>5, <2>6 DEF Sound
<1> QED BY <1>1 DEF WholeInv

\* A step of an operation that changes nothing of m keeps what is known of it.
LEMMA Steady ==
    ASSUME NEW m \in Models, NEW a \in Admins, Sound(m), Same(m),
           \A b \in Admins \ {a} : op'[b] = op[b],
           m \in Deleting => m \in Deleting' \cup cut', Alone(m)',
           op'[a].model = m => Grounded(a, m)'
    PROVE  Sound(m)'
<1>1. Recorded(m)'
    BY DEF Sound, Recorded, Usable, Same
<1>2. ASSUME NEW b \in Admins, op'[b].model = m PROVE Grounded(b, m)'
    <2>1. CASE b = a
        BY <1>2, <2>1
    <2>2. CASE b # a
        BY <1>2, <2>2 DEF Sound, Grounded, Same
    <2> QED BY <2>1, <2>2
<1> QED BY <1>1, <1>2 DEF Sound

\* An operation that goes on with what it was at excludes whom it did.
LEMMA StillAlone ==
    ASSUME NEW m \in Models, NEW a \in Admins, Alone(m),
           \A b \in Admins \ {a} : op'[b] = op[b],
           op'[a].model = m /\ op'[a].step \in Installs =>
               op[a].model = m /\ op[a].step \in Installs,
           op'[a].model = m /\ op'[a].step \in Deletes =>
               op[a].model = m /\ op[a].step \in Deletes,
           op'[a].model = m /\ op'[a].step \in Rewrites =>
               op[a].model = m /\ op[a].step \in Rewrites
    PROVE  Alone(m)'
<1> SUFFICES ASSUME NEW b \in Admins, NEW c \in Admins,
                    op'[b].model = m, op'[c].model = m
             PROVE  /\ op'[b].step \in Installs /\ op'[c].step \in Installs => b = c
                    /\ op'[b].step \in Deletes /\ op'[c].step \in Rewrites => b = c
    BY DEF Alone, Installs, Deletes, Rewrites
<1>1. /\ op'[b].step \in Installs => op[b].model = m /\ op[b].step \in Installs
      /\ op'[c].step \in Installs => op[c].model = m /\ op[c].step \in Installs
    BY DEF Installs
<1>2. op'[b].step \in Deletes => op[b].model = m /\ op[b].step \in Deletes
    BY DEF Deletes
<1>3. op'[c].step \in Rewrites => op[c].model = m /\ op[c].step \in Rewrites
    BY DEF Rewrites
<1> QED BY <1>1, <1>2, <1>3 DEF Alone

\* An operation that begins finds the directories and the records as they are,
\* and puts the model in raced when it is not alone with it.
LEMMA BeginWhole ==
    ASSUME WholeInv, StoreInv', NEW a \in Admins, NEW m \in Models,
           NEW s \in Steps, NEW was \in BOOLEAN, NEW files \in SUBSET Parts,
           Begin(a, m, s, was, files), UNCHANGED <<home, tree, record, cut, untold>>,
           raced \subseteq raced', s \notin Installs \cup {"check", "promote"},
           s \in Rewrites => record[m] # None /\ files = record[m].files,
           s = "save" /\ was => Structured(tree[m]) /\ files \subseteq tree[m],
           m \notin raced' /\ s \in Deletes =>
               \A b \in Admins : ~(op[b].model = m /\ op[b].step \in Rewrites),
           m \notin raced' /\ s = "save" =>
               \A b \in Admins : ~(op[b].model = m /\ op[b].step \in Deletes)
    PROVE  WholeInv'
<1>1. op \in [Admins -> Operations]
    BY DEF WholeInv, StoreInv, StoreTypeOK
<1>2. /\ op[a].step = "idle"
      /\ op'[a].step = s /\ op'[a].model = m /\ op'[a].was = was /\ op'[a].files = files
      /\ \A b \in Admins \ {a} : op'[b] = op[b]
    BY <1>1 DEF Begin
<1>3. \A n \in Models : Same(n)
    BY DEF Same
<1>4. ASSUME m \notin raced' PROVE Sound(m)'
    <2>1. Sound(m)
        BY <1>4 DEF WholeInv
    <2>2. m \in Deleting => m \in Deleting'
        BY <1>2 DEF Deleting, Under
    <2>3. Grounded(a, m)'
        BY <1>2, <2>1 DEF Sound, Recorded, Grounded
    <2>4. Alone(m)'
        <3> SUFFICES ASSUME NEW b \in Admins, NEW c \in Admins,
                            op'[b].model = m, op'[c].model = m
                     PROVE  /\ op'[b].step \in Installs /\ op'[c].step \in Installs => b = c
                            /\ op'[b].step \in Deletes /\ op'[c].step \in Rewrites => b = c
            BY DEF Alone, Installs, Deletes, Rewrites
        <3>1. CASE b # a /\ c # a
            BY <1>2, <2>1, <3>1 DEF Sound, Alone
        <3>2. CASE b = a /\ c = a
            BY <3>2
        <3>3. CASE b = a /\ c # a
            BY <1>2, <1>4, <3>3
        <3>4. CASE b # a /\ c = a
            <4>1. s \notin Installs /\ op[b].model = m /\ op'[b].step = op[b].step
                BY <1>2, <3>4
            <4>2. s \in Rewrites => s \in Deletes \/ s = "save"
                BY DEF Rewrites
            <4>3. op[b].step \in Deletes => op[b].step \in Rewrites
                BY DEF Rewrites
            <4> QED BY <1>2, <1>4, <3>4, <4>1, <4>2, <4>3
        <3> QED BY <3>1, <3>2, <3>3, <3>4
    <2> QED BY <1>2, <1>3, <2>1, <2>2, <2>3, <2>4, Steady
<1> QED BY <1>2, <1>3, <1>4, Elsewhere

LEMMA OpStepWhole ==
    ASSUME WholeInv, NEW a \in Admins, OpStep(a)
    PROVE  WholeInv'
<1>1. /\ StoreInv /\ StoreInv'
      /\ home \in [Models -> BOOLEAN]
      /\ tree \in [Models -> SUBSET Parts]
      /\ record \in [Models -> Records \cup {None}]
      /\ op \in [Admins -> Operations]
    BY OpStepTyped DEF WholeInv, StoreInv, StoreTypeOK
<1>2. ~At(a, "idle") /\ raced' = raced
    BY DEF OpStep, At, Fetch, CheckStaged, Promote, WriteSidecar, Finalize, SetActive,
       ApplySetting, UnloadForActivation, UnloadForDelete, List, Unlink, EndDelete,
       SaveRevalidated, history
<1>3. PICK m \in Models : op[a].model = m
    BY <1>1, <1>2 DEF StoreInv, Named, At
<1>4. ASSUME m \notin raced
      PROVE  Sound(m) /\ Recorded(m) /\ Alone(m) /\ Grounded(a, m)
    BY <1>3, <1>4 DEF WholeInv, Sound
<1>5. /\ \A s \in Steps : Go(a, s) =>
            /\ op'[a].step = s /\ op'[a].model = m
            /\ op'[a].was = op[a].was /\ op'[a].files = op[a].files
            /\ op'[a].parts = op[a].parts
            /\ \A b \in Admins \ {a} : op'[b] = op[b]
      /\ Done(a) => op'[a].step = "idle" /\ \A b \in Admins \ {a} : op'[b] = op[b]
    BY <1>1, <1>3, Moved
<1>6. ASSUME \A b \in Admins \ {a} : op'[b] = op[b],
             op'[a].step = "idle" \/ op'[a].model = m,
             \A n \in Models \ {m} : Same(n),
             m \notin raced => Sound(m)'
      PROVE  WholeInv'
    BY <1>1, <1>2, <1>3, <1>6, Elsewhere
<1>7. ASSUME \A b \in Admins \ {a} : op'[b] = op[b],
             op'[a].step = "idle" \/
                 (/\ op'[a].model = m
                  /\ op'[a].step \in Installs => op[a].step \in Installs
                  /\ op'[a].step \in Deletes => op[a].step \in Deletes
                  /\ op'[a].step \in Rewrites => op[a].step \in Rewrites),
             m \notin raced
      PROVE  Alone(m)'
    <2>1. "idle" \notin Installs \cup Deletes \cup Rewrites
        BY DEF Installs, Deletes, Rewrites
    <2> QED BY <1>3, <1>4, <1>7, <2>1, StillAlone
\* The steps that touch no file and no record.
<1>8. ASSUME \A b \in Admins \ {a} : op'[b] = op[b],
             \A n \in Models : Same(n),
             op'[a].step = "idle" \/
                 (/\ op'[a].model = m
                  /\ op'[a].step \in Installs => op[a].step \in Installs
                  /\ op'[a].step \in Deletes => op[a].step \in Deletes
                  /\ op'[a].step \in Rewrites => op[a].step \in Rewrites),
             At(a, "unlink") \/ At(a, "metadata") => op'[a].step \in {"unlink", "metadata"},
             op'[a].step # "idle" /\ m \notin raced => Grounded(a, m)'
      PROVE  WholeInv'
    <2>1. ASSUME m \notin raced PROVE Sound(m)'
        <3>1. Alone(m)'
            BY <1>7, <1>8, <2>1
        <3>2. ASSUME m \in Deleting PROVE m \in Deleting'
            <4>1. PICK b \in Admins : op[b].step \in {"unlink", "metadata"} /\ op[b].model = m
                BY <3>2 DEF Deleting, Under
            <4>2. CASE b = a
                <5>1. op'[a].step \in {"unlink", "metadata"}
                    BY <1>8, <4>1, <4>2 DEF At
                <5>2. op'[a].model = m
                    BY <1>8, <5>1
                <5> QED BY <5>1, <5>2 DEF Deleting, Under
            <4>3. CASE b # a
                BY <1>8, <4>1, <4>3 DEF Deleting, Under
            <4> QED BY <4>2, <4>3
        <3>3. Grounded(a, m)'
            BY <1>8, <2>1 DEF Grounded, Installs, Rewrites, Deletes
        <3> QED BY <1>4, <1>8, <2>1, <3>1, <3>2, <3>3, Steady
    <2> QED BY <1>6, <1>8, <2>1
<1>9. ASSUME UNCHANGED <<home, tree, record, untold, cut>> PROVE \A n \in Models : Same(n)
    BY <1>9 DEF Same
<1>10. CASE Fetch(a)
    <2>1. /\ \A b \in Admins \ {a} : op'[b] = op[b]
          /\ op'[a].step = "idle" \/ (/\ op'[a].step = "check" /\ op'[a].model = m
                                      /\ op'[a].was = op[a].was
                                      /\ ~op[a].was => op'[a].parts = Parts)
        <3>1. CASE Done(a)
            BY <1>5, <3>1
        <3>2. ASSUME NEW staged \in (IF op[a].was THEN SUBSET Parts ELSE {Parts}),
                     op' = [op EXCEPT ![a].step = "check", ![a].parts = staged]
              PROVE  /\ \A b \in Admins \ {a} : op'[b] = op[b]
                     /\ op'[a].step = "check" /\ op'[a].model = m
                     /\ op'[a].was = op[a].was /\ op'[a].parts = staged
            BY <1>1, <1>3, <3>2 DEF Operations
        <3> QED BY <1>10, <3>1, <3>2 DEF Fetch
    <2>2. (\A n \in Models : Same(n)) /\ ~At(a, "unlink") /\ ~At(a, "metadata")
        BY <1>9, <1>10 DEF Fetch, At, history
    <2>3. op'[a].step # "idle" => Grounded(a, m)'
        BY <2>1 DEF Grounded, Installs, Rewrites, Deletes
    <2>4. "check" \notin Installs \cup Deletes \cup Rewrites
        BY DEF Installs, Deletes, Rewrites
    <2> QED BY <1>8, <2>1, <2>2, <2>3, <2>4
<1>11. CASE CheckStaged(a)
    <2>1. /\ \A b \in Admins \ {a} : op'[b] = op[b]
          /\ op'[a].step = "idle" \/ (/\ op'[a].step = "promote" /\ op'[a].model = m
                                      /\ op'[a].was = op[a].was /\ op'[a].parts = op[a].parts)
        BY <1>5, <1>11 DEF CheckStaged, Steps
    <2>2. /\ (\A n \in Models : Same(n)) /\ ~At(a, "unlink") /\ ~At(a, "metadata")
          /\ op[a].step = "check"
        BY <1>9, <1>11 DEF CheckStaged, At, history
    <2>3. op'[a].step # "idle" /\ m \notin raced => Grounded(a, m)'
        BY <1>4, <2>1, <2>2 DEF Grounded, Installs, Rewrites, Deletes
    <2>4. "promote" \notin Installs \cup Deletes \cup Rewrites
        BY DEF Installs, Deletes, Rewrites
    <2> QED BY <1>8, <2>1, <2>2, <2>3, <2>4
<1>12. CASE Promote(a)
    <2>1. record' = record /\ op[a].step = "promote"
        BY <1>12 DEF Promote, At
    <2>2. CASE op[a].parts = {} \/ home[m]
        <3>1. Done(a) /\ UNCHANGED <<home, tree, cut, untold>>
            BY <1>3, <1>12, <2>2 DEF Promote
        <3> QED BY <1>5, <1>8, <1>9, <2>1, <3>1 DEF At
    \* No record without a directory: nothing else is at the record of m.
    <2>3. CASE ~(op[a].parts = {} \/ home[m])
        <3>1. /\ Go(a, "sidecar")
              /\ home' = [home EXCEPT ![m] = TRUE]
              /\ tree' = [tree EXCEPT ![m] = op[a].parts]
              /\ cut' = cut \ {m}
              /\ untold' = IF op[a].was THEN untold \cup {m} ELSE untold \ {m}
            BY <1>3, <1>12, <2>3 DEF Promote
        <3>2. /\ op'[a].step = "sidecar" /\ op'[a].model = m
              /\ \A b \in Admins \ {a} : op'[b] = op[b]
            BY <1>5, <3>1 DEF Steps
        <3>3. \A n \in Models \ {m} : Same(n)
            BY <1>1, <2>1, <3>1 DEF Same
        <3>4. ASSUME m \notin raced PROVE Sound(m)'
            <4>1. /\ home'[m] /\ record[m] = None /\ record'[m] = None
                  /\ m \notin untold' => tree'[m] = Parts
                <5>1. home'[m] /\ tree'[m] = op[a].parts
                    BY <1>1, <3>1
                <5>2. record[m] = None
                    BY <1>4, <2>3, <3>4 DEF Recorded
                <5>3. ~op[a].was => op[a].parts = Parts
                    BY <1>4, <2>1, <3>4 DEF Grounded
                <5> QED BY <2>1, <3>1, <5>1, <5>2, <5>3
            <4>2. Recorded(m)'
                BY <4>1 DEF Recorded, Usable
            <4>3. \A b \in Admins : op[b].model = m =>
                     op[b].step \notin Installs /\ op[b].step \notin Rewrites
                <5> SUFFICES ASSUME NEW b \in Admins, op[b].model = m
                             PROVE  op[b].step \notin Installs /\ op[b].step \notin Rewrites
                    OBVIOUS
                <5>1. Grounded(b, m)
                    BY <1>4, <3>4 DEF Sound
                <5> QED BY <2>3, <4>1, <5>1 DEF Grounded
            <4>4. Alone(m)'
                <5>1. "sidecar" \notin Deletes \cup Rewrites
                    BY DEF Deletes, Rewrites
                <5>2. \A b \in Admins : op[b].step \in Deletes => op[b].step \in Rewrites
                    BY DEF Rewrites
                <5>3. ASSUME NEW b \in Admins, b # a, op'[b].model = m
                      PROVE  op'[b].step \notin Installs \cup Deletes \cup Rewrites
                    BY <3>2, <4>3, <5>2, <5>3
                <5>4. op'[a].step \notin Deletes \cup Rewrites
                    BY <3>2, <5>1
                <5> HIDE DEF Installs, Deletes, Rewrites
                <5>5. ASSUME NEW b \in Admins, NEW c \in Admins,
                             op'[b].model = m, op'[c].model = m
                      PROVE  /\ op'[b].step \in Installs /\ op'[c].step \in Installs => b = c
                             /\ op'[b].step \in Deletes /\ op'[c].step \in Rewrites => b = c
                    BY <5>3, <5>4, <5>5
                <5> QED BY <5>5 DEF Alone, Installs, Deletes, Rewrites
            <4>5. ASSUME NEW b \in Admins, op'[b].model = m PROVE Grounded(b, m)'
                <5>1. CASE b = a
                    BY <3>2, <4>1, <5>1 DEF Grounded, Rewrites, Deletes
                <5>2. CASE b # a
                    <6>1. op'[b] = op[b] /\ Grounded(b, m)
                        BY <1>4, <3>2, <3>4, <4>5, <5>2 DEF Sound
                    <6>2. op[b].step \notin Installs /\ op[b].step \notin Rewrites
                        BY <3>2, <4>3, <4>5, <5>2
                    <6> QED BY <6>1, <6>2 DEF Grounded, Rewrites
                <5> QED BY <5>1, <5>2
            <4> QED BY <4>2, <4>4, <4>5 DEF Sound
        <3> QED BY <1>6, <3>2, <3>3, <3>4
    <2> QED BY <2>2, <2>3
<1>13. CASE WriteSidecar(a)
    <2>1. /\ \A b \in Admins \ {a} : op'[b] = op[b]
          /\ op'[a].step = "idle" \/ (op'[a].step = "finalize" /\ op'[a].model = m)
        BY <1>5, <1>13 DEF WriteSidecar, Steps
    <2>2. /\ \A n \in Models : Same(n)
          /\ op[a].step = "sidecar"
        BY <1>9, <1>13 DEF WriteSidecar, At, history
    <2>3. op'[a].step # "idle" /\ m \notin raced => Grounded(a, m)'
        BY <1>4, <2>1, <2>2 DEF Grounded, Installs, Rewrites, Deletes, Same
    <2>4. "sidecar" \in Installs /\ "finalize" \notin Deletes \cup Rewrites
        BY DEF Installs, Deletes, Rewrites
    <2> QED BY <1>8, <2>1, <2>2, <2>3, <2>4 DEF At
<1>14. CASE Finalize(a)
    <2>1. Done(a) /\ op[a].step = "finalize" /\ UNCHANGED <<cut, untold>>
        BY <1>14 DEF Finalize, At, history
    <2>2. \/ /\ Structured(tree[m])
             /\ record' = [record EXCEPT ![m] = [status |-> "installed", files |-> tree[m]]]
             /\ UNCHANGED <<home, tree>>
          \/ /\ home' = [home EXCEPT ![m] = FALSE]
             /\ tree' = [tree EXCEPT ![m] = {}]
             /\ record' = [record EXCEPT ![m] = None]
        BY <1>3, <1>14 DEF Finalize
    <2>3. \A n \in Models \ {m} : Same(n)
        BY <1>1, <2>1, <2>2 DEF Same
    <2>4. ASSUME m \notin raced PROVE Sound(m)'
        <3>1. /\ home[m] /\ record[m] = None /\ (m \notin untold => tree[m] = Parts)
            BY <1>4, <2>1, <2>4 DEF Grounded, Installs
        <3>2. Recorded(m)'
            <4>1. CASE /\ Structured(tree[m])
                       /\ record' = [record EXCEPT ![m] =
                                       [status |-> "installed", files |-> tree[m]]]
                       /\ UNCHANGED <<home, tree>>
                <5>1. record'[m].files = tree[m] /\ home'[m] /\ tree' = tree
                    BY <1>1, <3>1, <4>1
                <5> QED BY <2>1, <3>1, <4>1, <5>1 DEF Recorded
            <4>2. CASE record' = [record EXCEPT ![m] = None]
                <5>1. record'[m] = None
                    BY <1>1, <4>2
                <5> QED BY <5>1 DEF Recorded, Usable
            <4> QED BY <2>2, <4>1, <4>2
        <3>3. Alone(m)'
            BY <1>5, <1>7, <2>1, <2>4
        <3>4. ASSUME NEW b \in Admins, op'[b].model = m PROVE Grounded(b, m)'
            <4>1. CASE b = a
                BY <1>5, <2>1, <4>1 DEF Grounded, Installs, Rewrites, Deletes
            <4>2. CASE b # a
                <5>1. op'[b] = op[b] /\ Grounded(b, m) /\ op[b].model = m
                    BY <1>4, <1>5, <2>1, <2>4, <3>4, <4>2 DEF Sound
                <5>2. op[a].step \in Installs
                    BY <2>1 DEF Installs
                <5>3. op[b].step \notin Installs
                    BY <1>3, <1>4, <2>4, <4>2, <5>1, <5>2 DEF Alone
                <5>4. op[b].step \notin Rewrites
                    BY <3>1, <5>1 DEF Grounded
                <5> QED BY <5>1, <5>3, <5>4 DEF Grounded, Rewrites
            <4> QED BY <4>1, <4>2
        <3> QED BY <3>2, <3>3, <3>4 DEF Sound
    <2> QED BY <1>5, <1>6, <2>1, <2>3, <2>4
<1>15. CASE SetActive(a) \/ ApplySetting(a) \/ UnloadForActivation(a)
    <2>1. PICK s \in {"setting", "unload", "idle"} :
            /\ op'[a].step = s
            /\ s # "idle" => op'[a].model = m
            /\ \A b \in Admins \ {a} : op'[b] = op[b]
        BY <1>5, <1>15 DEF SetActive, ApplySetting, UnloadForActivation, Steps
    <2>2. (\A n \in Models : Same(n)) /\ ~At(a, "unlink") /\ ~At(a, "metadata")
        BY <1>9, <1>15 DEF SetActive, ApplySetting, UnloadForActivation, At, history
    <2>3. Grounded(a, m)' /\ s \notin Installs \cup Deletes \cup Rewrites
        BY <2>1 DEF Grounded, Installs, Rewrites, Deletes
    <2> QED BY <1>8, <2>1, <2>2, <2>3
<1>16. CASE UnloadForDelete(a)
    <2>1. Go(a, "list") /\ op[a].step = "release" /\ UNCHANGED <<home, tree, record, untold, cut>>
        BY <1>16 DEF UnloadForDelete, At, Go, history
    <2>2. /\ \A b \in Admins \ {a} : op'[b] = op[b]
          /\ op'[a].step = "list" /\ op'[a].model = m /\ op'[a].files = op[a].files
        BY <1>5, <2>1 DEF Steps
    <2>3. m \notin raced => Grounded(a, m)'
        BY <1>4, <2>1, <2>2 DEF Grounded, Installs, Rewrites, Deletes
    <2>4. "list" \notin Installs /\ "release" \in Deletes \cap Rewrites
        BY DEF Installs, Deletes, Rewrites
    <2> QED BY <1>8, <1>9, <2>1, <2>2, <2>3, <2>4 DEF At
<1>17. CASE List(a)
    <2>1. op[a].step = "list" /\ UNCHANGED <<home, tree, record, untold, cut>>
        BY <1>17 DEF List, At, history
    <2>2. /\ \A b \in Admins \ {a} : op'[b] = op[b]
          /\ op'[a].step = "unlink" /\ op'[a].model = m /\ op'[a].files = op[a].files
        BY <1>1, <1>3, <1>17 DEF List, Operations
    <2>3. m \notin raced => Grounded(a, m)'
        BY <1>4, <2>1, <2>2 DEF Grounded, Installs, Rewrites, Deletes
    <2>4. "unlink" \notin Installs /\ "list" \in Deletes \cap Rewrites
        BY DEF Installs, Deletes, Rewrites
    <2> QED BY <1>8, <1>9, <2>1, <2>2, <2>3, <2>4 DEF At
\* The files of m go; whoever else is at m is neither an install nor a
\* revalidation.
<1>18. CASE Unlink(a)
    <2>1. op[a].step = "unlink" /\ UNCHANGED <<home, record, untold, cut>>
        BY <1>18 DEF Unlink, At, history
    <2>2. /\ \A b \in Admins \ {a} : op'[b] = op[b]
          /\ op'[a].step \in {"unlink", "metadata"} /\ op'[a].model = m
          /\ op'[a].files = op[a].files
        <3>1. CASE Go(a, "metadata")
            BY <1>5, <3>1 DEF Steps
        <3>2. ASSUME NEW p, op' = [op EXCEPT ![a].parts = @ \ {p}]
              PROVE  /\ \A b \in Admins \ {a} : op'[b] = op[b]
                     /\ op'[a].step = "unlink" /\ op'[a].model = m
                     /\ op'[a].files = op[a].files
            BY <1>1, <1>3, <2>1, <3>2 DEF Operations
        <3>3. ASSUME NEW p, op' = [op EXCEPT ![a].parts = @ \ {p}, ![a].left = TRUE]
              PROVE  /\ \A b \in Admins \ {a} : op'[b] = op[b]
                     /\ op'[a].step = "unlink" /\ op'[a].model = m
                     /\ op'[a].files = op[a].files
            BY <1>1, <1>3, <2>1, <3>3 DEF Operations
        <3> QED BY <1>18, <3>1, <3>2, <3>3 DEF Unlink
    <2>3. \A n \in Models \ {m} : tree'[n] = tree[n]
        BY <1>1, <1>3, <1>18 DEF Unlink
    <2>4. \A n \in Models \ {m} : Same(n)
        BY <2>1, <2>3 DEF Same
    <2>5. "unlink" \in Deletes \cap Rewrites /\ "metadata" \in Deletes \cap Rewrites
        BY DEF Deletes, Rewrites
    <2>6. "unlink" \notin Installs /\ "metadata" \notin Installs
        BY DEF Installs
    <2>7. ASSUME m \notin raced PROVE Sound(m)'
        <3>1. m \in Deleting'
            BY <2>2 DEF Deleting, Under
        <3>2. record[m] # None /\ (m \notin untold => op[a].files = Parts)
            BY <1>4, <2>1, <2>5, <2>7 DEF Grounded
        <3>3. Recorded(m)'
            BY <1>4, <2>1, <2>7, <3>1 DEF Recorded
        <3>4. Alone(m)'
            BY <1>7, <2>1, <2>2, <2>5, <2>6, <2>7
        <3>5. ASSUME NEW b \in Admins, op'[b].model = m PROVE Grounded(b, m)'
            <4>1. CASE b = a
                BY <2>1, <2>2, <2>6, <3>2, <4>1 DEF Grounded
            <4>2. CASE b # a
                <5>1. op'[b] = op[b] /\ Grounded(b, m) /\ op[b].model = m
                    BY <1>4, <2>2, <2>7, <3>5, <4>2 DEF Sound
                <5>2. op[b].step \notin Rewrites
                    BY <1>3, <1>4, <2>1, <2>5, <2>7, <4>2, <5>1 DEF Alone
                <5>3. op[b].step \notin Installs
                    BY <3>2, <5>1 DEF Grounded
                <5> QED BY <5>1, <5>2, <5>3 DEF Grounded, Rewrites
            <4> QED BY <4>1, <4>2
        <3> QED BY <3>3, <3>4, <3>5 DEF Sound
    <2> QED BY <1>6, <2>2, <2>4, <2>7
<1>19. CASE EndDelete(a)
    <2>1. Done(a) /\ UNCHANGED <<tree, untold>> /\ op[a].step = "metadata"
        BY <1>19 DEF EndDelete, At
    <2>2. Deleted(a, m) \/ DeletionFailed(a, m)
        BY <1>3, <1>19 DEF EndDelete
    <2>3. /\ \A n \in Models \ {m} : home'[n] = home[n] /\ record'[n] = record[n]
          /\ \A n \in Models \ {m} : n \in cut' <=> n \in cut
        <3>1. CASE Deleted(a, m)
            BY <1>1, <3>1 DEF Deleted
        <3>2. CASE DeletionFailed(a, m)
            BY <1>1, <3>2 DEF DeletionFailed
        <3> QED BY <2>2, <3>1, <3>2
    <2>4. \A n \in Models \ {m} : Same(n)
        BY <2>1, <2>3 DEF Same
    <2>5. "metadata" \in Deletes \cap Rewrites
        BY DEF Deletes, Rewrites
    <2>6. ASSUME m \notin raced PROVE Sound(m)'
        <3>1. record[m] # None /\ (m \notin untold => op[a].files = Parts)
            BY <1>4, <2>1, <2>5, <2>6 DEF Grounded
        <3>2. home[m] /\ (m \notin untold => record[m].files = Parts)
            BY <1>4, <2>6, <3>1 DEF Recorded
        <3>3. Recorded(m)'
            <4>1. CASE record' = [record EXCEPT ![m] = None]
                <5>1. record'[m] = None
                    BY <1>1, <4>1
                <5> QED BY <5>1 DEF Recorded, Usable
            <4>2. CASE /\ record' = [record EXCEPT ![m] =
                                       [status |-> "deletion_failed", files |-> op[a].files]]
                       /\ UNCHANGED home
                <5>1. record'[m].status # "installed" /\ record'[m].files = op[a].files
                    BY <1>1, <4>2
                <5> QED BY <2>1, <3>1, <3>2, <4>2, <5>1 DEF Recorded, Usable
            <4>3. CASE UNCHANGED <<record, home>> /\ cut' = cut \cup {m}
                BY <2>1, <3>1, <3>2, <4>3 DEF Recorded, Usable
            <4> QED BY <2>2, <4>1, <4>2, <4>3 DEF Deleted, DeletionFailed
        <3>4. Alone(m)'
            BY <1>5, <1>7, <2>1, <2>6
        <3>5. ASSUME NEW b \in Admins, op'[b].model = m PROVE Grounded(b, m)'
            <4>1. CASE b = a
                BY <1>5, <2>1, <4>1 DEF Grounded, Installs, Rewrites, Deletes
            <4>2. CASE b # a
                <5>1. op'[b] = op[b] /\ Grounded(b, m) /\ op[b].model = m
                    BY <1>4, <1>5, <2>1, <2>6, <3>5, <4>2 DEF Sound
                <5>2. op[b].step \notin Rewrites
                    BY <1>3, <1>4, <2>1, <2>5, <2>6, <4>2, <5>1 DEF Alone
                <5>3. op[b].step \notin Installs
                    BY <3>1, <5>1 DEF Grounded
                <5> QED BY <5>1, <5>2, <5>3 DEF Grounded, Rewrites
            <4> QED BY <4>1, <4>2
        <3> QED BY <3>3, <3>4, <3>5 DEF Sound
    <2> QED BY <1>5, <1>6, <2>1, <2>4, <2>6
\* A revalidation writes what its report says; the directory is as it was then.
<1>20. CASE SaveRevalidated(a)
    <2> DEFINE files == IF op[a].files = {} THEN tree[m] ELSE op[a].files
               status == IF op[a].was THEN "installed" ELSE "invalid"
    <2>1. /\ Done(a) /\ UNCHANGED <<tree, cut, untold>> /\ op[a].step = "save"
          /\ home' = [home EXCEPT ![m] = TRUE] \/ UNCHANGED home
          /\ \/ record' = [record EXCEPT ![m] = [status |-> status, files |-> files]]
             \/ UNCHANGED record
        BY <1>3, <1>20 DEF SaveRevalidated, At, history
    <2>2. \A n \in Models \ {m} : home'[n] = home[n] /\ record'[n] = record[n]
        BY <1>1, <2>1
    <2>3. \A n \in Models \ {m} : Same(n)
        BY <2>1, <2>2 DEF Same
    <2>4. "save" \in Rewrites
        BY DEF Rewrites
    <2>5. ASSUME m \notin raced PROVE Sound(m)'
        <3>1. /\ record[m] # None /\ (m \notin untold => op[a].files = Parts)
              /\ op[a].was => Structured(tree[m]) /\ op[a].files \subseteq tree[m]
            BY <1>4, <2>1, <2>4, <2>5 DEF Grounded
        <3>2. home[m] /\ home'[m]
            BY <1>1, <1>4, <2>1, <2>5, <3>1 DEF Recorded
        <3>3. record'[m] # None /\ Recorded(m)'
            <4>1. CASE record' = [record EXCEPT ![m] = [status |-> status, files |-> files]]
                <5>1. record'[m] = [status |-> status, files |-> files]
                    BY <1>1, <4>1
                <5>2. record'[m].status = status /\ record'[m].files = files
                    BY <5>1
                <5>3. m \notin untold => files = Parts
                    BY <3>1 DEF Parts
                <5>4. op[a].was => Structured(tree[m]) /\ files \subseteq tree[m]
                    BY <3>1
                <5>5. status = "installed" => op[a].was
                    OBVIOUS
                <5>6. record'[m] # None
                    <6>1. status \in Statuses /\ files \in SUBSET Parts
                        BY <1>1 DEF Statuses, Operations
                    <6>2. record'[m] \in Records
                        BY <5>1, <6>1 DEF Records
                    <6> QED BY <6>2, NoneIsNoRecord
                <5> HIDE DEF files, status
                <5> QED BY <2>1, <3>2, <5>2, <5>3, <5>4, <5>5, <5>6 DEF Recorded, Usable
            <4>2. CASE UNCHANGED record
                <5>1. ASSUME m \in Deleting PROVE m \in Deleting'
                    BY <1>5, <2>1, <5>1 DEF Deleting, Under
                <5> QED BY <1>4, <2>1, <2>5, <3>1, <3>2, <4>2, <5>1 DEF Recorded, Usable
            <4> QED BY <2>1, <4>1, <4>2
        <3>4. Alone(m)'
            BY <1>5, <1>7, <2>1, <2>5
        <3>5. ASSUME NEW b \in Admins, op'[b].model = m PROVE Grounded(b, m)'
            <4>1. CASE b = a
                BY <1>5, <2>1, <4>1 DEF Grounded, Installs, Rewrites, Deletes
            <4>2. CASE b # a
                <5>1. op'[b] = op[b] /\ Grounded(b, m)
                    BY <1>4, <1>5, <2>1, <2>5, <3>5, <4>2 DEF Sound
                <5>2. op[b].step \notin Installs
                    BY <3>1, <5>1 DEF Grounded
                <5> QED BY <2>1, <3>3, <5>1, <5>2 DEF Grounded
            <4> QED BY <4>1, <4>2
        <3> QED BY <3>3, <3>4, <3>5 DEF Sound
    <2> QED BY <1>5, <1>6, <2>1, <2>3, <2>5
<1> QED BY <1>10, <1>11, <1>12, <1>13, <1>14, <1>15, <1>16, <1>17, <1>18, <1>19, <1>20 DEF OpStep

LEMMA StoreStepWhole ==
    ASSUME WholeInv, NEW busy, StoreStep(busy)
    PROVE  WholeInv'
<1>1. /\ StoreInv /\ StoreInv'
      /\ record \in [Models -> Records \cup {None}]
      /\ op \in [Admins -> Operations]
    BY StoreStepTyped DEF WholeInv, StoreInv, StoreTypeOK
<1>2. \A m \in Models : record[m] # None => record[m].files \in SUBSET Parts
    BY <1>1 DEF Records
<1>3. ASSUME NEW a \in Admins, NEW m \in Models, BeginInstall(a, m) PROVE WholeInv'
    <2>1. /\ Begin(a, m, "fetch", FALSE, {})
          /\ UNCHANGED <<home, tree, record, cut, untold>> /\ raced \subseteq raced'
        BY <1>3 DEF BeginInstall, history
    <2>2. "fetch" \in Steps /\ {} \in SUBSET Parts /\ "fetch" \notin Installs \cup Rewrites
        BY DEF Steps, Installs, Rewrites, Deletes
    <2>3. "fetch" \notin Deletes /\ "fetch" # "save" /\ "fetch" \notin {"check", "promote"}
        BY DEF Deletes
    <2> QED BY <1>1, <2>1, <2>2, <2>3, BeginWhole
<1>4. ASSUME NEW a \in Admins, NEW m \in Models, BeginActivate(a, m) PROVE WholeInv'
    <2>1. /\ Begin(a, m, "activate", FALSE, {})
          /\ UNCHANGED <<home, tree, record, cut, untold>> /\ raced \subseteq raced'
        BY <1>4 DEF BeginActivate, history
    <2>2. "activate" \in Steps /\ {} \in SUBSET Parts /\ "activate" \notin Installs \cup Rewrites
        BY DEF Steps, Installs, Rewrites, Deletes
    <2>3. "activate" \notin Deletes /\ "activate" # "save" /\ "activate" \notin {"check", "promote"}
        BY DEF Deletes
    <2> QED BY <1>1, <2>1, <2>2, <2>3, BeginWhole
<1>5. ASSUME NEW a \in Admins, NEW m \in Models, BeginRevalidate(a, m) PROVE WholeInv'
    <2> DEFINE was == Structured(tree[m]) /\ record[m].files \subseteq tree[m]
    <2>1. /\ Begin(a, m, "save", was, record[m].files)
          /\ UNCHANGED <<home, tree, record, cut, untold>> /\ record[m] # None
          /\ raced' = IF m \in Removing THEN raced \cup {m} ELSE raced
        BY <1>5 DEF BeginRevalidate
    <2>2. "save" \in Steps /\ record[m].files \in SUBSET Parts /\ was \in BOOLEAN
        BY <1>2, <2>1 DEF Steps, Structured
    <2>3. was => Structured(tree[m]) /\ record[m].files \subseteq tree[m]
        OBVIOUS
    <2>4. m \notin raced' => \A b \in Admins : ~(op[b].model = m /\ op[b].step \in Deletes)
        BY <2>1 DEF Removing, Under, Deletes
    <2>5. "save" \notin Installs \cup {"check", "promote"} /\ "save" \notin Deletes
        BY DEF Installs, Deletes
    <2>6. raced \subseteq raced'
        BY <2>1
    <2> HIDE DEF was
    <2> QED BY <1>1, <2>1, <2>2, <2>3, <2>4, <2>5, <2>6, BeginWhole
<1>6. ASSUME NEW a \in Admins, NEW m \in Models, BeginDelete(a, m, busy) PROVE WholeInv'
    <2>1. PICK s \in {"release", "list"}, was \in BOOLEAN :
             Begin(a, m, s, was, record[m].files)
        BY <1>6 DEF BeginDelete
    <2>2. /\ UNCHANGED <<home, tree, record, cut, untold>> /\ record[m] # None
          /\ raced' = IF m \in Removing \cup Under({"save"}) THEN raced \cup {m} ELSE raced
        BY <1>6 DEF BeginDelete
    <2>3. s \in Steps /\ record[m].files \in SUBSET Parts
        BY <1>2, <2>2 DEF Steps
    <2>4. s \notin Installs \cup {"check", "promote"} /\ s # "save"
        BY DEF Installs
    <2>5. m \notin raced' => \A b \in Admins : ~(op[b].model = m /\ op[b].step \in Rewrites)
        BY <2>2 DEF Removing, Under, Rewrites, Deletes
    <2>6. raced \subseteq raced'
        BY <2>2
    <2> QED BY <1>1, <2>1, <2>2, <2>3, <2>4, <2>5, <2>6, BeginWhole
<1>7. ASSUME NEW a \in Admins, OpStep(a) PROVE WholeInv'
    BY <1>7, OpStepWhole
\* The staging area is no part of a model.
<1>8. CASE SetStorageDirectory
    <2>1. PICK lost \in SUBSET Parts :
            op' = [b \in Admins |->
                     IF op[b].step \in {"fetch", "check", "promote"}
                     THEN [op[b] EXCEPT !.parts = @ \ lost, !.was = TRUE] ELSE op[b]]
        BY <1>8 DEF SetStorageDirectory
    <2>2. UNCHANGED <<home, tree, record, cut, untold, raced>>
        BY <1>8 DEF SetStorageDirectory, history
    <2>3. \A b \in Admins :
            /\ op'[b].step = op[b].step /\ op'[b].model = op[b].model
            /\ op'[b].files = op[b].files
            /\ op[b].step \in {"fetch", "check", "promote"} => op'[b].was
            /\ op[b].step \notin {"fetch", "check", "promote"} => op'[b] = op[b]
        BY <1>1, <2>1 DEF Operations
    <2>4. Deleting' = Deleting
        BY <2>3 DEF Deleting, Under
    <2>5. ASSUME NEW m \in Models \ raced PROVE Sound(m)'
        <3>1. Sound(m)
            BY <2>5 DEF WholeInv
        <3>2. Recorded(m)'
            BY <2>2, <2>4, <3>1 DEF Sound, Recorded, Usable
        <3>3. Alone(m)'
            BY <2>3, <3>1 DEF Sound, Alone, Installs, Deletes, Rewrites
        <3>4. ASSUME NEW b \in Admins, op'[b].model = m PROVE Grounded(b, m)'
            <4>1. Grounded(b, m)
                BY <2>3, <3>1, <3>4 DEF Sound
            <4>2. CASE op[b].step \in {"fetch", "check", "promote"}
                BY <2>3, <4>2 DEF Grounded, Installs, Rewrites, Deletes
            <4>3. CASE op[b].step \notin {"fetch", "check", "promote"}
                BY <2>2, <2>3, <4>1, <4>3 DEF Grounded
            <4> QED BY <4>2, <4>3
        <3> QED BY <3>2, <3>3, <3>4 DEF Sound
    <2> QED BY <1>1, <2>2, <2>5 DEF WholeInv
<1> QED BY <1>3, <1>4, <1>5, <1>6, <1>7, <1>8 DEF StoreStep

\* A process that dies leaves the records; a deletion it has cut short is kept
\* in cut as long as there is a record of the model.
LEMMA RestartWhole ==
    ASSUME WholeInv, StoreRestart, StoreInv'
    PROVE  WholeInv'
<1>1. \A a \in Admins : op'[a].step = "idle"
    BY DEF StoreRestart, NoOp
<1>2. ASSUME NEW m \in Models \ raced PROVE Sound(m)'
    <2>1. Recorded(m)
        BY <1>2 DEF WholeInv, Sound
    <2>2. UNCHANGED <<home, tree, record, untold>>
        BY DEF StoreRestart
    <2>3. record[m] # None /\ m \in Deleting \cup cut => m \in cut'
        BY DEF StoreRestart
    <2>4. Recorded(m)'
        BY <2>1, <2>2, <2>3 DEF Recorded, Usable
    <2>5. Alone(m)' /\ \A a \in Admins : Grounded(a, m)'
        BY <1>1 DEF Alone, Grounded, Installs, Rewrites, Deletes
    <2> QED BY <2>4, <2>5 DEF Sound
<1>3. raced' = raced
    BY DEF StoreRestart
<1> QED BY <1>2, <1>3 DEF WholeInv

LEMMA WholeKept ==
    ASSUME WholeInv, StoreInv', UNCHANGED modelVars
    PROVE  WholeInv'
<1>1. UNCHANGED <<home, tree, record, op, cut, untold, raced>>
    BY DEF modelVars, history
<1>2. ASSUME NEW m \in Models \ raced PROVE Sound(m)'
    <2>1. Sound(m)
        BY <1>2 DEF WholeInv
    <2>2. Deleting' = Deleting
        BY <1>1 DEF Deleting, Under
    <2>3. Recorded(m)'
        BY <1>1, <2>1, <2>2 DEF Sound, Recorded, Usable
    <2>4. Alone(m)' /\ \A a \in Admins : op'[a].model = m => Grounded(a, m)'
        BY <1>1, <2>1 DEF Sound, Alone, Grounded
    <2> QED BY <2>3, <2>4 DEF Sound
<1> QED BY <1>1, <1>2 DEF WholeInv

\* The steps of a request leave the models alone.
LEMMA RunKeepsStore ==
    ASSUME NEW r \in Requests, Run(r) \/ Submit(r) \/ Cancel(r)
    PROVE  UNCHANGED modelVars
BY DEF Run, Submit, Cancel, storeVars, modelVars, Write, Accept, Execute, Validated, Acquire,
   Prepare, FindCached, Reuse, BeginLoad, EndLoad, Sample, HandOver, BeginCutout, EndCutout,
   BeginRepair, EndRepair, Finish, MakeDirectory, WriteOriginal, WriteImage, WriteManifest

\* A usable model has what its record lists, and all it came with if a full list
\* was recorded, however the operations on models overlap, whatever fails and
\* however often the process dies, but for the deletions UsableIsWhole names: one
\* at work or ended half way, and one that met a revalidation or another deletion
\* of the model.  Nothing else takes a file from a model that is still usable:
\* no install, activation, revalidation, change of the storage directory or
\* deletion of another model.
THEOREM ModelsAreWhole == Spec => []UsableIsWhole
<1>1. Init => TypeInv /\ WholeInv
    <2> SUFFICES ASSUME Init PROVE TypeInv /\ WholeInv
        OBVIOUS
    <2>1. TypeInv /\ StoreInv
        BY TypeInit, StoreInvInit DEF Init
    <2>2. \A a \in Admins : op[a].step = "idle"
        BY DEF Init, StoreInit, NoOp
    <2>3. ASSUME NEW m \in Models PROVE Sound(m)
        <3>1. PICK installed \in SUBSET Models :
                 /\ untold \in SUBSET installed
                 /\ home = [n \in Models |-> n \in installed]
                 /\ tree = [n \in Models |-> IF n \in installed THEN Parts ELSE {}]
                 /\ record = [n \in Models |-> IF n \in installed
                         THEN [status |-> "installed",
                               files |-> IF n \in untold THEN {} ELSE Parts] ELSE None]
            BY DEF Init, StoreInit
        <3>2. Recorded(m)
            <4>1. CASE m \in installed
                <5>1. /\ record[m].files = IF m \in untold THEN {} ELSE Parts
                      /\ home[m] /\ tree[m] = Parts
                    BY <3>1, <4>1
                <5>2. record[m].files \subseteq tree[m] /\ Structured(tree[m])
                    BY <5>1 DEF Structured, Parts
                <5> QED BY <5>1, <5>2 DEF Recorded
            <4>2. CASE m \notin installed
                BY <3>1, <4>2 DEF Recorded, Usable
            <4> QED BY <4>1, <4>2
        <3>3. Alone(m) /\ \A a \in Admins : Grounded(a, m)
            BY <2>2 DEF Alone, Grounded, Installs, Rewrites, Deletes
        <3> QED BY <3>2, <3>3 DEF Sound
    <2> QED BY <2>1, <2>3 DEF WholeInv
<1>2. TypeInv /\ WholeInv /\ [Next]_vars => (TypeInv /\ WholeInv)'
    <2> SUFFICES ASSUME TypeInv, WholeInv, [Next]_vars PROVE TypeInv' /\ WholeInv'
        OBVIOUS
    <2>1. TypeInv' /\ StoreInv'
        BY TypeStep DEF TypeInv, TypeOK, StoreInv
    <2>2. ASSUME NEW r \in Requests, Run(r) \/ Submit(r) \/ Cancel(r) PROVE WholeInv'
        BY <2>1, <2>2, RunKeepsStore, WholeKept
    <2>3. CASE Models_API
        <3>1. StoreStep(JobsActive)
            BY <2>3 DEF Models_API
        <3> QED BY <2>1, <3>1, StoreStepWhole
    <2>4. CASE Crash
        BY <2>1, <2>4, RestartWhole DEF Crash
    <2>5. CASE UNCHANGED vars
        BY <2>1, <2>5, WholeKept DEF vars, storeVars
    <2> QED BY <2>1, <2>2, <2>3, <2>4, <2>5 DEF Next
<1>3. WholeInv => UsableIsWhole
    <2> SUFFICES ASSUME WholeInv, NEW m \in Models, Usable(m),
                        m \notin Deleting \cup cut \cup raced
                 PROVE  /\ home[m] /\ Structured(tree[m]) /\ record[m].files \subseteq tree[m]
                        /\ m \notin untold => tree[m] = Parts
        BY DEF UsableIsWhole
    <2>1. Recorded(m) /\ record[m] # None
        BY DEF WholeInv, Sound, Usable
    <2>2. home[m] /\ Structured(tree[m]) /\ record[m].files \subseteq tree[m]
        BY <2>1 DEF Recorded
    <2>3. m \notin untold => record[m].files = Parts
        BY <2>1 DEF Recorded
    <2>4. tree[m] \subseteq Parts
        BY DEF WholeInv, StoreInv, StoreTypeOK
    <2> QED BY <2>2, <2>3, <2>4
<1> QED BY <1>1, <1>2, <1>3, PTL DEF Spec

-----------------------------------------------------------------------------
(* What is cached after an activation.  activate writes the registry, then    *)
(* the settings, then waits for the lock of the model manager and unloads; a  *)
(* load that had begun before ends before the unload.  Whoever wrote the      *)
(* settings last unloads after that, and wrote the registry before it; so,    *)
(* however activations overlap, when nobody is about to write the settings or *)
(* to unload and the registry agrees with them, every load since has chosen   *)
(* the model they name.                                                       *)

Activating == {"setting", "unload"}

Loading == \A r \in Requests : pc[r] = "loading" => loader = r

\* Nothing is cached or being loaded but the configured model.
Settled ==
    /\ cache \in {setting, None}
    /\ loader # None => using[loader] = setting

EffectInv ==
    /\ TypeInv /\ LockInv /\ Loading /\ active = saved
    /\ answered # None /\ active = setting =>
         Settled \/ \E a \in Admins : op[a].step \in Activating

\* What the step of a request may do to the cached pipeline: leave it, drop it,
\* begin a load or end one.
LEMMA RunLoads ==
    ASSUME TypeInv, LockInv, Loading, NEW r \in Requests, Run(r)
    PROVE  /\ Loading'
           /\ \/ /\ cache' \in {cache, None} /\ loader' = loader
                 /\ loader # None => using'[loader] = using[loader]
              \/ loader = None /\ loader' = r /\ using'[r] = Chosen /\ cache' = cache
              \/ loader = r /\ loader' = None /\ cache' \in {cache, using[r]}
<1> DEFINE Left == /\ cache' \in {cache, None} /\ loader' = loader
                   /\ loader # None => using'[loader] = using[loader]
<1>1. /\ pc \in [Requests -> Places] /\ using \in [Requests -> Known]
      /\ lock \in Requests \cup {None} /\ loader \in Requests \cup {None}
      /\ None \notin Requests
    BY NoneIsNoRequest DEF TypeInv, TypeOK
<1>2. /\ \A q \in Requests : pc[q] = "loading" => lock = q /\ loader = q
      /\ loader # None => pc[loader] = "loading"
      /\ pc[r] \in {"pipeline", "loading"} => lock = r
    BY DEF LockInv, Loading, Locked
<1>3. CASE BeginLoad(r)
    <2>1. /\ pc[r] = "pipeline" /\ loader = None /\ cache' = cache
          /\ \/ End(r, "failed") /\ loader' = None
             \/ loader' = r /\ using' = [using EXCEPT ![r] = Chosen] /\ To(r, "loading")
        BY <1>3 DEF BeginLoad
    <2>2. \A q \in Requests \ {r} : pc[q] # "loading" /\ pc'[q] = pc[q]
        BY <1>1, <1>2, <2>1 DEF End, To
    <2>3. CASE End(r, "failed") /\ loader' = None
        BY <1>1, <2>1, <2>2, <2>3 DEF End, To, Loading
    <2>4. CASE loader' = r /\ using' = [using EXCEPT ![r] = Chosen] /\ To(r, "loading")
        BY <1>1, <2>1, <2>2, <2>4 DEF To, Loading
    <2> QED BY <2>1, <2>3, <2>4
<1>4. CASE EndLoad(r)
    <2>1. pc[r] = "loading" /\ loader = r /\ loader' = None /\ cache' \in {cache, using[r]}
        BY <1>2, <1>4 DEF EndLoad
    <2>2. \A q \in Requests : pc'[q] # "loading"
        BY <1>1, <1>2, <1>4, <2>1 DEF EndLoad, End, To
    <2> QED BY <2>1, <2>2 DEF Loading
<1>5. ASSUME Accept(r) PROVE Left /\ Loading'
    BY <1>1, <1>2, <1>5 DEF Accept, To, End, Proceed, Stay, held, storeVars, Loading
<1>6. ASSUME Execute(r) PROVE Left /\ Loading'
    BY <1>1, <1>2, <1>6 DEF Execute, To, End, Proceed, Stay, held, storeVars, Loading
<1>7. ASSUME Validated(r) PROVE Left /\ Loading'
    BY <1>1, <1>2, <1>7 DEF Validated, To, End, Proceed, Stay, held, storeVars, Loading
<1>8. ASSUME Acquire(r) PROVE Left /\ Loading'
    BY <1>1, <1>2, <1>8 DEF Acquire, To, End, Proceed, Stay, held, storeVars, Loading
<1>9. ASSUME Prepare(r) PROVE Left /\ Loading'
    BY <1>1, <1>2, <1>9 DEF Prepare, To, End, Proceed, Stay, held, storeVars, Loading
<1>10. ASSUME FindCached(r) PROVE Left /\ Loading'
    BY <1>1, <1>2, <1>10 DEF FindCached, To, End, Proceed, Stay, held, storeVars, Loading
<1>11. ASSUME Reuse(r) PROVE Left /\ Loading'
    BY <1>1, <1>2, <1>11 DEF Reuse, To, End, Proceed, Stay, held, storeVars, Loading
<1>12. ASSUME Sample(r) PROVE Left /\ Loading'
    BY <1>1, <1>2, <1>12 DEF Sample, To, End, Proceed, Stay, held, storeVars, Loading
<1>13. ASSUME HandOver(r) PROVE Left /\ Loading'
    BY <1>1, <1>2, <1>13 DEF HandOver, AfterCutout, To, End, Proceed, Stay, held, storeVars, Loading
<1>14. ASSUME BeginCutout(r) PROVE Left /\ Loading'
    BY <1>1, <1>2, <1>14 DEF BeginCutout, To, End, Proceed, Stay, held, storeVars, Loading
<1>15. ASSUME EndCutout(r) PROVE Left /\ Loading'
    BY <1>1, <1>2, <1>15 DEF EndCutout, AfterCutout, To, End, Proceed, Stay, held, storeVars, Loading
<1>16. ASSUME BeginRepair(r) PROVE Left /\ Loading'
    BY <1>1, <1>2, <1>16 DEF BeginRepair, To, End, Proceed, Stay, held, storeVars, Loading
<1>17. ASSUME EndRepair(r) PROVE Left /\ Loading'
    BY <1>1, <1>2, <1>17 DEF EndRepair, To, End, Proceed, Stay, held, storeVars, Loading
<1>18. ASSUME Finish(r) PROVE Left /\ Loading'
    BY <1>1, <1>2, <1>18 DEF Finish, To, End, Proceed, Stay, held, storeVars, Loading
<1>19. ASSUME MakeDirectory(r) PROVE Left /\ Loading'
    BY <1>1, <1>2, <1>19 DEF MakeDirectory, To, End, Proceed, Stay, held, storeVars, Loading
<1>20. ASSUME WriteOriginal(r) PROVE Left /\ Loading'
    BY <1>1, <1>2, <1>20 DEF WriteOriginal, Write, To, End, Proceed, Stay, held, storeVars, Loading
<1>21. ASSUME WriteImage(r) PROVE Left /\ Loading'
    BY <1>1, <1>2, <1>21 DEF WriteImage, Write, To, End, Proceed, Stay, held, storeVars, Loading
<1>22. ASSUME WriteManifest(r) PROVE Left /\ Loading'
    BY <1>1, <1>2, <1>22 DEF WriteManifest, Write, To, End, Proceed, Stay, held, storeVars, Loading
<1> HIDE DEF Left
<1>23. Run(r) => (BeginLoad(r) \/ EndLoad(r) \/ (Left /\ Loading'))
    BY <1>5, <1>6, <1>7, <1>8, <1>9, <1>10, <1>11, <1>12, <1>13, <1>14, <1>15, <1>16, <1>17, <1>18, <1>19, <1>20, <1>21, <1>22 DEF Run
<1> QED BY <1>3, <1>4, <1>23 DEF Left

\* What a load chooses when the registry and the settings agree.
LEMMA AgreedChoice == ASSUME active = setting PROVE Chosen = setting
BY DEF Chosen, GetActive

\* What neither writes the settings nor ends an activation, and starts no load,
\* leaves the settings and the cache in agreement.
LEMMA Undisturbed ==
    ASSUME EffectInv, setting' = setting, active' \in {active, None},
           answered' \in {answered, None}, cache' \in {cache, None}, loader' = loader,
           loader # None => using'[loader] = using[loader],
           \A b \in Admins : op[b].step \in Activating => op'[b].step \in Activating
    PROVE  answered' # None /\ active' = setting' =>
             Settled' \/ \E a \in Admins : op'[a].step \in Activating
<1> SUFFICES ASSUME answered' # None, active' = setting'
             PROVE  Settled' \/ \E a \in Admins : op'[a].step \in Activating
    OBVIOUS
<1>1. setting # None
    BY NoneIsNoModel DEF EffectInv, TypeInv, TypeOK, StoreTypeOK
<1>2. Settled \/ \E a \in Admins : op[a].step \in Activating
    BY <1>1 DEF EffectInv
<1> QED BY <1>2 DEF Settled

LEMMA RunEffect ==
    ASSUME EffectInv, NEW r \in Requests, Run(r), TypeInv', LockInv'
    PROVE  EffectInv'
<1>1. /\ Loading'
      /\ \/ /\ cache' \in {cache, None} /\ loader' = loader
            /\ loader # None => using'[loader] = using[loader]
         \/ loader = None /\ loader' = r /\ using'[r] = Chosen /\ cache' = cache
         \/ loader = r /\ loader' = None /\ cache' \in {cache, using[r]}
    BY RunLoads DEF EffectInv
<1>2. UNCHANGED <<setting, active, saved, answered, op>>
    BY RunKeepsStore DEF modelVars, history
<1>3. r # None
    BY NoneIsNoRequest
<1>4. ASSUME active = setting, Settled PROVE Settled'
    BY <1>1, <1>2, <1>3, <1>4, AgreedChoice DEF Settled
<1> QED BY <1>1, <1>2, <1>4 DEF EffectInv

LEMMA StoreEffect ==
    ASSUME EffectInv, TypeInv', LockInv', NEW busy, StoreStep(busy), UNCHANGED runVars
    PROVE  EffectInv'
<1>1. /\ StoreInv /\ TypeInv
      /\ op \in [Admins -> Operations]
      /\ UNCHANGED <<pc, using>>
    BY DEF EffectInv, TypeInv, TypeOK, StoreInv, StoreTypeOK, runVars, held
<1>2. cache' \in {cache, None} /\ UNCHANGED loader
    BY StoreStepResidency
<1>3. Loading' /\ active = saved
    BY <1>1, <1>2 DEF EffectInv, Loading
<1>4. ASSUME active' = saved', Settled' \/ \E a \in Admins : op'[a].step \in Activating
      PROVE  EffectInv'
    BY <1>3, <1>4 DEF EffectInv
<1>5. ASSUME setting' = setting, saved' = active', active' \in {active, None},
             answered' \in {answered, None},
             \A b \in Admins : op[b].step \in Activating => op'[b].step \in Activating
      PROVE  EffectInv'
    BY <1>1, <1>2, <1>3, <1>5, Undisturbed DEF EffectInv
<1>6. ASSUME NEW a \in Admins, NEW m, NEW s, NEW was, NEW files, Begin(a, m, s, was, files)
      PROVE  \A b \in Admins : op[b].step \in Activating => op'[b].step \in Activating
    BY <1>1, <1>6 DEF Begin, Activating
<1>7. ASSUME NEW a \in Admins, NEW m \in Models,
             \/ BeginInstall(a, m) \/ BeginActivate(a, m) \/ BeginRevalidate(a, m)
             \/ BeginDelete(a, m, busy)
      PROVE  EffectInv'
    <2>1. PICK s, was, files : Begin(a, m, s, was, files)
        BY <1>7 DEF BeginInstall, BeginActivate, BeginRevalidate, BeginDelete
    <2>2. UNCHANGED <<setting, saved, active, answered>>
        BY <1>7 DEF BeginInstall, BeginActivate, BeginRevalidate, BeginDelete, history
    <2> QED BY <1>3, <1>5, <1>6, <2>1, <2>2
<1>8. ASSUME NEW a \in Admins, OpStep(a) PROVE EffectInv'
    <2>1. /\ \A s \in Steps : Go(a, s) =>
                /\ op'[a].step = s
                /\ \A b \in Admins \ {a} : op'[b] = op[b]
          /\ Done(a) => \A b \in Admins \ {a} : op'[b] = op[b]
        BY <1>1, Moved
    <2>2. ASSUME op[a].step \notin Activating, \A b \in Admins \ {a} : op'[b] = op[b],
                 setting' = setting, saved' = active', active' \in {active, None},
                 answered' \in {answered, None}
          PROVE  EffectInv'
        BY <1>5, <2>2
    <2>3. CASE \/ Fetch(a) \/ CheckStaged(a) \/ Promote(a) \/ WriteSidecar(a)
               \/ UnloadForDelete(a)
        <3>1. /\ op[a].step \in {"fetch", "check", "promote", "sidecar", "release"}
              /\ UNCHANGED <<setting, saved, active, answered>>
            BY <2>3 DEF Fetch, CheckStaged, Promote, WriteSidecar, UnloadForDelete, At, history
        <3>2. \A b \in Admins \ {a} : op'[b] = op[b]
            BY <1>1, <2>3
               DEF Fetch, CheckStaged, Promote, WriteSidecar, UnloadForDelete, Done, Go
        <3> QED BY <1>3, <2>2, <3>1, <3>2 DEF Activating
    <2>4. CASE List(a) \/ Unlink(a)
        <3>1. op[a].step \in {"list", "unlink"} /\ UNCHANGED <<setting, saved, active, answered>>
            BY <2>4 DEF List, Unlink, At, history
        <3>2. \A b \in Admins \ {a} : op'[b] = op[b]
            BY <1>1, <2>4 DEF List, Unlink, Go
        <3> QED BY <1>3, <2>2, <3>1, <3>2 DEF Activating
    <2>5. CASE Finalize(a) \/ EndDelete(a) \/ SaveRevalidated(a)
        <3>1. Done(a) /\ op[a].step \in {"finalize", "metadata", "save"}
            BY <2>5 DEF Finalize, EndDelete, SaveRevalidated, At
        <3>2. /\ saved' = active' /\ active' \in {active, None}
              /\ answered' \in {answered, None} /\ setting' = setting
            BY <1>3, <2>5 DEF Finalize, EndDelete, Deleted, DeletionFailed, SaveRevalidated, history
        <3> QED BY <2>1, <2>2, <3>1, <3>2 DEF Activating
    <2>6. CASE SetActive(a) \/ ApplySetting(a)
        <3>1. /\ Go(a, "setting") \/ Go(a, "unload")
              /\ active' = saved'
            BY <1>3, <2>6 DEF SetActive, ApplySetting
        <3>2. op'[a].step \in Activating
            BY <2>1, <3>1 DEF Steps, Activating
        <3> QED BY <1>4, <3>1, <3>2
    \* Nothing is cached when an activation is answered, and no load is under way.
    <2>7. CASE UnloadForActivation(a)
        <3>1. loader = None /\ cache' = None /\ UNCHANGED <<active, saved>>
            BY <2>7 DEF UnloadForActivation
        <3>2. Settled'
            BY <1>2, <3>1 DEF Settled
        <3> QED BY <1>3, <1>4, <3>1, <3>2
    <2> QED BY <1>8, <2>3, <2>4, <2>5, <2>6, <2>7 DEF OpStep
<1>9. CASE SetStorageDirectory
    <2>1. PICK lost \in SUBSET Parts :
            op' = [b \in Admins |->
                     IF op[b].step \in {"fetch", "check", "promote"}
                     THEN [op[b] EXCEPT !.parts = @ \ lost, !.was = TRUE] ELSE op[b]]
        BY <1>9 DEF SetStorageDirectory
    <2>2. \A b \in Admins : op'[b].step = op[b].step
        BY <1>1, <2>1 DEF Operations
    <2>3. active' = saved /\ UNCHANGED <<saved, setting, answered>>
        BY <1>9 DEF SetStorageDirectory, history
    <2> QED BY <1>3, <1>5, <2>2, <2>3
<1> QED BY <1>7, <1>8, <1>9 DEF StoreStep

\* An activation that was answered takes effect: however activations, loads and
\* the other operations on models overlap, whatever fails or dies, no pipeline
\* but that of the model both the registry and the settings name is cached when
\* no operation is under way, for any number of requests, models and threads.
THEOREM ActivationsTakeEffect == Spec => []ActivationTakesEffect
<1>1. Init => EffectInv
    <2> SUFFICES ASSUME Init PROVE EffectInv
        OBVIOUS
    <2>1. LockInv /\ Loading
        BY DEF Init, StoreInit, LockInv, Loading, Locked
    <2>2. answered = None /\ active = saved
        BY DEF Init, StoreInit
    <2> QED BY <2>1, <2>2, TypeInit DEF EffectInv
<1>2. EffectInv /\ [Next]_vars => EffectInv'
    <2> SUFFICES ASSUME EffectInv, [Next]_vars PROVE EffectInv'
        OBVIOUS
    <2>1. TypeInv' /\ LockInv'
        <3>1. TypeInv'
            BY TypeStep DEF EffectInv
        <3> QED BY <3>1, LockStep DEF EffectInv
    <2>2. ASSUME NEW r \in Requests, Run(r) PROVE EffectInv'
        BY <2>1, <2>2, RunEffect
    <2>3. ASSUME NEW r \in Requests, Submit(r) \/ Cancel(r) PROVE EffectInv'
        <3>1. UNCHANGED <<setting, active, saved, answered, op>>
            BY <2>3, RunKeepsStore DEF modelVars, history
        <3>2. UNCHANGED <<cache, loader, using>>
            BY <2>3 DEF Submit, Cancel, held
        <3>3. Loading'
            BY <2>3, <3>2 DEF EffectInv, Submit, Cancel, To, Loading, TypeInv, TypeOK
        <3> QED BY <2>1, <3>1, <3>2, <3>3, Undisturbed DEF EffectInv
    <2>4. CASE Models_API
        <3>1. StoreStep(JobsActive) /\ UNCHANGED runVars
            BY <2>4 DEF Models_API
        <3> QED BY <2>1, <3>1, StoreEffect
    <2>5. CASE Crash
        <3>1. /\ active' = saved /\ saved' = saved /\ answered' = None
              /\ pc' = [r \in Requests |-> IF pc[r] \in Ended \cup {"new"} THEN pc[r] ELSE "lost"]
            BY <2>5 DEF Crash, StoreRestart
        <3>2. Loading'
            BY <3>1 DEF Loading, Ended
        <3> QED BY <2>1, <3>1, <3>2 DEF EffectInv
    <2>6. CASE UNCHANGED vars
        <3>1. UNCHANGED <<setting, active, saved, answered, op, cache, loader, using, pc>>
            BY <2>6 DEF vars, storeVars, modelVars, runVars, held, history
        <3>2. Loading'
            BY <3>1 DEF EffectInv, Loading
        <3> QED BY <2>1, <3>1, <3>2, Undisturbed DEF EffectInv
    <2> QED BY <2>2, <2>3, <2>4, <2>5, <2>6 DEF Next
<1>3. EffectInv => ActivationTakesEffect
    <2> SUFFICES ASSUME EffectInv, answered # None, active = setting,
                        \A a \in Admins : op[a] = NoOp
                 PROVE  cache \in {None, setting}
        BY DEF ActivationTakesEffect
    <2>1. \A a \in Admins : op[a].step \notin Activating
        BY DEF NoOp, Activating
    <2> QED BY <2>1 DEF EffectInv, Settled
<1> QED BY <1>1, <1>2, <1>3, PTL DEF Spec

-----------------------------------------------------------------------------
(* Nobody waits for a thread that is gone.  The generation lock belongs to a *)
(* request under way, and whoever waits for the lock of the model manager    *)
(* waits for a load, which waits for nothing.                                *)

HolderInv == lock # None => pc[lock] \in Locked

FreeInv == TypeInv /\ LockInv /\ HolderInv

LEMMA RunHolder ==
    ASSUME TypeInv, LockInv, HolderInv, NEW r \in Requests, Run(r)
    PROVE  HolderInv'
<1>1. /\ pc \in [Requests -> Places] /\ lock \in Requests \cup {None}
      /\ None \notin Requests
    BY NoneIsNoRequest DEF TypeInv, TypeOK
<1>2. CASE Accept(r)
    BY <1>1, <1>2 DEF Accept, To, End, Proceed, Stay, held, HolderInv, Locked
<1>3. CASE Execute(r)
    BY <1>1, <1>3 DEF Execute, To, End, Proceed, Stay, held, HolderInv, Locked
<1>4. CASE Validated(r)
    BY <1>1, <1>4 DEF Validated, To, End, Proceed, Stay, held, HolderInv, Locked
<1>5. CASE Acquire(r)
    BY <1>1, <1>5 DEF Acquire, To, End, Proceed, Stay, held, HolderInv, Locked
<1>6. CASE Prepare(r)
    BY <1>1, <1>6 DEF Prepare, To, End, Proceed, Stay, held, HolderInv, Locked
<1>7. CASE FindCached(r)
    BY <1>1, <1>7 DEF FindCached, To, End, Proceed, Stay, held, HolderInv, Locked
<1>8. CASE Reuse(r)
    BY <1>1, <1>8 DEF Reuse, To, End, Proceed, Stay, held, HolderInv, Locked
<1>9. CASE BeginLoad(r)
    BY <1>1, <1>9 DEF BeginLoad, To, End, Proceed, Stay, held, HolderInv, Locked
<1>10. CASE EndLoad(r)
    BY <1>1, <1>10 DEF EndLoad, To, End, Proceed, Stay, held, HolderInv, Locked
<1>11. CASE Sample(r)
    BY <1>1, <1>11 DEF Sample, To, End, Proceed, Stay, held, HolderInv, Locked
<1>12. CASE HandOver(r)
    BY <1>1, <1>12 DEF HandOver, AfterCutout, To, End, Proceed, Stay, held, HolderInv, Locked
<1>13. CASE BeginCutout(r)
    BY <1>1, <1>13 DEF BeginCutout, To, End, Proceed, Stay, held, HolderInv, Locked
<1>14. CASE EndCutout(r)
    BY <1>1, <1>14 DEF EndCutout, AfterCutout, To, End, Proceed, Stay, held, HolderInv, Locked
<1>15. CASE BeginRepair(r)
    BY <1>1, <1>15 DEF BeginRepair, To, End, Proceed, Stay, held, HolderInv, Locked
<1>16. CASE EndRepair(r)
    BY <1>1, <1>16 DEF EndRepair, To, End, Proceed, Stay, held, HolderInv, Locked
<1>17. CASE Finish(r)
    BY <1>1, <1>17 DEF Finish, To, End, Proceed, Stay, held, HolderInv, Locked
<1>18. CASE MakeDirectory(r)
    BY <1>1, <1>18 DEF MakeDirectory, To, End, Proceed, Stay, held, HolderInv, Locked
<1>19. CASE WriteOriginal(r)
    BY <1>1, <1>19 DEF WriteOriginal, Write, To, End, Proceed, Stay, held, HolderInv, Locked
<1>20. CASE WriteImage(r)
    BY <1>1, <1>20 DEF WriteImage, Write, To, End, Proceed, Stay, held, HolderInv, Locked
<1>21. CASE WriteManifest(r)
    BY <1>1, <1>21 DEF WriteManifest, Write, To, End, Proceed, Stay, held, HolderInv, Locked
<1> QED BY <1>2, <1>3, <1>4, <1>5, <1>6, <1>7, <1>8, <1>9, <1>10, <1>11, <1>12, <1>13, <1>14, <1>15, <1>16, <1>17, <1>18, <1>19, <1>20, <1>21 DEF Run

LEMMA HolderStep ==
    ASSUME FreeInv, [Next]_vars
    PROVE  HolderInv'
<1>1. TypeInv /\ LockInv /\ HolderInv /\ pc \in [Requests -> Places]
      /\ lock \in Requests \cup {None} /\ None \notin Requests
    BY NoneIsNoRequest DEF FreeInv, TypeInv, TypeOK
<1>2. ASSUME UNCHANGED <<pc, lock>> PROVE HolderInv'
    BY <1>1, <1>2 DEF HolderInv
<1>3. ASSUME NEW r \in Requests, Submit(r) PROVE HolderInv'
    <2>1. pc[r] = "new" /\ pc' = [pc EXCEPT ![r] = "probing"] /\ UNCHANGED lock
        BY <1>3 DEF Submit, To, held
    <2> QED BY <1>1, <2>1 DEF HolderInv, Locked
<1>4. ASSUME NEW r \in Requests, Run(r) PROVE HolderInv'
    BY <1>1, <1>4, RunHolder
<1>5. ASSUME NEW r \in Requests, Cancel(r) PROVE HolderInv'
    BY <1>2, <1>5 DEF Cancel
<1>6. CASE Models_API
    BY <1>2, <1>6 DEF Models_API, runVars, held
<1>7. CASE Crash
    BY <1>7 DEF Crash, HolderInv
<1>8. CASE UNCHANGED vars
    BY <1>2, <1>8 DEF vars, runVars, held
<1> QED BY <1>3, <1>4, <1>5, <1>6, <1>7, <1>8 DEF Next

\* Whoever holds a lock is under way, and a load waits for nobody.
LEMMA HoldersMove ==
    ASSUME FreeInv
    PROVE  SomeoneIsFree
<1>1. /\ lock \in Requests \cup {None} /\ loader \in Requests \cup {None}
    BY DEF FreeInv, TypeInv, TypeOK
<1>2. ASSUME loader # None PROVE \E r \in Requests : Busy(r) /\ ~Waits(r)
    <2>1. pc[loader] = "loading"
        BY <1>2 DEF FreeInv, LockInv
    <2> QED BY <1>1, <1>2, <2>1 DEF Busy, Waits, Ended
<1>3. ASSUME NEW r \in Requests, Busy(r) PROVE \E q \in Requests : Busy(q) /\ ~Waits(q)
    <2>1. CASE loader # None
        BY <1>2, <2>1
    <2>2. CASE loader = None /\ lock # None
        <3>1. lock \in Requests /\ pc[lock] \in Locked
            BY <1>1, <2>2 DEF FreeInv, HolderInv
        <3>2. Busy(lock) /\ ~Waits(lock)
            BY <2>2, <3>1 DEF Busy, Waits, Ended, Locked
        <3> QED BY <3>1, <3>2
    <2>3. CASE loader = None /\ lock = None
        BY <1>3, <2>3 DEF Waits
    <2> QED BY <2>1, <2>2, <2>3
<1>4. ASSUME NEW a \in Admins, op[a] # NoOp
      PROVE  \/ \E b \in Admins : op[b] # NoOp /\ ~OpWaits(b)
             \/ \E r \in Requests : Busy(r) /\ ~Waits(r)
    BY <1>2, <1>4 DEF OpWaits
<1> QED BY <1>3, <1>4 DEF SomeoneIsFree

\* As long as a request or an operation on models is under way, some thread
\* waits for neither lock: whatever fails, is cancelled or dies, no lock is left
\* with a thread that is gone and no two threads wait for each other, for any
\* number of requests and administrators.
THEOREM NobodyIsStuck == Spec => []SomeoneIsFree
<1>1. Init => FreeInv
    <2> SUFFICES ASSUME Init PROVE FreeInv
        OBVIOUS
    <2>1. LockInv /\ HolderInv
        BY DEF Init, StoreInit, LockInv, HolderInv, Locked
    <2> QED BY <2>1, TypeInit DEF FreeInv
<1>2. FreeInv /\ [Next]_vars => FreeInv'
    BY TypeStep, LockStep, HolderStep DEF FreeInv
<1>3. FreeInv => SomeoneIsFree
    BY HoldersMove
<1> QED BY <1>1, <1>2, <1>3, PTL DEF Spec

=============================================================================
