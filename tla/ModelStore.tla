----------------------------- MODULE ModelStore -----------------------------
(***************************************************************************)
(* Managed models: ModelService with its registry, its installer and the   *)
(* directory of each model on disk.  The handlers run in a pool of request *)
(* threads (Admins) without a lock, so every operation is a sequence of    *)
(* steps.  The pipeline ModelManager caches is here too, because activating *)
(* or deleting a model unloads it; who loads it is GenerationRuntime.      *)
(*                                                                         *)
(* A directory holds Parts: "core" is what the structural validation asks  *)
(* for (an index, one file per component, one weight file), "extra" the    *)
(* files whose absence it does not notice.  A model's id and its source    *)
(* identifier are one value.  There is one storage directory: giving it    *)
(* again is modelled, moving to another one is not.                        *)
(***************************************************************************)
EXTENDS Naturals, FiniteSets

CONSTANTS
    Models,     \* models that can be installed
    Configured, \* MODEL_ID of the environment: one of Models or a hub id
    Admins,     \* request threads of the models API
    None,
    MaxWork     \* bound: operations, requests and crashes of one behaviour

ASSUME NoneIsNoModel == None \notin Models \cup {Configured}
ASSUME MaxWorkIsNat == MaxWork \in Nat

Parts == {"core", "extra"}
Statuses == {"installed", "invalid", "deletion_failed"}
Records == [status : Statuses, files : SUBSET Parts]

ASSUME NoneIsNoRecord == None \notin Records

VARIABLES
    home,       \* home[m]: the directory of m exists
    tree,       \* tree[m]: the parts in it
    record,     \* record[m]: .metadata.json, or None
    active,     \* ModelRegistry._active_model_id
    saved,      \* active_model_id in .registry.json
    setting,    \* Settings.model_id
    op,         \* op[a]: the operation thread a is in, and where
    cache,      \* ModelManager._pipeline: the model it was loaded from
    loader,     \* the request that holds ModelManager._lock while it loads
    answered,   \* the model of the last activation that was answered
    cut,        \* models whose deletion ended half way, their record as before
    raced,      \* models deleted while a revalidation or a deletion was at them
    untold,     \* models no full list of files was recorded of
    budget      \* how much work the bound still allows

history == <<answered, cut, raced, untold>>
modelVars == <<home, tree, record, active, saved, setting, op, history>>
storeVars == <<modelVars, budget>>

Steps == {"idle", "fetch", "check", "promote", "sidecar", "finalize", "activate",
          "setting", "unload", "release", "list", "unlink", "metadata", "save"}
NoOp == [step |-> "idle", model |-> None, was |-> FALSE, files |-> {}, parts |-> {},
         left |-> FALSE]

\* was: the model was the active one (a deletion), is whole (a revalidation), or
\* had its staging area emptied (an install); files: those its record had when
\* the operation began; parts: those staged, or still to be removed; left: some
\* file could not be removed.
Operations == [step : Steps, model : Models \cup {None}, was : BOOLEAN,
               files : SUBSET Parts, parts : SUBSET Parts, left : BOOLEAN]

StoreTypeOK ==
    /\ home \in [Models -> BOOLEAN]
    /\ tree \in [Models -> SUBSET Parts]
    /\ record \in [Models -> Records \cup {None}]
    /\ {active, saved, answered, cache} \subseteq Models \cup {Configured, None}
    /\ setting \in Models \cup {Configured}
    /\ op \in [Admins -> Operations]
    /\ cut \subseteq Models /\ raced \subseteq Models /\ untold \subseteq Models
    /\ budget \in 0..MaxWork

\* The storage as earlier runs of the program left it: some models installed,
\* one of them perhaps active.  The metadata of some may list no files: it is
\* read whoever wrote it, and "files" may be missing from it.
StoreInit ==
    /\ \E installed \in SUBSET Models :
         /\ untold \in SUBSET installed
         /\ home = [m \in Models |-> m \in installed]
         /\ tree = [m \in Models |-> IF m \in installed THEN Parts ELSE {}]
         /\ record = [m \in Models |-> IF m \in installed
                         THEN [status |-> "installed",
                               files |-> IF m \in untold THEN {} ELSE Parts] ELSE None]
         /\ saved \in installed \cup {None}
    /\ active = saved
    /\ answered = None
    /\ setting = Configured
    /\ op = [a \in Admins |-> NoOp]
    /\ cache = None /\ loader = None
    /\ cut = {} /\ raced = {}
    /\ budget = MaxWork

-----------------------------------------------------------------------------
(* What the service reads. *)

Usable(m) == m \in Models /\ record[m] # None /\ record[m].status = "installed"

GetActive ==
    IF Usable(active) THEN active
    ELSE IF Usable(setting) THEN setting ELSE None

\* What ModelManager loads: the managed install of the configured id, else the
\* active model, else the configured id itself, from the hub.
Chosen ==
    IF Usable(setting) /\ home[setting] THEN setting
    ELSE IF GetActive # None THEN GetActive ELSE setting

Structured(parts) == "core" \in parts

\* The models some thread is at, in one of these steps.
Under(steps) == {op[a].model : a \in {b \in Admins : op[b].step \in steps}}

Deleting == Under({"unlink", "metadata"})
Removing == Under({"release", "list", "unlink", "metadata"})

-----------------------------------------------------------------------------
(* Operations.  Begin starts one, Go(a) moves it, Done(a) answers it. *)

Spend == budget > 0 /\ budget' = budget - 1

Begin(a, m, step, was, files) ==
    /\ op[a].step = "idle"
    /\ Spend
    /\ op' = [op EXCEPT ![a] =
                [step |-> step, model |-> m, was |-> was, files |-> files, parts |-> {},
                 left |-> FALSE]]

At(a, step) == op[a].step = step
Go(a, step) == op' = [op EXCEPT ![a].step = step]
Done(a) == op' = [op EXCEPT ![a] = NoOp]

\* install: refused if the directory exists; a staging directory of its own.
BeginInstall(a, m) ==
    /\ ~home[m]
    /\ Begin(a, m, "fetch", FALSE, {})
    /\ UNCHANGED <<home, tree, record, active, saved, setting, cache, loader, history>>

\* The copy or the download fills the staging directory, or raises and the
\* staging directory is removed.  Of a staging area emptied meanwhile, the files
\* that came before may be gone.
Fetch(a) ==
    /\ At(a, "fetch")
    /\ \/ \E staged \in (IF op[a].was THEN SUBSET Parts ELSE {Parts}) :
            op' = [op EXCEPT ![a].step = "check", ![a].parts = staged]
       \/ Done(a)
    /\ UNCHANGED <<home, tree, record, active, saved, setting, cache, loader,
                   history, budget>>

CheckStaged(a) ==
    /\ At(a, "check")
    /\ IF Structured(op[a].parts) THEN Go(a, "promote") ELSE Done(a)
    /\ UNCHANGED <<home, tree, record, active, saved, setting, cache, loader,
                   history, budget>>

\* staging.replace(destination): fails if the staging directory is gone or the
\* destination was created by another install in the meantime.
Promote(a) ==
    LET m == op[a].model IN
    /\ At(a, "promote")
    /\ IF op[a].parts = {} \/ home[m]
       THEN Done(a) /\ UNCHANGED <<home, tree, cut, untold>>
       ELSE /\ Go(a, "sidecar")
            /\ home' = [home EXCEPT ![m] = TRUE]
            /\ tree' = [tree EXCEPT ![m] = op[a].parts]
            /\ cut' = cut \ {m}
            /\ untold' = IF op[a].was THEN untold \cup {m} ELSE untold \ {m}
    /\ UNCHANGED <<record, active, saved, setting, cache, loader, answered, raced, budget>>

\* The sidecar is written in the promoted directory.  When the write raises,
\* only the staging directory, which has moved, is removed.
WriteSidecar(a) ==
    /\ At(a, "sidecar")
    /\ Go(a, "finalize") \/ Done(a)
    /\ UNCHANGED <<home, tree, record, active, saved, setting, cache, loader,
                   history, budget>>

\* _finalize_install: hash what is there, validate it against these hashes and
\* write the metadata; when anything raises the directory is removed.
Finalize(a) ==
    LET m == op[a].model IN
    /\ At(a, "finalize") /\ Done(a)
    /\ \/ /\ Structured(tree[m])
          /\ record' = [record EXCEPT ![m] = [status |-> "installed", files |-> tree[m]]]
          /\ saved' = active
          /\ UNCHANGED <<home, tree>>
       \/ /\ home' = [home EXCEPT ![m] = FALSE]
          /\ tree' = [tree EXCEPT ![m] = {}]
          /\ record' = [record EXCEPT ![m] = None]
          /\ UNCHANGED saved
    /\ UNCHANGED <<active, setting, cache, loader, history, budget>>

\* set_storage_directory with the directory in use: the registry file is read
\* again and the staging area, that of a running install included, is emptied;
\* the removal ignores what it cannot remove.
SetStorageDirectory ==
    /\ Spend
    /\ active' = saved
    /\ \E lost \in SUBSET Parts :
         op' = [b \in Admins |->
                  IF op[b].step \in {"fetch", "check", "promote"}
                  THEN [op[b] EXCEPT !.parts = @ \ lost, !.was = TRUE] ELSE op[b]]
    /\ UNCHANGED <<home, tree, record, saved, setting, cache, loader, history>>

\* activate: the check, the registry, the settings, then the cached pipeline.
BeginActivate(a, m) ==
    /\ Usable(m)
    /\ Begin(a, m, "activate", FALSE, {})
    /\ UNCHANGED <<home, tree, record, active, saved, setting, cache, loader, history>>

SetActive(a) ==
    /\ At(a, "activate")
    /\ active' = op[a].model /\ saved' = op[a].model
    /\ Go(a, "setting")
    /\ UNCHANGED <<home, tree, record, setting, cache, loader, history, budget>>

ApplySetting(a) ==
    /\ At(a, "setting")
    /\ setting' = op[a].model
    /\ Go(a, "unload")
    /\ UNCHANGED <<home, tree, record, active, saved, cache, loader, history, budget>>

\* As a mutant: the pipeline is left cached.
UnloadSkipped(a) ==
    /\ At(a, "unload")
    /\ answered' = op[a].model
    /\ Done(a)
    /\ UNCHANGED <<home, tree, record, active, saved, setting, cache, loader, cut, raced,
                   untold, budget>>

\* unload_pipeline waits for ModelManager._lock.
UnloadForActivation(a) ==
    /\ At(a, "unload") /\ loader = None
    /\ cache' = None
    /\ answered' = op[a].model
    /\ Done(a)
    /\ UNCHANGED <<home, tree, record, active, saved, setting, loader, cut, raced,
                   untold, budget>>

\* delete: only the active model is looked up in the jobs, and unloaded.
BeginDelete(a, m, jobsActive) ==
    LET isActive == GetActive = m IN
    /\ record[m] # None
    /\ ~(isActive /\ jobsActive)
    /\ Begin(a, m, IF isActive THEN "release" ELSE "list", isActive, record[m].files)
    /\ raced' = IF m \in Removing \cup Under({"save"}) THEN raced \cup {m} ELSE raced
    /\ UNCHANGED <<home, tree, record, active, saved, setting, cache, loader, answered, cut,
                   untold>>

UnloadForDelete(a) ==
    /\ At(a, "release") /\ loader = None
    /\ cache' = None
    /\ Go(a, "list")
    /\ UNCHANGED <<home, tree, record, active, saved, setting, loader, history, budget>>

\* _remove_tree: the files that are there are listed, then removed one by one,
\* hidden files last.  One that cannot be removed, or is gone by then, is left.
List(a) ==
    /\ At(a, "list")
    /\ op' = [op EXCEPT ![a].step = "unlink", ![a].parts = tree[op[a].model]]
    /\ UNCHANGED <<home, tree, record, active, saved, setting, cache, loader, history, budget>>

Unlink(a) ==
    LET m == op[a].model IN
    /\ At(a, "unlink")
    /\ \/ op[a].parts = {} /\ Go(a, "metadata") /\ UNCHANGED tree
       \/ \E p \in op[a].parts :
            \/ /\ p \in tree[m]
               /\ tree' = [tree EXCEPT ![m] = @ \ {p}]
               /\ op' = [op EXCEPT ![a].parts = @ \ {p}]
            \/ /\ op' = [op EXCEPT ![a].parts = @ \ {p}, ![a].left = TRUE]
               /\ UNCHANGED tree
    /\ UNCHANGED <<home, record, active, saved, setting, cache, loader, history, budget>>

\* The metadata goes last, then the directory.
Deleted(a, m) ==
    /\ ~op[a].left /\ tree[m] = {}
    /\ record' = [record EXCEPT ![m] = None]
    /\ home' = [home EXCEPT ![m] = FALSE]
    /\ active' = IF op[a].was \/ active = m THEN None ELSE active
    /\ saved' = active'
    /\ UNCHANGED cut

\* Something is left, were it only the metadata: the deletion is recorded as
\* failed if the directory is still there.  When the metadata can be neither
\* removed nor written, the record stays what it was.
DeletionFailed(a, m) ==
    /\ \/ /\ home[m]
          /\ record' = [record EXCEPT ![m] =
                          [status |-> "deletion_failed", files |-> op[a].files]]
          /\ saved' = active
          /\ UNCHANGED cut
       \/ record' = [record EXCEPT ![m] = None] /\ UNCHANGED <<saved, cut>>
       \/ UNCHANGED <<record, saved>> /\ cut' = cut \cup {m}
    /\ UNCHANGED <<home, active>>

EndDelete(a) ==
    LET m == op[a].model IN
    /\ At(a, "metadata") /\ Done(a)
    /\ Deleted(a, m) \/ DeletionFailed(a, m)
    /\ answered' = IF answered = m THEN None ELSE answered
    /\ UNCHANGED <<tree, setting, cache, loader, raced, untold, budget>>

\* As a mutant: the recorded hashes are not compared.
BeginRevalidateStructure(a, m) ==
    /\ record[m] # None
    /\ Begin(a, m, "save", Structured(tree[m]), record[m].files)
    /\ raced' = IF m \in Removing THEN raced \cup {m} ELSE raced
    /\ UNCHANGED <<home, tree, record, active, saved, setting, cache, loader, answered, cut,
                   untold>>

\* revalidate: hash the directory now, write the record afterwards.
BeginRevalidate(a, m) ==
    /\ record[m] # None
    /\ Begin(a, m, "save", Structured(tree[m]) /\ record[m].files \subseteq tree[m],
             record[m].files)
    /\ raced' = IF m \in Removing THEN raced \cup {m} ELSE raced
    /\ UNCHANGED <<home, tree, record, active, saved, setting, cache, loader, answered, cut,
                   untold>>

\* As a mutant: the state of the report is stored as the status.
SaveOutcome(a) ==
    LET m == op[a].model IN
    /\ At(a, "save") /\ Done(a)
    /\ record' = [record EXCEPT ![m] = [status |-> IF op[a].was THEN "valid" ELSE "invalid",
                                       files |-> op[a].files]]
    /\ home' = [home EXCEPT ![m] = TRUE]
    /\ saved' = active
    /\ UNCHANGED <<tree, active, setting, cache, loader, history, budget>>

\* Hashes are computed now if the record had none.  Writing the metadata creates
\* the directory if it is gone; when writing raises, the metadata or only the
\* index may be as before.
SaveRevalidated(a) ==
    LET m == op[a].model IN
    /\ At(a, "save") /\ Done(a)
    /\ \/ /\ record' = [record EXCEPT ![m] =
                          [status |-> IF op[a].was THEN "installed" ELSE "invalid",
                           files |-> IF op[a].files = {} THEN tree[m] ELSE op[a].files]]
          /\ home' = [home EXCEPT ![m] = TRUE]
          /\ saved' \in {saved, active}
       \/ /\ home' = [home EXCEPT ![m] = TRUE] \/ UNCHANGED home
          /\ UNCHANGED <<record, saved>>
    /\ UNCHANGED <<tree, active, setting, cache, loader, history, budget>>

OpStep(a) ==
    \/ Fetch(a) \/ CheckStaged(a) \/ Promote(a) \/ WriteSidecar(a) \/ Finalize(a)
    \/ SetActive(a) \/ ApplySetting(a) \/ UnloadForActivation(a)
    \/ UnloadForDelete(a) \/ List(a) \/ Unlink(a) \/ EndDelete(a)
    \/ SaveRevalidated(a)

StoreStep(jobsActive) ==
    \/ \E a \in Admins, m \in Models :
         BeginInstall(a, m) \/ BeginActivate(a, m) \/ BeginRevalidate(a, m)
           \/ BeginDelete(a, m, jobsActive)
    \/ \E a \in Admins : OpStep(a)
    \/ SetStorageDirectory

\* The process dies and starts again: the registry is read from disk, the
\* settings from the environment, and the staging area is emptied.
StoreRestart ==
    /\ active' = saved
    /\ setting' = Configured
    /\ op' = [a \in Admins |-> NoOp]
    /\ cache' = None /\ loader' = None /\ answered' = None
    /\ cut' = (cut \cup Deleting) \cap {m \in Models : record[m] # None}
    /\ UNCHANGED <<home, tree, record, saved, raced, untold>>

=============================================================================
