-------------------------- MODULE GenerationRuntime --------------------------
(***************************************************************************)
(* One process that generates: the threads that run generate_texture (one  *)
(* per request), the request threads that validate submissions, the cached *)
(* diffusion pipeline, the two post-processing models, and the files a     *)
(* generation leaves.  Inference is serialised by the generation lock; the *)
(* validation of a request and the models API (ModelStore) run outside it. *)
(* What a request needs of the validation is only whether it names a       *)
(* post-processing model; the rest of it is RequestPolicy.                 *)
(***************************************************************************)
EXTENDS ModelStore

CONSTANTS
    Requests,   \* generations asked for; each is executed at most once
    Exclusive,  \* exclusive_model_vram and not enable_cpu_offload
    Preserve,   \* preserve_original_image
    Needs       \* the sets of processing steps requests ask for

ASSUME ExclusiveIsBoolean == Exclusive \in BOOLEAN
ASSUME PreserveIsBoolean == Preserve \in BOOLEAN
ASSUME NeedsAreSteps == Needs \subseteq SUBSET {"cutout", "repair", "palette"}
ASSUME NoneIsNoRequest == None \notin Requests

VARIABLES
    pc,         \* pc[r]: where the thread of r is
    need,       \* need[r]: "cutout" (background removal), "repair" (seams),
                \* "palette" (palette reduction)
    cancel,     \* cancel[r]: the cancel event of r
    lock,       \* GenerationService._generation_lock: its holder
    using,      \* using[r]: the model of the pipeline r samples with
    remover,    \* the rembg session: "unloaded", "loaded", "broken"
    inpainter,  \* the seam inpainting pipeline: the same, or "mended" (loaded
                \* although a load failed before)
    out         \* out[r]: the files of the generation directory of r

held == <<cancel, lock, using>>
runVars == <<pc, need, held, remover, inpainter, out>>
vars == <<storeVars, cache, loader, runVars>>

Ended == {"refused", "completed", "cancelled", "failed", "lost"}
Submitting == {"new", "probing"}
Places == Ended \cup Submitting \cup
    {"queued", "checking", "waiting", "prepare", "pipeline", "reuse", "loading",
     "sampling", "handover", "cutout", "cutting", "repair", "repairing", "finish",
     "persist", "original", "image", "manifest"}
Files == {"dir", "original", "image", "manifest", "tmp.png", "tmp.json"}
Loads == {"unloaded", "loaded", "broken", "mended"}
Resident == {"loaded", "mended"}
Known == Models \cup {Configured, None}

TypeOK ==
    /\ StoreTypeOK
    /\ loader \in Requests \cup {None} /\ lock \in Requests \cup {None}
    /\ pc \in [Requests -> Places] /\ need \in [Requests -> Needs \cup {{}}]
    /\ cancel \in [Requests -> BOOLEAN]
    /\ using \in [Requests -> Known]
    /\ remover \in Loads \ {"mended"} /\ inpainter \in Loads
    /\ out \in [Requests -> SUBSET Files]

Init ==
    /\ StoreInit
    /\ pc = [r \in Requests |-> "new"]
    /\ need = [r \in Requests |-> {}]
    /\ cancel = [r \in Requests |-> FALSE]
    /\ lock = None
    /\ using = [r \in Requests |-> None]
    /\ remover = "unloaded" /\ inpainter = "unloaded"
    /\ out = [r \in Requests |-> {}]

-----------------------------------------------------------------------------
(* Moving a request. *)

To(r, place) == pc' = [pc EXCEPT ![r] = place]

Stay == UNCHANGED held

\* As a mutant: the lock is not released.
EndHolding(r, outcome) ==
    /\ To(r, outcome)
    /\ using' = [using EXCEPT ![r] = None]
    /\ cancel' = [cancel EXCEPT ![r] = FALSE]
    /\ UNCHANGED lock

\* The thread is done: the lock, if r has it, its cancel event and what it
\* refers to are given up.
End(r, outcome) ==
    /\ To(r, outcome)
    /\ lock' = IF lock = r THEN None ELSE lock
    /\ using' = [using EXCEPT ![r] = None]
    /\ cancel' = [cancel EXCEPT ![r] = FALSE]

\* raise_if_cancelled, or on to the next place.
Proceed(r, place) ==
    IF cancel[r] THEN End(r, "cancelled")
    ELSE To(r, place) /\ Stay

JobsActive == \E r \in Requests : pc[r] \notin Ended \cup Submitting

Unloaded(model) ==
    IF model = "loaded" THEN "unloaded" ELSE IF model = "mended" THEN "broken" ELSE model

\* RembgBackgroundRemover._ensure_session: a failure is remembered.
EnsureSession ==
    remover' \in (IF remover = "unloaded" THEN {"loaded", "broken"} ELSE {remover})

\* The checks of a validation that ask for the post-processing models.
Available(r) ==
    /\ "cutout" \in need[r] => remover = "loaded"
    /\ "repair" \in need[r] => inpainter # "broken"

-----------------------------------------------------------------------------
(* Validation: once by the thread of the HTTP request and once more by the *)
(* worker that executes it.  Asking whether background removal is available *)
(* loads its session; whether it is there is read afterwards.              *)

Submit(r) ==
    /\ pc[r] = "new"
    /\ \E n \in Needs :
         /\ need' = [need EXCEPT ![r] = n]
         /\ IF "cutout" \in n THEN EnsureSession ELSE UNCHANGED remover
    /\ To(r, "probing") /\ Spend
    /\ UNCHANGED <<modelVars, cache, loader, held, inpainter, out>>

Accept(r) ==
    /\ pc[r] = "probing"
    /\ IF Available(r) THEN To(r, "queued") /\ Stay ELSE End(r, "refused")
    /\ UNCHANGED <<storeVars, cache, loader, need, remover, inpainter, out>>

Execute(r) ==
    /\ pc[r] = "queued"
    /\ Proceed(r, "checking")
    /\ IF ~cancel[r] /\ "cutout" \in need[r] THEN EnsureSession ELSE UNCHANGED remover
    /\ UNCHANGED <<storeVars, cache, loader, need, inpainter, out>>

Validated(r) ==
    /\ pc[r] = "checking"
    /\ IF Available(r) THEN Proceed(r, "waiting") ELSE End(r, "failed")
    /\ UNCHANGED <<storeVars, cache, loader, need, remover, inpainter, out>>

Cancel(r) ==
    /\ pc[r] \notin Ended \cup Submitting /\ ~cancel[r]
    /\ cancel' = [cancel EXCEPT ![r] = TRUE]
    /\ UNCHANGED <<storeVars, cache, loader, pc, need, lock, using, remover,
                   inpainter, out>>

-----------------------------------------------------------------------------
(* Under the generation lock. *)

Acquire(r) ==
    /\ pc[r] = "waiting" /\ lock = None
    /\ IF cancel[r] THEN End(r, "cancelled")
       ELSE To(r, "prepare") /\ lock' = r /\ UNCHANGED <<cancel, using>>
    /\ UNCHANGED <<storeVars, cache, loader, need, remover, inpainter, out>>

\* As a mutant: only background removal is unloaded.
PrepareRemoverOnly(r) ==
    /\ pc[r] = "prepare"
    /\ remover' = IF Exclusive THEN Unloaded(remover) ELSE remover
    /\ Proceed(r, "pipeline")
    /\ UNCHANGED <<storeVars, cache, loader, need, inpainter, out>>

Prepare(r) ==
    /\ pc[r] = "prepare"
    /\ IF Exclusive
       THEN inpainter' = Unloaded(inpainter) /\ remover' = Unloaded(remover)
       ELSE UNCHANGED <<inpainter, remover>>
    /\ Proceed(r, "pipeline")
    /\ UNCHANGED <<storeVars, cache, loader, need, out>>

\* get_pipeline: a cached pipeline is tested and then read again, without the
\* lock of the manager; what is read may be None.
FindCached(r) ==
    /\ pc[r] = "pipeline" /\ cache # None
    /\ To(r, "reuse")
    /\ UNCHANGED <<storeVars, cache, loader, need, held, remover, inpainter, out>>

Reuse(r) ==
    /\ pc[r] = "reuse"
    /\ IF cache = None THEN End(r, "failed")
       ELSE /\ To(r, "sampling")
            /\ using' = [using EXCEPT ![r] = cache]
            /\ UNCHANGED <<cancel, lock>>
    /\ UNCHANGED <<storeVars, cache, loader, need, remover, inpainter, out>>

\* The source of the weights is resolved when the load begins; a managed
\* directory loads only if all of it is there.
BeginLoad(r) ==
    /\ pc[r] = "pipeline" /\ cache = None /\ loader = None
    /\ IF Usable(Chosen) /\ tree[Chosen] # Parts
       THEN End(r, "failed") /\ UNCHANGED loader
       ELSE /\ loader' = r
            /\ using' = [using EXCEPT ![r] = Chosen]
            /\ To(r, "loading") /\ UNCHANGED <<cancel, lock>>
    /\ UNCHANGED <<storeVars, cache, need, remover, inpainter, out>>

EndLoad(r) ==
    /\ pc[r] = "loading"
    /\ loader' = None
    /\ \/ /\ cache' = using[r]
          /\ To(r, "sampling") /\ Stay
       \/ UNCHANGED cache /\ End(r, "failed")
    /\ UNCHANGED <<storeVars, need, remover, inpainter, out>>

Sample(r) ==
    /\ pc[r] = "sampling"
    /\ \/ /\ ~cancel[r]
          /\ To(r, "handover")
          /\ using' = [using EXCEPT ![r] = None]
          /\ UNCHANGED <<cancel, lock>>
       \/ End(r, IF cancel[r] THEN "cancelled" ELSE "failed")
    /\ UNCHANGED <<storeVars, cache, loader, need, remover, inpainter, out>>

AfterCutout(r) == IF "repair" \in need[r] THEN "repair" ELSE "finish"

HandOver(r) ==
    /\ pc[r] = "handover" /\ loader = None
    /\ cache' = IF Exclusive /\ need[r] \cap {"cutout", "repair"} # {} THEN None ELSE cache
    /\ To(r, IF "cutout" \in need[r] THEN "cutout" ELSE AfterCutout(r))
    /\ UNCHANGED <<storeVars, loader, need, held, remover, inpainter, out>>

BeginCutout(r) ==
    /\ pc[r] = "cutout"
    /\ EnsureSession
    /\ IF remover' = "loaded" THEN To(r, "cutting") /\ Stay
       ELSE End(r, "failed")
    /\ UNCHANGED <<storeVars, cache, loader, need, inpainter, out>>

EndCutout(r) ==
    /\ pc[r] = "cutting"
    /\ \/ /\ remover' = IF Exclusive /\ "repair" \in need[r] THEN Unloaded(remover)
                        ELSE remover
          /\ To(r, AfterCutout(r)) /\ Stay
       \/ End(r, "failed") /\ UNCHANGED remover
    /\ UNCHANGED <<storeVars, cache, loader, need, inpainter, out>>

\* DiffusersSeamInpainter._ensure_pipeline: a failed load is tried again, and
\* stays on record when that succeeds.
EnsurePipeline ==
    inpainter' \in CASE inpainter = "unloaded" -> {"loaded", "broken"}
                     [] inpainter = "broken"   -> {"mended", "broken"}
                     [] OTHER                  -> {inpainter}

BeginRepair(r) ==
    /\ pc[r] = "repair"
    /\ EnsurePipeline
    /\ IF inpainter' \in Resident THEN To(r, "repairing") /\ Stay
       ELSE End(r, "failed")
    /\ UNCHANGED <<storeVars, cache, loader, need, remover, out>>

EndRepair(r) ==
    /\ pc[r] = "repairing"
    /\ \/ To(r, "finish") /\ Stay
       \/ End(r, "failed")
    /\ UNCHANGED <<storeVars, cache, loader, need, remover, inpainter, out>>

\* The rest of the processing, palette reduction included, may raise; then what
\* was loaded for it stays loaded.
Finish(r) ==
    /\ pc[r] = "finish"
    /\ \/ /\ IF Exclusive /\ ~cancel[r]
             THEN /\ inpainter' = IF "repair" \in need[r] THEN Unloaded(inpainter)
                                  ELSE inpainter
                  /\ remover' = IF "cutout" \in need[r] THEN Unloaded(remover) ELSE remover
             ELSE UNCHANGED <<inpainter, remover>>
          /\ Proceed(r, "persist")
       \/ End(r, "failed") /\ UNCHANGED <<inpainter, remover>>
    /\ UNCHANGED <<storeVars, cache, loader, need, out>>

-----------------------------------------------------------------------------
(* OutputService.persist: every file is written to a temporary one beside   *)
(* it, which is renamed, or removed when the write fails.                   *)

\* As a mutant: only the steps that run a model count.
KeepsOriginalOfModels(r) == Preserve /\ need[r] \cap {"cutout", "repair"} # {}

\* What the processing returns beside the image: the original, when it is to be
\* preserved and something has changed it.
KeepsOriginal(r) == Preserve /\ need[r] # {}

MakeDirectory(r) ==
    /\ pc[r] = "persist"
    /\ \/ /\ Proceed(r, IF KeepsOriginal(r) THEN "original" ELSE "image")
          /\ out' = IF cancel[r] THEN out ELSE [out EXCEPT ![r] = {"dir"}]
       \/ End(r, "failed") /\ UNCHANGED out
    /\ UNCHANGED <<storeVars, cache, loader, need, remover, inpainter>>

Write(r, file, tmp, next) ==
    /\ pc[r] = file
    /\ \/ /\ tmp \notin out[r]
          /\ out' = [out EXCEPT ![r] = @ \cup {tmp}]
          /\ UNCHANGED pc /\ Stay
       \/ /\ tmp \in out[r]
          /\ out' = [out EXCEPT ![r] = (@ \ {tmp}) \cup {file}]
          /\ IF next = "completed" THEN End(r, next)
             ELSE To(r, next) /\ Stay
       \/ /\ out' = [out EXCEPT ![r] = @ \ {tmp}]
          /\ End(r, "failed")
    /\ UNCHANGED <<storeVars, cache, loader, need, remover, inpainter>>

\* As a mutant: the manifest follows the original.
ManifestFirst(r) == Write(r, "original", "tmp.png", "manifest")

WriteOriginal(r) == Write(r, "original", "tmp.png", "image")
WriteImage(r)    == Write(r, "image", "tmp.png", "manifest")
WriteManifest(r) == Write(r, "manifest", "tmp.json", "completed")

\* _find_metadata_path: the manifest, else the only JSON file there is.
Metadata(r) ==
    IF "dir" \notin out[r] THEN {}
    ELSE IF "manifest" \in out[r] THEN {"manifest"} ELSE out[r] \cap {"tmp.json"}

\* _resolve_final_image: what the manifest names; when that cannot be read or is
\* not there, a PNG that is not the original.
Served(r) ==
    IF Metadata(r) = {} THEN {}
    ELSE IF "manifest" \in out[r] /\ "image" \in out[r] THEN {"image"}
    ELSE out[r] \cap {"image", "tmp.png"}

-----------------------------------------------------------------------------

Models_API ==
    StoreStep(JobsActive) /\ UNCHANGED runVars

Crash ==
    /\ Spend
    /\ StoreRestart
    /\ pc' = [r \in Requests |-> IF pc[r] \in Ended \cup {"new"} THEN pc[r] ELSE "lost"]
    /\ lock' = None
    /\ using' = [r \in Requests |-> None]
    /\ remover' = "unloaded" /\ inpainter' = "unloaded"
    /\ cancel' = [r \in Requests |-> FALSE]
    /\ UNCHANGED <<need, out>>

Run(r) ==
    \/ Accept(r) \/ Execute(r) \/ Validated(r) \/ Acquire(r) \/ Prepare(r)
    \/ FindCached(r) \/ Reuse(r) \/ BeginLoad(r) \/ EndLoad(r) \/ Sample(r)
    \/ HandOver(r) \/ BeginCutout(r) \/ EndCutout(r) \/ BeginRepair(r) \/ EndRepair(r)
    \/ Finish(r) \/ MakeDirectory(r) \/ WriteOriginal(r) \/ WriteImage(r)
    \/ WriteManifest(r)

Next ==
    \/ \E r \in Requests : Submit(r) \/ Cancel(r) \/ Run(r)
    \/ Models_API
    \/ Crash

Spec == Init /\ [][Next]_vars

-----------------------------------------------------------------------------
(* Properties. *)

\* With exclusive VRAM two diffusion pipelines are never resident together:
\* neither cached, nor being loaded, nor in the hands of a thread, whatever was
\* cancelled, failed or activated before.
OneDiffusionPipeline ==
    Exclusive /\ inpainter \in Resident =>
        cache = None /\ loader = None /\ \A r \in Requests : using[r] = None

\* Once an activation was answered and no operation on models is under way, no
\* pipeline but that of the activated model is cached, not even one whose load
\* began before the activation, provided the registry and the settings name the
\* same model: two activations that overlap may leave them naming two.
ActivationTakesEffect ==
    answered # None /\ active = setting /\ (\A a \in Admins : op[a] = NoOp) =>
        cache \in {None, setting}

\* A usable model has every file it came with and a record of each, but for the
\* ways of losing some that are named here: a deletion at work on it, one that
\* ended half way with its record in place, and one that overlapped a revalidation
\* or another deletion of it (and may be undone by the record written last).  A
\* model whose staging area was emptied under its install, or whose metadata listed
\* no files, may lack some, but what is recorded is there and it has the structure
\* a load begins with.
UsableIsWhole ==
    \A m \in Models :
        Usable(m) /\ m \notin Deleting \cup cut \cup raced =>
            /\ home[m] /\ Structured(tree[m]) /\ record[m].files \subseteq tree[m]
            /\ m \notin untold => tree[m] = Parts

\* Whatever was written when the process died or the disk failed, a generation
\* that resolves has its final image, and that image, never the original nor a
\* temporary file, is what is served for it.
ServedIsWhole ==
    \A r \in Requests : Metadata(r) # {} => "image" \in out[r] /\ Served(r) = {"image"}

\* A completed generation has every file its manifest names and no other, the
\* original when it is preserved and any step, palette reduction alone included,
\* changed the image; one
\* that was cancelled left nothing on disk; only a crash leaves temporary files.
OutcomeIsHonest ==
    \A r \in Requests :
        /\ pc[r] = "completed" =>
             out[r] = {"dir", "image", "manifest"} \cup
                      (IF Preserve /\ need[r] # {} THEN {"original"} ELSE {})
        /\ pc[r] \in {"cancelled", "refused"} => out[r] = {}
        /\ pc[r] = "failed" => out[r] \cap {"manifest", "tmp.png", "tmp.json"} = {}

\* What a thread may have to wait for: the generation lock, and the lock of the
\* model manager.
Busy(r) == pc[r] \notin Ended \cup {"new"}

Waits(r) ==
    \/ pc[r] = "waiting" /\ lock # None
    \/ pc[r] = "pipeline" /\ cache = None /\ loader # None
    \/ pc[r] = "handover" /\ loader # None

OpWaits(a) == op[a].step \in {"release", "unload"} /\ loader # None

\* Nothing but these locks stops a thread.
OnlyLocksBlock ==
    /\ \A r \in Requests : Busy(r) /\ ~Waits(r) => ENABLED Run(r)
    /\ \A a \in Admins :
         op[a] # NoOp /\ ~OpWaits(a) => ENABLED (OpStep(a) /\ UNCHANGED runVars)

\* No failure, cancellation or operation leaves the generation lock, or that of
\* the model manager, with a thread that is gone, and the two locks never wait
\* for each other.
SomeoneIsFree ==
    /\ (\E r \in Requests : Busy(r)) => \E r \in Requests : Busy(r) /\ ~Waits(r)
    /\ (\E a \in Admins : op[a] # NoOp) =>
         \/ \E a \in Admins : op[a] # NoOp /\ ~OpWaits(a)
         \/ \E r \in Requests : Busy(r) /\ ~Waits(r)

\* While a request or an operation on models is under way some thread can move.
SomeoneCanMove == OnlyLocksBlock /\ SomeoneIsFree

=============================================================================
