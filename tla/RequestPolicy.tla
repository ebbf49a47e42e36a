---------------------------- MODULE RequestPolicy ----------------------------
(***************************************************************************)
(* What makes a generation request acceptable, decided three times: by the *)
(* editor against the capability document it has cached, by the HTTP schema *)
(* and GenerationService when the job is submitted, and by the service once *)
(* more when the job is executed.  The server may change in between: a      *)
(* model is activated, the seam inpainter breaks or is mended, the session  *)
(* of background removal is dropped or does not load again, or the server   *)
(* is restarted with other settings.                                        *)
(*                                                                          *)
(* A fraction is counted in hundredths.  A text is its length in UTF-16     *)
(* units (what C# counts) and in code points (what Python counts); zero is  *)
(* a blank one.  An image is its size, its bytes and its largest luminance. *)
(* The text of a choice is kept as it is sent: the service strips it and    *)
(* puts it in lower case, the schema and the editor take it as it is.       *)
(* A request that is refused for several reasons is told of the first only: *)
(* here it is the set of them that counts.                                  *)
(***************************************************************************)
EXTENDS Integers, FiniteSets

CONSTANTS
    Environments, \* what the server may be started in
    Settings,   \* Settings[e]: the settings, extras and version of e
    Families,   \* what the families of the models can do: sets of operations
    Manifests,  \* the operations the manifest of a model names; {} for none
    Drafts,     \* requests drawn up in the editor
    Posts,      \* requests other clients of the API send
    Strip,      \* Strip[t]: the text t without the blanks around it
    Lower,      \* Lower[t]: the text t in lower case
    Hints,      \* the texts that are well-formed atlas hints
    None,
    MaxChanges  \* bound: changes of the server in one behaviour

Operations == {"text_to_image", "image_to_image", "inpainting"}
AssetTypes == {"texture", "sprite", "icon"}
SpriteTypes == {"sprite", "icon"}
PivotModes == {"center", "bottom_center", "custom"}
Strategies == {"none", "background_removal"}
One == 100
Fraction == [min |-> 0, max |-> One]
SeamSize == 512
BlendWidth == [min |-> 8, max |-> 128]
PaletteSize == [min |-> 2, max |-> 256, default |-> 16]
EditorMaskThreshold == 8
EmptyMaskThreshold == 1

Within(v, range) == range.min <= v /\ v <= range.max
Or(v, default) == IF v = None THEN default ELSE v

\* The empty text counts as none given.
Given(text, default) == IF text \in {None, ""} THEN default ELSE text

Normal(text) == Lower[Strip[text]]

Images == [width : Int, height : Int, bytes : Int, luminance : Int]

\* The fields of a request.
Fields ==
    {"operation", "source", "mask", "strength", "prompt", "negative", "name", "plain",
     "padded", "width", "height", "steps", "guidance", "seed", "provenance", "asset_type",
     "strategy", "repair", "alpha", "feather", "ppu", "pivot", "pivot_x", "pivot_y",
     "atlas", "blend", "palette"}

\* What validate_policy_settings lets the service start with.
ValidPolicy(p) ==
    /\ \A side \in {p.width, p.height} :
         /\ side.multiple > 0 /\ side.min <= side.max
         /\ side.min % side.multiple = 0 /\ side.max % side.multiple = 0
    /\ \A range \in {p.steps, p.guidance, p.strength} :
         range.min <= range.max /\ Within(range.default, range)
    /\ 0 <= p.seed.min /\ p.seed.min <= p.seed.max
    /\ 0 <= p.strength.min /\ p.strength.max <= One
    /\ p.prompt >= 1 /\ p.negative >= 0 /\ p.name >= 1
    /\ p.source_bytes >= 1 /\ p.mask_bytes >= 1

\* What the fields of Settings accept one by one: neither the order of these
\* bounds nor whether a default lies within them is looked at.
ValidProcessing(p) ==
    /\ \A v \in {p.alpha.min, p.alpha.max, p.alpha.default} : v \in 0..255
    /\ \A v \in {p.feather.min, p.feather.max, p.feather.default} : v \in 0..64
    /\ p.ppu > 0 /\ Within(p.blend, BlendWidth)

\* Background removal may be absent (disabled, or its package not installed),
\* ready, or importable with weights that do not load; the seam inpainter is
\* enabled or not; the API and schema versions are the editor's or newer.
Extras(p) ==
    /\ p.removal \in {"absent", "ready", "broken"}
    /\ p.seams \in BOOLEAN
    /\ p.version \in {"supported", "newer"}

ASSUME SettingsAreValid ==
    \A e \in Environments :
        ValidPolicy(Settings[e]) /\ ValidProcessing(Settings[e]) /\ Extras(Settings[e])
ASSUME FamiliesAreOperations ==
    \A family \in Families : "text_to_image" \in family /\ family \subseteq Operations
ASSUME ManifestsAreOperations == Manifests \subseteq SUBSET Operations
ASSUME TextsAreReal ==
    \A d \in Drafts : \A text \in {d.prompt, d.negative, d.name} :
        /\ {text.points, text.units} \subseteq Nat /\ text.units >= text.points
        /\ text.points = 0 => text.units = 0
ASSUME NumbersAreNumbers ==
    \A e \in Environments :
        LET p == Settings[e] IN
        /\ {p.width.multiple, p.height.multiple, p.prompt, p.negative, p.name} \subseteq Int
        /\ {p.strength.min, p.strength.max, p.strength.default} \subseteq Int
ASSUME DraftsAreRequests ==
    \A d \in Drafts :
        /\ {d.width, d.height, d.strength, d.ppu, d.pivot_x, d.pivot_y,
            d.alpha, d.feather, d.blend, d.palette} \subseteq Int
        /\ d.seed \in Int \cup {None} /\ d.pivot # None
        /\ {d.source, d.mask} \subseteq Images \cup {None}
ASSUME PostsAreRequests ==
    \A w \in Posts :
        /\ DOMAIN w = Fields
        /\ {w.strength, w.seed, w.alpha, w.feather, w.ppu, w.pivot_x, w.pivot_y,
            w.blend, w.palette} \subseteq Int \cup {None}
ASSUME NamesAreNormal ==
    /\ \A name \in Operations \cup Strategies \cup PivotModes :
         Strip[name] = name /\ Lower[name] = name
    /\ \A hint \in Hints \cup {""} : Strip[hint] = hint
ASSUME NoneIsNoValue ==
    None \notin Int \cup PivotModes \cup Images \cup Operations \cup Strategies
ASSUME MaxChangesIsNat == MaxChanges \in Nat

VARIABLES
    server,     \* the running backend: settings, active model, extras
    changes,    \* how many changes of it the bound still allows
    cache,      \* CapabilityCache.Shared: state and document
    fetch,      \* fetch[w]: the capability request of window w
    stage,      \* of the generation under way
    draft,      \* the editor's request, None when an API client posted
    against,    \* the document the draft was checked against
    wire,       \* the request as sent
    accepted,   \* the server as it was when it accepted the request
    seed        \* the seed submission resolved

vars == <<server, changes, cache, fetch, stage, draft, against, wire, accepted, seed>>
editorVars == <<cache, fetch>>
requestVars == <<stage, draft, against, wire, accepted, seed>>

Windows == {"generator", "batch"}
Stages == {"idle", "ensuring", "blocked", "sent", "refused", "queued", "failed", "done"}
Resting == {"idle", "blocked", "refused", "failed", "done"}
CacheStates == {"Unknown", "Loading", "Ready", "Stale", "Unavailable", "Incompatible"}
Servers == [env : Environments, family : Families, manifest : Manifests,
            broken : BOOLEAN, remover : {"sound", "dropped", "lost"}]

-----------------------------------------------------------------------------
(* The capability document. *)

Policy(s) == Settings[s.env]

\* The manifest of the active model restricts what its family can do.
Advertised(s) == IF s.manifest = {} THEN s.family ELSE s.family \cap s.manifest

\* A seam inpainter that failed to load is unavailable until it has loaded.
SeamsAvailable(s) == Policy(s).seams /\ ~s.broken

\* Background removal is advertised when its package can be imported: the
\* weights are not loaded for a capability probe.
RemovalAdvertised(s) == Policy(s).removal # "absent"

\* The service asks for the session itself: it loads unless that has failed
\* before, and may be dropped again before it is looked at.
Removes(s) == Policy(s).removal = "ready" /\ s.remover = "sound"

\* The defaults that go with the bounds are read by no client and left out.
Bounds(range) == [min |-> range.min, max |-> range.max]

Dimensions(p) == [width |-> p.width, height |-> p.height]

Processing(s) == [removal |-> RemovalAdvertised(s), seams |-> SeamsAvailable(s)]

TextToImage(s) ==
    LET p == Policy(s) IN
    [supported |-> "text_to_image" \in Advertised(s),
     asset_types |-> AssetTypes, dimensions |-> Dimensions(p),
     steps |-> Bounds(p.steps), guidance |-> Bounds(p.guidance), seed |-> p.seed,
     prompt |-> p.prompt, negative |-> p.negative, name |-> p.name,
     processing |-> Processing(s)]

SourceImage(p) == [bytes |-> p.source_bytes, dimensions |-> Dimensions(p)]
MaskImage(p)   == [bytes |-> p.mask_bytes, dimensions |-> Dimensions(p)]

ImageToImage(s) ==
    LET p == Policy(s) IN
    [supported |-> "image_to_image" \in Advertised(s),
     strength |-> Bounds(p.strength), source |-> SourceImage(p)]

Inpainting(s) ==
    LET p == Policy(s) IN
    [supported |-> "inpainting" \in Advertised(s),
     strength |-> Bounds(p.strength), source |-> SourceImage(p), mask |-> MaskImage(p)]

Document(s) ==
    [text_to_image |-> TextToImage(s), image_to_image |-> ImageToImage(s),
     inpainting |-> Inpainting(s), version |-> Policy(s).version]

Documents == {Document(s) : s \in Servers}

ASSUME NoneIsNoDocument == None \notin Documents

-----------------------------------------------------------------------------
(* What the service refuses.  Each operator is a check of generate_texture   *)
(* for a request w on a server of policy p.                                 *)

BadPrompt(w, p)   == w.prompt = 0 \/ w.prompt > p.prompt
BadNegative(w, p) == w.negative > p.negative
BadSteps(w, p)    == ~Within(w.steps, p.steps)
BadGuidance(w, p) == ~Within(w.guidance, p.guidance)
BadSeed(w, p)     == w.seed # None /\ ~Within(w.seed, p.seed)
BadName(w, p)     == w.name = 0 \/ w.name > p.name

BadSide(v, side) == ~Within(v, side) \/ v % side.multiple # 0

BadImage(image, bytes, p) ==
    \/ image.bytes > bytes
    \/ BadSide(image.width, p.width) \/ BadSide(image.height, p.height)

\* What the service reads in the texts of a request.
Requested(w) == Normal(Given(w.operation, "text_to_image"))
Strategy(w)  == Normal(Given(w.strategy, "none"))
Pivot(w, p)  == Normal(Given(w.pivot, p.pivot))

\* Text-to-image is executed whatever the family says.
Supports(s, operation) == operation = "text_to_image" \/ operation \in s.family

BadSource(w, p) ==
    IF Requested(w) = "text_to_image" THEN w.source # None
    ELSE w.source = None \/ BadImage(w.source, p.source_bytes, p)

SizesDiffer(source, mask) ==
    <<source.width, source.height>> # <<mask.width, mask.height>>

BlackMask(mask) == mask.luminance < EmptyMaskThreshold

BadMask(w, p) ==
    IF Requested(w) # "inpainting" THEN w.mask # None
    ELSE \/ w.mask = None
         \/ BadImage(w.mask, p.mask_bytes, p)
         \/ BlackMask(w.mask)
         \/ w.source # None /\ SizesDiffer(w.source, w.mask)

BadFormat(w, p) == ~p.png /\ (w.source # None \/ w.mask # None)

WeakOrStrong(v, p) == ~Within(Or(v, p.strength.default), p.strength)

BadStrength(w, p) ==
    IF Requested(w) = "text_to_image" THEN w.strength # None
    ELSE WeakOrStrong(w.strength, p)

BadProvenance(w) == ~w.provenance
BadAssetType(w)  == w.asset_type \notin AssetTypes
BadStrategy(w) ==
    \/ Strategy(w) \notin Strategies
    \/ w.asset_type = "texture" /\ Strategy(w) # "none"

BadRemoval(w, s) == Strategy(w) = "background_removal" /\ ~Removes(s)

BadThreshold(w, p) == ~Within(Or(w.alpha, p.alpha.default), p.alpha)
BadFeather(w, p)   == ~Within(Or(w.feather, p.feather.default), p.feather)

Sprite(w) == w.asset_type \in SpriteTypes

BadPixels(w, p) == Sprite(w) /\ Or(w.ppu, p.ppu) <= 0

BadPivot(w, p) ==
    /\ Sprite(w)
    /\ \/ Pivot(w, p) \notin PivotModes
       \/ /\ Pivot(w, p) = "custom"
          /\ \E c \in {w.pivot_x, w.pivot_y} : c = None \/ ~Within(c, Fraction)

BadAtlas(w) ==
    Sprite(w) /\ w.atlas # None /\ Strip[w.atlas] \notin Hints \cup {""}

BadBlend(w, p)   == ~Within(Or(w.blend, p.blend), BlendWidth)
BadPalette(w)    == ~Within(Or(w.palette, PaletteSize.default), PaletteSize)
BadSeamSize(w)   == w.repair /\ (w.width # SeamSize \/ w.height # SeamSize)
BadSeams(w, s)   == w.repair /\ ~SeamsAvailable(s)
BadNameFormat(w) == ~w.plain

Fails(w, s) ==
    LET p == Policy(s) IN
    [prompt |-> BadPrompt(w, p), negative_prompt |-> BadNegative(w, p),
     width |-> BadSide(w.width, p.width), height |-> BadSide(w.height, p.height),
     steps |-> BadSteps(w, p), guidance_scale |-> BadGuidance(w, p),
     seed |-> BadSeed(w, p), output_name |-> BadName(w, p),
     operation |-> ~Supports(s, Requested(w)),
     source_image |-> BadSource(w, p), mask_image |-> BadMask(w, p),
     image_format |-> BadFormat(w, p), denoising_strength |-> BadStrength(w, p),
     provenance |-> BadProvenance(w), asset_type |-> BadAssetType(w),
     transparency_strategy |-> BadStrategy(w), background_removal |-> BadRemoval(w, s),
     alpha_threshold |-> BadThreshold(w, p), alpha_feather |-> BadFeather(w, p),
     pixels_per_unit |-> BadPixels(w, p), pivot_mode |-> BadPivot(w, p),
     atlas_hint |-> BadAtlas(w), seam_blend_width |-> BadBlend(w, p),
     palette_color_count |-> BadPalette(w), seam_size |-> BadSeamSize(w),
     seam_inpaint |-> BadSeams(w, s), name_format |-> BadNameFormat(w)]

Failing(record) == {check \in DOMAIN record : record[check]}

Refused(w, s) == Failing(Fails(w, s))

\* As a mutant: another bound than the service's.
SchemaPaletteHalved == [min |-> 2, max |-> 128]

\* The schema has its own copies of the service's bounds.
SchemaBlend == [min |-> 8, max |-> 128]
SchemaPalette == [min |-> 2, max |-> 256]
SchemaFraction == [min |-> 0, max |-> One]

\* What TextureGenerationRequest refuses before the service sees the request.
\* Its validator compares the fields with one another only when each of them is
\* accepted by itself: it never sees an operation that is none.
SchemaFails(w) ==
    LET Validated == w.operation \in Operations IN
    [operation |-> w.operation \notin Operations,
     transparency_strategy |-> w.strategy \notin Strategies,
     prompt |-> w.prompt = 0,
     output_name |-> w.name = 0 /\ ~w.padded,
     provenance |-> ~w.provenance,
     asset_type |-> w.asset_type \notin AssetTypes,
     alpha_threshold |-> w.alpha # None /\ w.alpha \notin 0..255,
     alpha_feather |-> w.feather # None /\ w.feather \notin 0..64,
     pixels_per_unit |-> w.ppu # None /\ w.ppu <= 0,
     pivot_mode |-> \/ w.pivot # None /\ w.pivot \notin PivotModes
                    \/ \E c \in {w.pivot_x, w.pivot_y} :
                         IF c = None THEN w.pivot = "custom"
                         ELSE ~Within(c, SchemaFraction),
     atlas_hint |-> w.atlas \notin Hints \cup {None, ""},
     seam_blend_width |-> w.blend # None /\ ~Within(w.blend, SchemaBlend),
     palette_color_count |-> w.palette # None /\ ~Within(w.palette, SchemaPalette),
     denoising_strength |-> /\ w.strength # None
                            /\ \/ w.operation = "text_to_image"
                               \/ ~Within(w.strength, SchemaFraction),
     source_image |-> Validated /\ (w.source = None) # (w.operation = "text_to_image"),
     mask_image |-> Validated /\ (w.mask = None) = (w.operation = "inpainting")]

Rejected(w) == Failing(SchemaFails(w))

-----------------------------------------------------------------------------
(* What the editor refuses: GenerationProfileResolver.Resolve with the      *)
(* compatibility checker, then GenerationCapabilityValidator.Validate.      *)

Operation(d) ==
    IF d.inpaint THEN "inpainting"
    ELSE IF d.img2img THEN "image_to_image" ELSE "text_to_image"

\* As a mutant: the multiple is forgotten.
OddSideRangeOnly(v, side) == ~Within(v, side)

\* A multiple of one or less constrains nothing here.
OddSide(v, side) ==
    ~Within(v, side) \/ (side.multiple > 1 /\ v % side.multiple # 0)

\* As a mutant: the largest size allowed is refused.
OddImageAtLimit(image, limits) ==
    \/ image = None
    \/ image.bytes >= limits.bytes
    \/ OddSide(image.width, limits.dimensions.width)
    \/ OddSide(image.height, limits.dimensions.height)

OddImage(image, limits) ==
    \/ image = None
    \/ image.bytes > limits.bytes
    \/ OddSide(image.width, limits.dimensions.width)
    \/ OddSide(image.height, limits.dimensions.height)

\* Only masked regeneration looks at the mask; its threshold is the editor's.
OddMask(d, limits) ==
    /\ d.inpaint
    /\ \/ OddImage(d.mask, limits)
       \/ d.mask.luminance < EditorMaskThreshold
       \/ d.source # None /\ SizesDiffer(d.source, d.mask)

OddPivot(d) ==
    \/ d.pivot \notin PivotModes
    \/ /\ d.pivot = "custom"
       /\ \E c \in {d.pivot_x, d.pivot_y} : ~Within(c, Fraction)

Section(d, doc) ==
    IF d.inpaint THEN doc.inpainting
    ELSE IF d.img2img THEN doc.image_to_image ELSE doc.text_to_image

Masked(d) == d.inpaint \/ d.img2img

\* The resolver asks for text-to-image whatever the operation is, and the limits
\* that all operations share are those of its section.
Finds(d, doc) ==
    LET section == Section(d, doc)
        common  == doc.text_to_image
    IN
    [profile |-> ~common.supported,
     operation |-> ~section.supported \/ (d.inpaint /\ d.img2img),
     source_image |-> Masked(d) /\ OddImage(d.source, section.source),
     mask_image |-> OddMask(d, doc.inpainting.mask),
     denoising_strength |-> Masked(d) /\ ~Within(d.strength, section.strength),
     asset_type |-> d.asset_type \notin common.asset_types,
     background_removal |-> d.cutout /\ ~common.processing.removal,
     seam_size |-> BadSeamSize(d),
     seam_inpaint |-> d.repair /\ ~common.processing.seams,
     pixels_per_unit |-> Sprite(d) /\ d.ppu <= 0,
     pivot_mode |-> Sprite(d) /\ OddPivot(d),
     width |-> OddSide(d.width, common.dimensions.width),
     height |-> OddSide(d.height, common.dimensions.height),
     steps |-> ~Within(d.steps, common.steps),
     guidance_scale |-> ~Within(d.guidance, common.guidance),
     seed |-> d.seed # None /\ ~Within(d.seed, common.seed),
     prompt |-> d.prompt.units = 0 \/ d.prompt.units > common.prompt,
     negative_prompt |-> d.negative.units > common.negative,
     output_name |-> d.name.units = 0 \/ d.name.units > common.name]

Issues(d, doc) == Failing(Finds(d, doc))

\* GenerationRequestFactory.FromResolved: what is sent for a draft.
Wire(d) ==
    LET Only(v) == IF Sprite(d) THEN v ELSE None IN
    [operation |-> Operation(d),
     source |-> IF Masked(d) THEN d.source ELSE None,
     mask |-> IF d.inpaint THEN d.mask ELSE None,
     strength |-> IF Masked(d) THEN d.strength ELSE None,
     prompt |-> d.prompt.points, negative |-> d.negative.points,
     name |-> d.name.points, plain |-> d.plain, padded |-> FALSE,
     width |-> d.width, height |-> d.height,
     steps |-> d.steps, guidance |-> d.guidance, seed |-> d.seed,
     provenance |-> d.provenance, asset_type |-> d.asset_type,
     strategy |-> IF d.cutout THEN "background_removal" ELSE "none", repair |-> d.repair,
     alpha |-> Only(d.alpha), feather |-> Only(d.feather), ppu |-> Only(d.ppu),
     pivot |-> Only(d.pivot), pivot_x |-> Only(d.pivot_x), pivot_y |-> Only(d.pivot_y),
     atlas |-> Only(d.atlas), blend |-> d.blend, palette |-> d.palette]

Wires == {Wire(d) : d \in Drafts} \cup Posts

ASSUME NoneIsNoRequest == None \notin Servers \cup Drafts \cup Wires

-----------------------------------------------------------------------------
(* The capability cache, shared by the windows of one editor session. *)

SetLoading == cache' = [cache EXCEPT !.state = "Loading"]

SetReady(doc) ==
    cache' = [state |-> IF doc.version = "supported" THEN "Ready" ELSE "Incompatible",
              doc |-> doc]

\* As a mutant: a refresh that fails over a document leaves the state alone.
SetUnavailableOnlyEmpty ==
    cache' = [cache EXCEPT !.state = IF @ = "Loading" /\ cache.doc # None THEN @
                                     ELSE "Unavailable"]

\* Whatever the state was, a document that is held becomes Stale.
SetUnavailable ==
    cache' = [cache EXCEPT !.state = IF cache.doc # None THEN "Stale" ELSE "Unavailable"]

Quiet == [at |-> "none", doc |-> None]
Fetching(w) == fetch[w].at # "none"

Asks(w) == fetch' = [fetch EXCEPT ![w] = [at |-> "asked", doc |-> None]]

\* The controllers are busy while they fetch, and this one while it generates.
Busy(w) ==
    \/ Fetching(w)
    \/ w = "generator" /\ draft # None /\ stage \in {"sent", "queued"}
    \/ w = "generator" /\ stage = "ensuring"

\* RefreshCapabilitiesAsync.
Refresh(w) ==
    /\ ~Busy(w)
    /\ SetLoading
    /\ Asks(w)
    /\ UNCHANGED <<server, changes, requestVars>>

\* The batch window fetches what is not known without saying it is loading.
EnsureBatch ==
    /\ ~Busy("batch") /\ cache.state = "Unknown"
    /\ Asks("batch")
    /\ UNCHANGED <<server, changes, cache, requestVars>>

\* GET /api/v1/capabilities: the document is that of the server by then.
GetCapabilities(w) ==
    /\ fetch[w].at = "asked"
    /\ fetch' = [fetch EXCEPT ![w] = [at |-> "answered", doc |-> Document(server)]]
    /\ UNCHANGED <<server, changes, cache, requestVars>>

Receive(w) ==
    /\ fetch[w].at = "answered"
    /\ SetReady(fetch[w].doc)
    /\ fetch' = [fetch EXCEPT ![w] = Quiet]
    /\ UNCHANGED <<server, changes, requestVars>>

\* No connection, a timeout, an error, or the user's cancellation of the wait.
Lose(w) ==
    /\ Fetching(w)
    /\ SetUnavailable
    /\ fetch' = [fetch EXCEPT ![w] = Quiet]
    /\ UNCHANGED <<server, changes, requestVars>>

-----------------------------------------------------------------------------
(* One generation, from the Generate button or from another API client. *)

\* EnsureUsableCapabilitiesAsync fetches only what was never fetched.
Generate ==
    /\ stage \in Resting /\ ~Busy("generator")
    /\ stage' = "ensuring"
    /\ IF cache.state = "Unknown" THEN SetLoading /\ Asks("generator")
                                  ELSE UNCHANGED editorVars
    /\ draft' = None /\ against' = None /\ wire' = None
    /\ UNCHANGED <<server, changes, accepted, seed>>

Unusable == cache.state \in {"Unavailable", "Incompatible"} \/ cache.doc = None

Check(d) ==
    /\ stage = "ensuring" /\ ~Fetching("generator") /\ ~Unusable
    /\ draft' = d /\ against' = cache.doc
    /\ IF Issues(d, cache.doc) = {}
         THEN stage' = "sent" /\ wire' = Wire(d)
         ELSE stage' = "blocked" /\ UNCHANGED wire
    /\ UNCHANGED <<server, changes, editorVars, accepted, seed>>

GiveUp ==
    /\ stage = "ensuring" /\ ~Fetching("generator") /\ Unusable
    /\ stage' = "idle"
    /\ UNCHANGED <<server, changes, editorVars, draft, against, wire, accepted, seed>>

Post(w) ==
    /\ stage \in Resting
    /\ stage' = "sent" /\ wire' = w
    /\ draft' = None /\ against' = None
    /\ UNCHANGED <<server, changes, editorVars, accepted, seed>>

\* As a mutant: the span counts one seed too many.
SeedsSpanOff(w, p) == IF w.seed = None THEN p.seed.min .. p.seed.max + 1 ELSE {w.seed}

\* The seed of a request that names none is drawn by its validation.
Seeds(w, p) == IF w.seed = None THEN p.seed.min .. p.seed.max ELSE {w.seed}

\* As a mutant: what was accepted is not forgotten.
CloseKeepsAccepted(outcome) ==
    /\ stage' = outcome
    /\ draft' = None /\ against' = None /\ wire' = None
    /\ UNCHANGED <<accepted, seed>>

Close(outcome) ==
    /\ stage' = outcome
    /\ draft' = None /\ against' = None /\ wire' = None
    /\ accepted' = None /\ seed' = None

\* POST /api/v1/jobs: the schema, then JobService.submit validates.
Submit ==
    /\ stage = "sent"
    /\ IF Rejected(wire) \cup Refused(wire, server) = {}
         THEN /\ stage' = "queued" /\ accepted' = server
              /\ \E drawn \in Seeds(wire, Policy(server)) : seed' = drawn
              /\ UNCHANGED <<draft, against, wire>>
         ELSE Close("refused")
    /\ UNCHANGED <<server, changes, editorVars>>

\* The stored request, with the seed that was resolved.
Stored == [wire EXCEPT !.seed = seed]

\* generate_texture validates again before it waits for the lock.
Execute ==
    /\ stage = "queued"
    /\ Close(IF Refused(Stored, server) = {} THEN "done" ELSE "failed")
    /\ UNCHANGED <<server, changes, editorVars>>

-----------------------------------------------------------------------------
(* The server changes. *)

Change(s) ==
    /\ changes > 0 /\ changes' = changes - 1
    /\ server' = s
    /\ UNCHANGED <<editorVars, requestVars>>

Activate ==
    \E family \in Families, manifest \in Manifests :
        Change([server EXCEPT !.family = family, !.manifest = manifest])

\* A generation finds that the inpainting pipeline does not load; one accepted
\* before tries again and finds that it does, until it is dropped once more.
BreakSeams == SeamsAvailable(server) /\ Change([server EXCEPT !.broken = TRUE])
MendSeams  == Policy(server).seams /\ server.broken
                 /\ Change([server EXCEPT !.broken = FALSE])

\* Another generation drops the session of background removal while a check
\* looks for it, the next check loads it again, or it fails to load and is
\* not tried again.
TurnRemover ==
    /\ Policy(server).removal = "ready" /\ server.remover # "lost"
    /\ \E remover \in {"sound", "dropped", "lost"} \ {server.remover} :
         Change([server EXCEPT !.remover = remover])

\* Another environment; the model that was active is persisted.
Restart ==
    \E env \in Environments :
        Change([server EXCEPT !.env = env, !.broken = FALSE, !.remover = "sound"])

\* The editor is started beside a server that may have run for a while.
Init ==
    /\ server \in {s \in Servers : /\ s.broken => Policy(s).seams
                                   /\ s.remover = "sound"}
    /\ changes = MaxChanges
    /\ cache = [state |-> "Unknown", doc |-> None]
    /\ fetch = [w \in Windows |-> Quiet]
    /\ stage = "idle"
    /\ draft = None /\ against = None /\ wire = None
    /\ accepted = None /\ seed = None

Next ==
    \/ \E w \in Windows : Refresh(w) \/ GetCapabilities(w) \/ Receive(w) \/ Lose(w)
    \/ EnsureBatch \/ Generate \/ GiveUp
    \/ \E d \in Drafts : Check(d)
    \/ \E w \in Posts : Post(w)
    \/ Submit \/ Execute
    \/ Activate \/ BreakSeams \/ MendSeams \/ TurnRemover \/ Restart

Spec == Init /\ [][Next]_vars

-----------------------------------------------------------------------------
(* Properties. *)

\* Every variable holds what the code keeps there.
TypeOK ==
    /\ server \in Servers /\ changes \in 0..MaxChanges
    /\ cache \in [state : CacheStates, doc : Documents \cup {None}]
    /\ fetch \in [Windows -> [at : {"none", "asked", "answered"},
                              doc : Documents \cup {None}]]
    /\ stage \in Stages
    /\ draft \in Drafts \cup {None} /\ against \in Documents \cup {None}
    /\ wire \in Wires \cup {None}
    /\ accepted \in Servers \cup {None} /\ seed \in Int \cup {None}
    /\ (stage \in {"sent", "queued"}) = (wire # None)
    /\ (stage = "queued") = (seed # None) /\ (stage = "queued") = (accepted # None)
    /\ (draft = None) = (against = None)

\* What the validator of the editor does not look at.
Unchecked ==
    {"alpha_threshold", "alpha_feather", "seam_blend_width", "palette_color_count",
     "atlas_hint", "transparency_strategy", "name_format", "provenance",
     "image_format", "background_removal"}

\* The coordinates of a pivot that is not custom go out with the others.
IdlePivot(w) == w.pivot # "custom"

\* The editor and the service agree: a draft that passes the editor against the
\* document of the server as it is fails no check that the editor has too, but
\* the schema's range of pivot coordinates nobody asked for.  Background removal
\* fails only where its weights do not load, or are dropped at that moment.
NoSurprise ==
    stage = "sent" /\ draft # None /\ against = Document(server) =>
        LET reasons == Rejected(wire) \cup Refused(wire, server) IN
        /\ reasons \subseteq Unchecked \cup {"pivot_mode"}
        /\ "pivot_mode" \in reasons => IdlePivot(wire)
        /\ "background_removal" \in reasons =>
             Policy(server).removal = "broken" \/ server.remover # "sound"

\* The editor is stricter than the service only in these four ways.
Stricter(d) ==
    \/ Advertised(server) # server.family
    \/ d.inpaint /\ d.img2img
    \/ d.inpaint /\ d.mask # None /\ d.mask.luminance \in EmptyMaskThreshold .. EditorMaskThreshold - 1
    \/ \E text \in {d.prompt, d.negative, d.name} : text.units > text.points

\* A draft the editor blocks against the current document is one the service
\* would refuse as well, but for the manifest's restriction of operations, both
\* modes at once, a nearly black mask, and lengths counted in UTF-16 units.
NoFalseAlarm ==
    stage = "blocked" /\ against = Document(server) =>
        Stricter(draft) \/ Rejected(Wire(draft)) \cup Refused(Wire(draft), server) # {}

\* Execution validates what submission accepted, with the seed drawn then.  In
\* the same environment it finds nothing new but an operation the model activated
\* since does not support, a seam inpainter that broke since, or a session of
\* background removal that was dropped or lost since.
RevalidationAgrees ==
    stage = "queued" /\ server.env = accepted.env =>
        /\ Refused(Stored, server) \subseteq
             {"operation", "seam_inpaint", "background_removal"}
        /\ "operation" \in Refused(Stored, server) => server.family # accepted.family
        /\ "seam_inpaint" \in Refused(Stored, server) =>
             server.broken /\ ~accepted.broken
        /\ "background_removal" \in Refused(Stored, server) =>
             server.remover # "sound" /\ accepted.remover = "sound"

\* What the service ignores in a request.
Ignored(w) ==
    IF w.asset_type = "texture" THEN {"pixels_per_unit", "pivot_mode", "atlas_hint"}
    ELSE IF IdlePivot(w) THEN {"pivot_mode"} ELSE {}

\* The choices whose text the service reads as another one: it fills in for an
\* empty text, strips blanks and ignores case.
Respelt(w, p) ==
    Failing([operation |-> Requested(w) # w.operation,
             transparency_strategy |-> Strategy(w) # w.strategy,
             pivot_mode |-> w.pivot # None /\ Pivot(w, p) # w.pivot,
             atlas_hint |-> w.atlas # None /\ Strip[w.atlas] # w.atlas])

\* The schema refuses nothing the service would accept, except for what the
\* service ignores (the fields of a sprite in the request of a texture, the
\* coordinates of a pivot that is not custom) and for the four choices whose text
\* the service corrects and the schema takes as it is.
SchemaAgrees ==
    stage = "sent" /\ Refused(wire, server) = {} =>
        Rejected(wire) \subseteq Ignored(wire) \cup Respelt(wire, Policy(server))

\* The cache never waits for an answer nobody asked for, never presents as Ready
\* what is not compatible, and never discards a document.
CacheIsHonest ==
    /\ cache.state = "Loading" => \E w \in Windows : Fetching(w)
    /\ cache.state \in {"Unknown", "Unavailable"} => cache.doc = None
    /\ cache.state \in {"Ready", "Stale", "Incompatible"} => cache.doc # None
    /\ cache.state \in {"Ready", "Incompatible"} =>
         (cache.state = "Ready") = (cache.doc.version = "supported")

=============================================================================
