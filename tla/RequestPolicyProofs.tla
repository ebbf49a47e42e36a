------------------------- MODULE RequestPolicyProofs -------------------------
(***************************************************************************)
(* Proofs about RequestPolicy, for any settings the service starts with,   *)
(* any drafts and requests and any changes of the server: the capability   *)
(* cache never says what is not so, the checks of the editor, the schema   *)
(* and the service agree, in both directions, and a job that was accepted  *)
(* is refused later only for what has changed in between.                  *)
(***************************************************************************)
EXTENDS RequestPolicy, TLAPS

-----------------------------------------------------------------------------
(* The capability cache. *)

\* A request that was answered brings a document.
CacheInv ==
    /\ cache \in [state : CacheStates, doc : Documents \cup {None}]
    /\ fetch \in [Windows -> [at : {"none", "asked", "answered"},
                              doc : Documents \cup {None}]]
    /\ server \in Servers
    /\ \A w \in Windows : fetch[w].at = "answered" => fetch[w].doc # None
    /\ CacheIsHonest

ServerChanges == Activate \/ BreakSeams \/ MendSeams \/ TurnRemover \/ Restart

\* A change of the server is a change of nothing else.
LEMMA ServerAlone ==
    ASSUME ServerChanges
    PROVE  UNCHANGED editorVars /\ UNCHANGED requestVars
BY DEF ServerChanges, Activate, BreakSeams, MendSeams, TurnRemover, Restart, Change

LEMMA ServerStep ==
    ASSUME server \in Servers, [Next]_vars
    PROVE  server' \in Servers
<1>1. server.env \in Environments /\ server.family \in Families
      /\ server.manifest \in Manifests /\ server.broken \in BOOLEAN
      /\ server.remover \in {"sound", "dropped", "lost"}
      /\ server = [env |-> server.env, family |-> server.family,
                   manifest |-> server.manifest, broken |-> server.broken,
                   remover |-> server.remover]
    BY DEF Servers
<1>2. CASE Activate
    BY <1>1, <1>2 DEF Activate, Change, Servers
<1>3. CASE BreakSeams \/ MendSeams
    BY <1>1, <1>3 DEF BreakSeams, MendSeams, Change, Servers
<1>4. CASE Restart
    BY <1>1, <1>4 DEF Restart, Change, Servers
<1>5. CASE TurnRemover
    BY <1>1, <1>5 DEF TurnRemover, Change, Servers
<1>6. CASE UNCHANGED server
    BY <1>6
<1> QED BY <1>2, <1>3, <1>4, <1>5, <1>6
        DEF Next, vars, Refresh, GetCapabilities, Receive, Lose, EnsureBatch, Generate,
            GiveUp, Check, Post, Submit, Execute

LEMMA CacheStep ==
    ASSUME CacheInv, [Next]_vars, None \notin Documents
    PROVE  CacheInv'
<1>1. server \in Servers /\ server' \in Servers
    BY ServerStep DEF CacheInv
<1>2. Document(server) \in Documents
    BY <1>1 DEF Documents
<1>3. ASSUME UNCHANGED editorVars PROVE CacheInv'
    BY <1>1, <1>3 DEF CacheInv, CacheIsHonest, editorVars, Fetching
<1>4. CASE UNCHANGED vars
    BY <1>3, <1>4 DEF vars, editorVars
<1>5. ASSUME NEW w \in Windows, SetLoading, Asks(w) PROVE CacheInv'
    <2>1. /\ cache' \in [state : CacheStates, doc : Documents \cup {None}]
          /\ cache'.state = "Loading"
        BY <1>5 DEF CacheInv, SetLoading, CacheStates
    <2>2. /\ fetch' \in [Windows -> [at : {"none", "asked", "answered"},
                                     doc : Documents \cup {None}]]
          /\ fetch'[w].at = "asked"
          /\ \A v \in Windows : fetch'[v].at = "answered" => fetch'[v].doc # None
        BY <1>5 DEF CacheInv, Asks
    <2>3. CacheIsHonest'
        BY <2>1, <2>2 DEF CacheIsHonest, Fetching
    <2> QED BY <1>1, <2>1, <2>2, <2>3 DEF CacheInv
<1>6. ASSUME NEW w \in Windows, Refresh(w) PROVE CacheInv'
    BY <1>5, <1>6 DEF Refresh
<1>7. CASE Generate
    BY <1>3, <1>5, <1>7 DEF Generate, Windows
<1>8. CASE EnsureBatch
    <2>1. /\ fetch' \in [Windows -> [at : {"none", "asked", "answered"},
                                     doc : Documents \cup {None}]]
          /\ \A v \in Windows : fetch'[v].at = "answered" => fetch'[v].doc # None
          /\ \A v \in Windows : fetch[v].at # "none" => fetch'[v].at # "none"
        BY <1>8 DEF EnsureBatch, Asks, CacheInv
    <2>2. cache' = cache
        BY <1>8 DEF EnsureBatch
    <2> QED BY <1>1, <2>1, <2>2 DEF CacheInv, CacheIsHonest, Fetching
<1>9. ASSUME NEW w \in Windows, GetCapabilities(w) PROVE CacheInv'
    <2>1. /\ fetch' \in [Windows -> [at : {"none", "asked", "answered"},
                                     doc : Documents \cup {None}]]
          /\ \A v \in Windows : fetch'[v].at = "answered" => fetch'[v].doc # None
          /\ \A v \in Windows : fetch[v].at # "none" => fetch'[v].at # "none"
        BY <1>2, <1>9 DEF GetCapabilities, CacheInv
    <2>2. cache' = cache
        BY <1>9 DEF GetCapabilities
    <2> QED BY <1>1, <2>1, <2>2 DEF CacheInv, CacheIsHonest, Fetching
<1>10. ASSUME NEW w \in Windows, fetch' = [fetch EXCEPT ![w] = Quiet]
       PROVE  /\ fetch' \in [Windows -> [at : {"none", "asked", "answered"},
                                         doc : Documents \cup {None}]]
              /\ \A v \in Windows : fetch'[v].at = "answered" => fetch'[v].doc # None
    BY <1>10 DEF Quiet, CacheInv
<1>11. ASSUME NEW w \in Windows, Receive(w) PROVE CacheInv'
    <2>1. fetch[w].doc \in Documents
        BY <1>11 DEF Receive, CacheInv
    <2>2. /\ cache' \in [state : CacheStates, doc : Documents \cup {None}]
          /\ cache'.doc # None
          /\ cache'.state = IF cache'.doc.version = "supported" THEN "Ready"
                            ELSE "Incompatible"
        BY <1>11, <2>1 DEF Receive, SetReady, CacheStates, CacheInv
    <2>3. CacheIsHonest'
        BY <2>2 DEF CacheIsHonest
    <2> QED BY <1>1, <1>10, <1>11, <2>2, <2>3 DEF CacheInv, Receive
<1>12. ASSUME NEW w \in Windows, Lose(w) PROVE CacheInv'
    <2>1. /\ cache' \in [state : CacheStates, doc : Documents \cup {None}]
          /\ cache'.doc = cache.doc
          /\ cache'.state = IF cache.doc # None THEN "Stale" ELSE "Unavailable"
        BY <1>12 DEF Lose, SetUnavailable, CacheStates, CacheInv
    <2>2. CacheIsHonest'
        BY <2>1 DEF CacheIsHonest
    <2> QED BY <1>1, <1>10, <1>12, <2>1, <2>2 DEF CacheInv, Lose
<1>13. CASE \/ GiveUp \/ Submit \/ Execute \/ ServerChanges
            \/ \E d \in Drafts : Check(d)
            \/ \E w \in Posts : Post(w)
    BY <1>3, <1>13, ServerAlone DEF GiveUp, Submit, Execute, Check, Post
<1> QED BY <1>4, <1>6, <1>7, <1>8, <1>9, <1>11, <1>12, <1>13 DEF Next, ServerChanges

LEMMA CacheStart == Init => CacheInv
<1> SUFFICES ASSUME Init PROVE CacheInv
    OBVIOUS
<1>1. /\ cache = [state |-> "Unknown", doc |-> None]
      /\ fetch = [w \in Windows |-> Quiet] /\ server \in Servers
    BY DEF Init
<1> QED BY <1>1 DEF CacheInv, CacheIsHonest, CacheStates, Quiet

\* The cache of the editor is honest whatever windows refresh it, whatever
\* answers are lost or come late and however often the server changes: only a
\* refresh that is under way shows as one, what is shown as ready is
\* compatible, and a document is never thrown away.
THEOREM HonestCache == Spec => []CacheIsHonest
<1>1. None \notin Documents
    BY NoneIsNoDocument
<1>2. Init => CacheInv
    BY CacheStart
<1>3. CacheInv /\ [Next]_vars => CacheInv'
    BY <1>1, CacheStep
<1>4. CacheInv => CacheIsHonest
    BY DEF CacheInv
<1> QED BY <1>2, <1>3, <1>4, PTL DEF Spec

-----------------------------------------------------------------------------
(* A request as it is sent. *)

LEMMA WireFields == \A w \in Wires : DOMAIN w = Fields
<1>1. ASSUME NEW d \in Drafts PROVE DOMAIN Wire(d) = Fields
    BY DEF Wire, Fields
<1> QED BY <1>1, PostsAreRequests DEF Wires

\* What was stored differs from what was sent by the seed alone.
LEMMA StoredFields ==
    ASSUME wire \in Wires
    PROVE  /\ Stored.seed = seed
           /\ \A f \in Fields \ {"seed"} : Stored[f] = wire[f]
BY WireFields DEF Stored, Fields

\* A check is in a list of failures when it fails.
LEMMA FailingCheck ==
    ASSUME NEW w, NEW s, NEW check \in Refused(w, s)
    PROVE  /\ Fails(w, s)[check]
           /\ check \in DOMAIN Fails(w, s)
BY DEF Refused, Failing

-----------------------------------------------------------------------------
(* Validation at execution. *)

\* A request on its way is one of the requests, one of the editor passed its
\* checks, one it blocked did not, and one that is queued was accepted with the
\* seed it has.
RequestInv ==
    /\ server \in Servers
    /\ stage \in {"sent", "queued"} => wire \in Wires
    /\ stage = "sent" /\ draft # None =>
         draft \in Drafts /\ wire = Wire(draft) /\ Issues(draft, against) = {}
    /\ stage = "blocked" => draft \in Drafts /\ Issues(draft, against) # {}
    /\ stage = "queued" =>
         /\ accepted \in Servers /\ Refused(wire, accepted) = {}
         /\ seed \in Seeds(wire, Policy(accepted))

LEMMA RequestStep ==
    ASSUME RequestInv, [Next]_vars
    PROVE  RequestInv'
<1>1. server \in Servers /\ server' \in Servers
    BY ServerStep DEF RequestInv
<1>2. ASSUME UNCHANGED requestVars PROVE RequestInv'
    BY <1>1, <1>2 DEF RequestInv, requestVars
<1>3. CASE UNCHANGED vars
    BY <1>2, <1>3 DEF vars, requestVars
<1>4. ASSUME stage' \notin {"sent", "queued", "blocked"} PROVE RequestInv'
    BY <1>1, <1>4 DEF RequestInv
<1>5. CASE Generate \/ GiveUp \/ Execute
    BY <1>4, <1>5 DEF Generate, GiveUp, Execute, Close
<1>6. ASSUME NEW d \in Drafts, Check(d) PROVE RequestInv'
    <2>1. draft' = d /\ against' = cache.doc
        BY <1>6 DEF Check
    <2>2. CASE Issues(d, cache.doc) = {}
        <3>1. stage' = "sent" /\ wire' = Wire(d)
            BY <1>6, <2>2 DEF Check
        <3>2. wire' \in Wires
            BY <3>1 DEF Wires
        <3> QED BY <1>1, <2>1, <2>2, <3>1, <3>2 DEF RequestInv
    <2>3. CASE Issues(d, cache.doc) # {}
        <3>1. stage' = "blocked"
            BY <1>6, <2>3 DEF Check
        <3> QED BY <1>1, <2>1, <2>3, <3>1 DEF RequestInv
    <2> QED BY <2>2, <2>3
<1>7. ASSUME NEW w \in Posts, Post(w) PROVE RequestInv'
    <2>1. stage' = "sent" /\ wire' = w /\ draft' = None
        BY <1>7 DEF Post
    <2> QED BY <1>1, <2>1 DEF RequestInv, Wires
<1>8. CASE Submit
    <2>1. CASE Rejected(wire) \cup Refused(wire, server) = {}
        <3>1. /\ stage' = "queued" /\ accepted' = server /\ wire' = wire
              /\ \E drawn \in Seeds(wire, Policy(server)) : seed' = drawn
              /\ stage = "sent"
            BY <1>8, <2>1 DEF Submit
        <3> QED BY <1>1, <2>1, <3>1 DEF RequestInv
    <2>2. CASE Rejected(wire) \cup Refused(wire, server) # {}
        BY <1>4, <1>8, <2>2 DEF Submit, Close
    <2> QED BY <2>1, <2>2
<1>9. CASE \/ EnsureBatch \/ ServerChanges
           \/ \E w \in Windows : Refresh(w) \/ GetCapabilities(w) \/ Receive(w) \/ Lose(w)
    BY <1>2, <1>9, ServerAlone DEF EnsureBatch, Refresh, GetCapabilities, Receive, Lose
<1> QED BY <1>3, <1>5, <1>6, <1>7, <1>8, <1>9 DEF Next, ServerChanges

LEMMA RequestAlways == Spec => []RequestInv
<1>1. Init => RequestInv
    BY DEF Init, RequestInv
<1> QED BY <1>1, RequestStep, PTL DEF Spec

\* The checks that look at the request and the settings alone, but the seed's.
Static ==
    {"prompt", "negative_prompt", "width", "height", "steps", "guidance_scale",
     "output_name", "source_image", "mask_image", "image_format",
     "denoising_strength", "provenance", "asset_type", "transparency_strategy",
     "alpha_threshold", "alpha_feather", "pixels_per_unit", "pivot_mode",
     "atlas_hint", "seam_blend_width", "palette_color_count", "seam_size",
     "name_format"}

\* The checks that look at the seed, the model or the extras.
Moving == {"seed", "operation", "seam_inpaint", "background_removal"}

LEMMA CheckNames ==
    ASSUME NEW w, NEW s
    PROVE  DOMAIN Fails(w, s) = Static \cup Moving
BY DEF Fails, Static, Moving

\* They come to the same for two requests that differ by the seed.
LEMMA StaticAgree ==
    ASSUME NEW v, NEW w, NEW s, NEW t, Policy(s) = Policy(t),
           \A f \in Fields \ {"seed"} : v[f] = w[f],
           NEW check \in Static, Fails(v, s)[check]
    PROVE  Fails(w, t)[check]
<1>1. /\ v.operation = w.operation /\ v.source = w.source /\ v.mask = w.mask
      /\ v.strength = w.strength /\ v.prompt = w.prompt /\ v.negative = w.negative
      /\ v.name = w.name /\ v.plain = w.plain /\ v.width = w.width
      /\ v.height = w.height /\ v.steps = w.steps /\ v.guidance = w.guidance
      /\ v.provenance = w.provenance /\ v.asset_type = w.asset_type
      /\ v.strategy = w.strategy /\ v.repair = w.repair /\ v.alpha = w.alpha
      /\ v.feather = w.feather /\ v.ppu = w.ppu /\ v.pivot = w.pivot
      /\ v.pivot_x = w.pivot_x /\ v.pivot_y = w.pivot_y /\ v.atlas = w.atlas
      /\ v.blend = w.blend /\ v.palette = w.palette
    BY DEF Fields
<1> /\ Requested(v) = Requested(w) /\ Strategy(v) = Strategy(w)
    /\ Pivot(v, Policy(s)) = Pivot(w, Policy(t))
    BY <1>1 DEF Requested, Strategy, Pivot
<1>2. CASE check = "prompt"
    BY <1>1, <1>2 DEF Fails, BadPrompt
<1>3. CASE check = "negative_prompt"
    BY <1>1, <1>3 DEF Fails, BadNegative
<1>4. CASE check = "width"
    BY <1>1, <1>4 DEF Fails, BadSide
<1>5. CASE check = "height"
    BY <1>1, <1>5 DEF Fails, BadSide
<1>6. CASE check = "steps"
    BY <1>1, <1>6 DEF Fails, BadSteps
<1>7. CASE check = "guidance_scale"
    BY <1>1, <1>7 DEF Fails, BadGuidance
<1>8. CASE check = "output_name"
    BY <1>1, <1>8 DEF Fails, BadName
<1>9. CASE check = "source_image"
    BY <1>1, <1>9 DEF Fails, BadSource, BadImage
<1>10. CASE check = "mask_image"
    BY <1>1, <1>10 DEF Fails, BadMask, BadImage, BlackMask, SizesDiffer
<1>11. CASE check = "image_format"
    BY <1>1, <1>11 DEF Fails, BadFormat
<1>12. CASE check = "denoising_strength"
    BY <1>1, <1>12 DEF Fails, BadStrength, WeakOrStrong
<1>13. CASE check = "provenance"
    BY <1>1, <1>13 DEF Fails, BadProvenance
<1>14. CASE check = "asset_type"
    BY <1>1, <1>14 DEF Fails, BadAssetType
<1>15. CASE check = "transparency_strategy"
    BY <1>1, <1>15 DEF Fails, BadStrategy
<1>16. CASE check = "alpha_threshold"
    BY <1>1, <1>16 DEF Fails, BadThreshold
<1>17. CASE check = "alpha_feather"
    BY <1>1, <1>17 DEF Fails, BadFeather
<1>18. CASE check = "pixels_per_unit"
    BY <1>1, <1>18 DEF Fails, BadPixels, Sprite
<1>19. CASE check = "pivot_mode"
    BY <1>1, <1>19 DEF Fails, BadPivot, Sprite
<1>20. CASE check = "atlas_hint"
    BY <1>1, <1>20 DEF Fails, BadAtlas, Sprite
<1>21. CASE check = "seam_blend_width"
    BY <1>1, <1>21 DEF Fails, BadBlend
<1>22. CASE check = "palette_color_count"
    BY <1>1, <1>22 DEF Fails, BadPalette
<1>23. CASE check = "seam_size"
    BY <1>1, <1>23 DEF Fails, BadSeamSize
<1>24. CASE check = "name_format"
    BY <1>1, <1>24 DEF Fails, BadNameFormat
<1> QED BY <1>2, <1>3, <1>4, <1>5, <1>6, <1>7, <1>8, <1>9, <1>10, <1>11, <1>12, <1>13, <1>14, <1>15, <1>16, <1>17, <1>18, <1>19, <1>20, <1>21, <1>22, <1>23, <1>24 DEF Static

\* A job that was accepted is refused when it is executed, in the same
\* environment, only for an operation, a seam inpainter or a session of
\* background removal that has gone since, for any settings and any requests:
\* the seed drawn by the first validation passes the second.
THEOREM Revalidation == Spec => []RevalidationAgrees
<1>1. RequestInv => RevalidationAgrees
    <2> SUFFICES ASSUME RequestInv, stage = "queued", server.env = accepted.env,
                        NEW check \in Refused(Stored, server)
                 PROVE  /\ check \in Moving \ {"seed"}
                        /\ check = "operation" => server.family # accepted.family
                        /\ check = "seam_inpaint" => server.broken /\ ~accepted.broken
                        /\ check = "background_removal" =>
                             server.remover # "sound" /\ accepted.remover = "sound"
        BY DEF RevalidationAgrees, Moving
    <2>1. Policy(server) = Policy(accepted)
        BY DEF Policy
    <2>2. wire \in Wires /\ seed \in Seeds(wire, Policy(accepted))
        BY DEF RequestInv
    <2>3. Stored.seed = seed /\ \A f \in Fields \ {"seed"} : Stored[f] = wire[f]
        BY <2>2, StoredFields
    <2>4. /\ Fails(Stored, server)[check]
          /\ check \in Static \cup Moving
        BY FailingCheck, CheckNames
    <2>5. ~Fails(wire, accepted)[check]
        <3>1. check \in DOMAIN Fails(wire, accepted)
            BY <2>4, CheckNames
        <3> QED BY <3>1 DEF RequestInv, Refused, Failing
    <2>6. check \notin Static
        BY <2>1, <2>3, <2>4, <2>5, StaticAgree
    <2>7. check # "seed"
        <3> SUFFICES ASSUME check = "seed" PROVE FALSE
            OBVIOUS
        <3>1. BadSeed(Stored, Policy(server)) /\ ~BadSeed(wire, Policy(accepted))
            BY <2>4, <2>5 DEF Fails
        <3>2. CASE wire.seed = None
            <4>1. seed \in Policy(accepted).seed.min .. Policy(accepted).seed.max
                BY <2>2, <3>2 DEF Seeds
            <4>2. Within(seed, Policy(accepted).seed)
                BY <4>1 DEF Within
            <4> QED BY <2>1, <2>3, <3>1, <4>2 DEF BadSeed
        <3>3. CASE wire.seed # None
            <4>1. seed = wire.seed
                BY <2>2, <3>3 DEF Seeds
            <4> QED BY <2>1, <2>3, <3>1, <4>1 DEF BadSeed
        <3> QED BY <3>2, <3>3
    <2>8. /\ Stored.operation = wire.operation /\ Stored.repair = wire.repair
          /\ Stored.strategy = wire.strategy
        BY <2>3 DEF Fields
    <2>9. ASSUME check = "operation" PROVE server.family # accepted.family
        BY <2>4, <2>5, <2>8, <2>9 DEF Fails, Supports, Requested
    <2>10. ASSUME check = "seam_inpaint" PROVE server.broken /\ ~accepted.broken
        <3>1. BadSeams(Stored, server)
            BY <2>4, <2>10 DEF Fails
        <3>2. ~BadSeams(wire, accepted)
            BY <2>5, <2>10 DEF Fails
        <3>3. ~SeamsAvailable(server) /\ SeamsAvailable(accepted)
            BY <2>8, <3>1, <3>2 DEF BadSeams
        <3> QED BY <2>1, <3>3 DEF SeamsAvailable
    <2>11. ASSUME check = "background_removal"
           PROVE  server.remover # "sound" /\ accepted.remover = "sound"
        <3>1. BadRemoval(Stored, server)
            BY <2>4, <2>11 DEF Fails
        <3>2. ~BadRemoval(wire, accepted)
            BY <2>5, <2>11 DEF Fails
        <3>3. Strategy(Stored) = Strategy(wire)
            BY <2>8 DEF Strategy
        <3>4. ~Removes(server) /\ Removes(accepted)
            BY <3>1, <3>2, <3>3 DEF BadRemoval
        <3> QED BY <2>1, <3>4 DEF Removes
    <2> QED BY <2>4, <2>6, <2>7, <2>9, <2>10, <2>11 DEF Moving
<1> QED BY <1>1, RequestAlways, PTL

-----------------------------------------------------------------------------
(* The editor and the service.  For a draft that has no issues against the   *)
(* document of a server, check by check.                                     *)

Clear(d, s) == Issues(d, Document(s)) = {}

\* What a draft without issues has passed.
LEMMA Passed ==
    ASSUME NEW d, NEW s, Clear(d, s)
    PROVE  \A check \in DOMAIN Finds(d, Document(s)) : ~Finds(d, Document(s))[check]
BY DEF Clear, Issues, Failing

\* The bounds of the document are those of the settings.
LEMMA DocumentBounds ==
    ASSUME NEW s
    PROVE  LET doc == Document(s)
               p == Policy(s)
           IN
           /\ doc.text_to_image.dimensions.width = p.width
           /\ doc.text_to_image.dimensions.height = p.height
           /\ doc.text_to_image.steps.min = p.steps.min
           /\ doc.text_to_image.steps.max = p.steps.max
           /\ doc.text_to_image.guidance.min = p.guidance.min
           /\ doc.text_to_image.guidance.max = p.guidance.max
           /\ doc.text_to_image.seed = p.seed
           /\ doc.text_to_image.prompt = p.prompt
           /\ doc.text_to_image.negative = p.negative
           /\ doc.text_to_image.name = p.name
           /\ doc.text_to_image.asset_types = AssetTypes
           /\ doc.text_to_image.processing.removal <=> RemovalAdvertised(s)
           /\ doc.text_to_image.processing.seams <=> SeamsAvailable(s)
           /\ doc.image_to_image.supported <=> "image_to_image" \in Advertised(s)
           /\ doc.inpainting.supported <=> "inpainting" \in Advertised(s)
           /\ doc.image_to_image.strength.min = p.strength.min
           /\ doc.image_to_image.strength.max = p.strength.max
           /\ doc.inpainting.strength.min = p.strength.min
           /\ doc.inpainting.strength.max = p.strength.max
           /\ doc.image_to_image.source = SourceImage(p)
           /\ doc.inpainting.source = SourceImage(p)
           /\ doc.inpainting.mask = MaskImage(p)
BY DEF Document, TextToImage, ImageToImage, Inpainting, Dimensions, Bounds, Processing

\* A side the editor accepts is one the service accepts: a multiple of one or
\* less constrains neither.
LEMMA SidesAgree ==
    ASSUME NEW v \in Int, NEW side, side.multiple \in Int, side.multiple > 0,
           ~OddSide(v, side)
    PROVE  ~BadSide(v, side)
<1>1. CASE side.multiple > 1
    BY <1>1 DEF OddSide, BadSide
<1>2. CASE side.multiple = 1
    <2>1. v % 1 = 0
        OBVIOUS
    <2> QED BY <1>2, <2>1 DEF OddSide, BadSide
<1> QED BY <1>1, <1>2

\* What is known of the settings a server runs with.
LEMMA PolicyFacts ==
    ASSUME NEW s \in Servers
    PROVE  LET p == Policy(s) IN
           /\ p.width.multiple \in Int /\ p.width.multiple > 0
           /\ p.height.multiple \in Int /\ p.height.multiple > 0
           /\ p.strength.min \in Int /\ p.strength.max \in Int
           /\ 0 <= p.strength.min /\ p.strength.max <= 100
           /\ Within(p.strength.default, p.strength)
           /\ p.prompt \in Int /\ p.negative \in Int /\ p.name \in Int
           /\ p.removal \in {"absent", "ready", "broken"}
<1>1. s.env \in Environments
    BY DEF Servers
<1>2. ValidPolicy(Policy(s)) /\ Extras(Policy(s))
    BY <1>1, SettingsAreValid DEF Policy
<1>3. LET p == Policy(s) IN
      /\ p.width.multiple \in Int /\ p.height.multiple \in Int
      /\ p.strength.min \in Int /\ p.strength.max \in Int
      /\ p.prompt \in Int /\ p.negative \in Int /\ p.name \in Int
    BY <1>1, NumbersAreNumbers DEF Policy
<1> QED BY <1>2, <1>3 DEF ValidPolicy, Extras, One

LEMMA DraftFacts ==
    ASSUME NEW d \in Drafts
    PROVE  /\ d.width \in Int /\ d.height \in Int /\ d.strength \in Int
           /\ d.ppu \in Int /\ d.pivot_x \in Int /\ d.pivot_y \in Int
           /\ d.source \in Images \cup {None} /\ d.mask \in Images \cup {None}
           /\ \A text \in {d.prompt, d.negative, d.name} :
                 /\ text.points \in Int /\ text.units \in Int /\ text.units >= text.points
                 /\ text.points = 0 => text.units = 0
BY DraftsAreRequests, TextsAreReal

\* An image the editor accepts.
LEMMA ImagesAgree ==
    ASSUME NEW s \in Servers, NEW image \in Images \cup {None}, NEW bytes,
           ~OddImage(image, [bytes |-> bytes, dimensions |-> Dimensions(Policy(s))])
    PROVE  image \in Images /\ ~BadImage(image, bytes, Policy(s))
<1>1. image \in Images
    BY DEF OddImage
<1>2. image.width \in Int /\ image.height \in Int
    BY <1>1 DEF Images
<1>3. /\ ~(image.bytes > bytes)
      /\ ~OddSide(image.width, Policy(s).width) /\ ~OddSide(image.height, Policy(s).height)
    BY DEF OddImage, Dimensions
<1>4. ~BadSide(image.width, Policy(s).width) /\ ~BadSide(image.height, Policy(s).height)
    BY <1>2, <1>3, PolicyFacts, SidesAgree
<1> QED BY <1>1, <1>3, <1>4 DEF BadImage

\* The source and the mask of a draft without issues, and what they are used for.
LEMMA Pictures ==
    ASSUME NEW d \in Drafts, NEW s \in Servers, Clear(d, s)
    PROVE  /\ Masked(d) => d.source \in Images
                           /\ ~BadImage(d.source, Policy(s).source_bytes, Policy(s))
           /\ d.inpaint => /\ d.mask \in Images
                           /\ ~BadImage(d.mask, Policy(s).mask_bytes, Policy(s))
                           /\ ~BlackMask(d.mask)
                           /\ ~SizesDiffer(d.source, d.mask)
           /\ Masked(d) => Within(d.strength, Policy(s).strength)
<1> DEFINE doc == Document(s)
           p == Policy(s)
<1>1. /\ ~(Masked(d) /\ OddImage(d.source, Section(d, doc).source))
      /\ ~OddMask(d, doc.inpainting.mask)
      /\ ~(Masked(d) /\ ~Within(d.strength, Section(d, doc).strength))
    BY Passed DEF Finds
<1>2. Masked(d) => /\ Section(d, doc).source = SourceImage(p)
                   /\ Section(d, doc).strength.min = p.strength.min
                   /\ Section(d, doc).strength.max = p.strength.max
    BY DocumentBounds DEF Masked, Section
<1>3. /\ SourceImage(p) = [bytes |-> p.source_bytes, dimensions |-> Dimensions(p)]
      /\ MaskImage(p) = [bytes |-> p.mask_bytes, dimensions |-> Dimensions(p)]
      /\ doc.inpainting.mask = MaskImage(p)
    BY DocumentBounds DEF SourceImage, MaskImage
<1> HIDE DEF doc, p
<1>4. Masked(d) => d.source \in Images /\ ~BadImage(d.source, p.source_bytes, p)
    BY <1>1, <1>2, <1>3, DraftFacts, ImagesAgree DEF p
<1>5. ASSUME d.inpaint
      PROVE  /\ d.mask \in Images /\ ~BadImage(d.mask, p.mask_bytes, p)
             /\ ~BlackMask(d.mask) /\ ~SizesDiffer(d.source, d.mask)
    <2>1. /\ ~OddImage(d.mask, MaskImage(p)) /\ ~(d.mask.luminance < EditorMaskThreshold)
          /\ ~(d.source # None /\ SizesDiffer(d.source, d.mask))
        BY <1>1, <1>3, <1>5 DEF OddMask
    <2>2. d.mask \in Images /\ ~BadImage(d.mask, p.mask_bytes, p)
        BY <1>3, <2>1, DraftFacts, ImagesAgree DEF p
    <2>3. d.source # None
        BY <1>1, <1>5 DEF Masked, OddImage
    <2>4. ~BlackMask(d.mask)
        <3>1. d.mask.luminance \in Int
            BY <2>2 DEF Images
        <3> QED BY <2>1, <3>1 DEF BlackMask, EditorMaskThreshold, EmptyMaskThreshold
    <2> QED BY <2>1, <2>2, <2>3, <2>4
<1>6. Masked(d) => Within(d.strength, p.strength)
    BY <1>1, <1>2 DEF Within
<1> QED BY <1>4, <1>5, <1>6 DEF p

\* A name is read as it is.
LEMMA NamesAreRead ==
    ASSUME NEW name \in Operations \cup Strategies \cup PivotModes, NEW default
    PROVE  Normal(Given(name, default)) = name
<1>1. name # None /\ name # ""
    BY NoneIsNoValue DEF Operations, Strategies, PivotModes
<1>2. Strip[name] = name /\ Lower[name] = name
    BY NamesAreNormal
<1> QED BY <1>1, <1>2 DEF Given, Normal

LEMMA OperationIsName == \A d \in Drafts : Operation(d) \in Operations
BY DEF Operation, Operations

\* The fields of the request of a draft.
LEMMA WireOf ==
    ASSUME NEW d \in Drafts
    PROVE  LET w == Wire(d) IN
           /\ w.operation = Operation(d)
           /\ w.source = IF Masked(d) THEN d.source ELSE None
           /\ w.mask = IF d.inpaint THEN d.mask ELSE None
           /\ w.strength = IF Masked(d) THEN d.strength ELSE None
           /\ w.prompt = d.prompt.points /\ w.negative = d.negative.points
           /\ w.name = d.name.points
           /\ w.width = d.width /\ w.height = d.height /\ w.steps = d.steps
           /\ w.guidance = d.guidance /\ w.seed = d.seed
           /\ w.asset_type = d.asset_type /\ w.repair = d.repair
           /\ w.strategy = IF d.cutout THEN "background_removal" ELSE "none"
           /\ w.ppu = IF Sprite(d) THEN d.ppu ELSE None
           /\ w.pivot = IF Sprite(d) THEN d.pivot ELSE None
           /\ w.pivot_x = IF Sprite(d) THEN d.pivot_x ELSE None
           /\ w.pivot_y = IF Sprite(d) THEN d.pivot_y ELSE None
           /\ Sprite(w) <=> Sprite(d)
BY DEF Wire, Sprite

\* What the service reads in it.
LEMMA WireRead ==
    ASSUME NEW d \in Drafts
    PROVE  /\ Requested(Wire(d)) = Operation(d)
           /\ Strategy(Wire(d)) = IF d.cutout THEN "background_removal" ELSE "none"
           /\ Sprite(d) /\ d.pivot \in PivotModes =>
                \A p : Pivot(Wire(d), p) = d.pivot
<1>1. Requested(Wire(d)) = Operation(d)
    BY WireOf, OperationIsName, NamesAreRead DEF Requested
<1>2. Strategy(Wire(d)) = IF d.cutout THEN "background_removal" ELSE "none"
    <2>1. Wire(d).strategy \in Strategies
        BY WireOf DEF Strategies
    <2>2. Strategy(Wire(d)) = Wire(d).strategy
        BY <2>1, NamesAreRead DEF Strategy
    <2> QED BY <2>2, WireOf
<1>3. ASSUME Sprite(d), d.pivot \in PivotModes, NEW p
      PROVE  Pivot(Wire(d), p) = d.pivot
    BY <1>3, WireOf, NamesAreRead DEF Pivot
<1> QED BY <1>1, <1>2, <1>3

LEMMA NoneFacts == None \notin Int /\ None \notin PivotModes /\ None \notin Images
BY NoneIsNoValue

\* No check of the service that the editor has too fails.
LEMMA NothingRefused ==
    ASSUME NEW d \in Drafts, NEW s \in Servers, Clear(d, s),
           NEW check \in Refused(Wire(d), s)
    PROVE  check \in Unchecked
<1> DEFINE w == Wire(d)
           p == Policy(s)
           doc == Document(s)
<1>1. Fails(w, s)[check] /\ check \in Static \cup Moving
    BY FailingCheck, CheckNames
<1>2. SUFFICES ASSUME check \notin Unchecked PROVE FALSE
    OBVIOUS
<1> HIDE DEF w, p, doc
<1>3. /\ ~OddSide(d.width, p.width) /\ ~OddSide(d.height, p.height)
      /\ Within(d.steps, p.steps) /\ Within(d.guidance, p.guidance)
      /\ d.seed = None \/ Within(d.seed, p.seed)
      /\ d.prompt.units # 0 /\ ~(d.prompt.units > p.prompt)
      /\ ~(d.negative.units > p.negative)
      /\ d.name.units # 0 /\ ~(d.name.units > p.name)
    <2>1. /\ ~OddSide(d.width, doc.text_to_image.dimensions.width)
          /\ ~OddSide(d.height, doc.text_to_image.dimensions.height)
          /\ Within(d.steps, doc.text_to_image.steps)
          /\ Within(d.guidance, doc.text_to_image.guidance)
          /\ d.seed = None \/ Within(d.seed, doc.text_to_image.seed)
          /\ d.prompt.units # 0 /\ ~(d.prompt.units > doc.text_to_image.prompt)
          /\ ~(d.negative.units > doc.text_to_image.negative)
          /\ d.name.units # 0 /\ ~(d.name.units > doc.text_to_image.name)
        <3>1. ~OddSide(d.width, doc.text_to_image.dimensions.width)
            BY Passed DEF Finds, doc
        <3>2. ~OddSide(d.height, doc.text_to_image.dimensions.height)
            BY Passed DEF Finds, doc
        <3>3. /\ Within(d.steps, doc.text_to_image.steps)
              /\ Within(d.guidance, doc.text_to_image.guidance)
            BY Passed DEF Finds, doc
        <3>4. d.seed = None \/ Within(d.seed, doc.text_to_image.seed)
            BY Passed DEF Finds, doc
        <3>5. d.prompt.units # 0 /\ ~(d.prompt.units > doc.text_to_image.prompt)
            BY Passed DEF Finds, doc
        <3>6. ~(d.negative.units > doc.text_to_image.negative)
            BY Passed DEF Finds, doc
        <3>7. d.name.units # 0 /\ ~(d.name.units > doc.text_to_image.name)
            BY Passed DEF Finds, doc
        <3> QED BY <3>1, <3>2, <3>3, <3>4, <3>5, <3>6, <3>7
    <2> QED BY <2>1, DocumentBounds DEF Within, doc, p
<1>4. /\ d.asset_type \in AssetTypes /\ ~BadSeamSize(d)
      /\ d.repair => SeamsAvailable(s)
      /\ Sprite(d) => ~(d.ppu <= 0) /\ ~OddPivot(d)
      /\ d.inpaint => "inpainting" \in s.family /\ ~d.img2img
      /\ ~d.inpaint /\ d.img2img => "image_to_image" \in s.family
    <2>1. /\ d.asset_type \in doc.text_to_image.asset_types /\ ~BadSeamSize(d)
          /\ d.repair => doc.text_to_image.processing.seams
          /\ Sprite(d) => ~(d.ppu <= 0) /\ ~OddPivot(d)
          /\ Section(d, doc).supported /\ ~(d.inpaint /\ d.img2img)
        BY Passed DEF Finds, doc
    <2>2. /\ d.inpaint => "inpainting" \in Advertised(s)
          /\ ~d.inpaint /\ d.img2img => "image_to_image" \in Advertised(s)
        BY <2>1, DocumentBounds DEF Section, doc
    <2>3. \A op \in Advertised(s) : op \in s.family
        BY DEF Advertised
    <2> QED BY <2>1, <2>2, <2>3, DocumentBounds DEF doc
<1>5. CASE check \in {"prompt", "negative_prompt", "output_name"}
    <2>1. /\ d.prompt.points # 0 /\ ~(d.prompt.points > p.prompt)
          /\ ~(d.negative.points > p.negative)
          /\ d.name.points # 0 /\ ~(d.name.points > p.name)
        BY <1>3, DraftFacts, PolicyFacts DEF p
    <2>2. ~BadPrompt(w, p) /\ ~BadNegative(w, p) /\ ~BadName(w, p)
        BY <2>1, WireOf DEF BadPrompt, BadNegative, BadName, w
    <2> QED BY <1>1, <1>5, <2>2 DEF Fails, p
<1>6. CASE check \in {"width", "height"}
    <2>1. ~BadSide(w.width, p.width) /\ ~BadSide(w.height, p.height)
        BY <1>3, DraftFacts, PolicyFacts, SidesAgree, WireOf DEF p, w
    <2> QED BY <1>1, <1>6, <2>1 DEF Fails, p
<1>7. CASE check \in {"steps", "guidance_scale", "seed"}
    <2>1. ~BadSteps(w, p) /\ ~BadGuidance(w, p) /\ ~BadSeed(w, p)
        BY <1>3, WireOf DEF BadSteps, BadGuidance, BadSeed, w
    <2> QED BY <1>1, <1>7, <2>1 DEF Fails, p
<1>8. CASE check = "operation"
    <2>1. Supports(s, Requested(w))
        BY <1>4, WireRead DEF Supports, Operation, w
    <2> QED BY <1>1, <1>8, <2>1 DEF Fails, w
<1>9. CASE check = "source_image"
    <2>1. ~BadSource(w, p)
        <3>1. CASE Masked(d)
            <4>1. w.source = d.source /\ Requested(w) # "text_to_image"
                BY <3>1, WireOf, WireRead DEF Masked, Operation, w
            <4>2. d.source # None /\ ~BadImage(d.source, p.source_bytes, p)
                BY <3>1, Pictures, NoneFacts DEF p
            <4> QED BY <4>1, <4>2 DEF BadSource
        <3>2. CASE ~Masked(d)
            BY <3>2, WireOf, WireRead DEF Masked, Operation, BadSource, w
        <3> QED BY <3>1, <3>2
    <2> QED BY <1>1, <1>9, <2>1 DEF Fails, p
<1>10. CASE check = "mask_image"
    <2>1. ~BadMask(w, p)
        <3>1. CASE d.inpaint
            <4>1. /\ w.source = d.source /\ w.mask = d.mask
                  /\ Requested(w) = "inpainting"
                BY <3>1, WireOf, WireRead DEF Masked, Operation, w
            <4>2. /\ d.mask # None /\ ~BadImage(d.mask, p.mask_bytes, p)
                  /\ ~BlackMask(d.mask) /\ ~SizesDiffer(d.source, d.mask)
                BY <3>1, Pictures, NoneFacts DEF p
            <4> QED BY <4>1, <4>2 DEF BadMask
        <3>2. CASE ~d.inpaint
            BY <3>2, WireOf, WireRead DEF Operation, BadMask, w
        <3> QED BY <3>1, <3>2
    <2> QED BY <1>1, <1>10, <2>1 DEF Fails, p
<1>11. CASE check = "denoising_strength"
    <2>1. ~BadStrength(w, p)
        <3>1. CASE Masked(d)
            <4>1. w.strength = d.strength /\ Requested(w) # "text_to_image"
                BY <3>1, WireOf, WireRead DEF Masked, Operation, w
            <4>2. Within(d.strength, p.strength) /\ d.strength # None
                BY <3>1, Pictures, DraftFacts, NoneFacts DEF p
            <4> QED BY <4>1, <4>2 DEF BadStrength, WeakOrStrong, Or
        <3>2. CASE ~Masked(d)
            BY <3>2, WireOf, WireRead DEF Masked, Operation, BadStrength, w
        <3> QED BY <3>1, <3>2
    <2> QED BY <1>1, <1>11, <2>1 DEF Fails, p
<1>12. CASE check \in {"asset_type", "seam_size", "seam_inpaint"}
    <2>1. ~BadAssetType(w) /\ ~BadSeamSize(w) /\ ~BadSeams(w, s)
        BY <1>4, WireOf DEF BadAssetType, BadSeamSize, BadSeams, w
    <2> QED BY <1>1, <1>12, <2>1 DEF Fails, w
<1>13. CASE check = "pixels_per_unit"
    <2>1. ~BadPixels(w, p)
        BY <1>4, WireOf, DraftFacts, NoneFacts DEF BadPixels, Or, w
    <2> QED BY <1>1, <1>13, <2>1 DEF Fails, p
<1>14. CASE check = "pivot_mode"
    <2>1. ~BadPivot(w, p)
        <3>1. CASE Sprite(d)
            <4>1. /\ w.pivot = d.pivot /\ w.pivot_x = d.pivot_x /\ w.pivot_y = d.pivot_y
                  /\ d.pivot \in PivotModes
                BY <1>4, <3>1, WireOf DEF OddPivot, w
            <4>2. /\ Pivot(w, p) = d.pivot
                  /\ d.pivot_x # None /\ d.pivot_y # None
                BY <3>1, <4>1, WireRead, NoneFacts, DraftFacts DEF w
            <4>3. d.pivot = "custom" => Within(d.pivot_x, Fraction) /\ Within(d.pivot_y, Fraction)
                BY <1>4, <3>1 DEF OddPivot
            <4> QED BY <4>1, <4>2, <4>3 DEF BadPivot
        <3>2. CASE ~Sprite(d)
            BY <3>2, WireOf DEF BadPivot, w
        <3> QED BY <3>1, <3>2
    <2> QED BY <1>1, <1>14, <2>1 DEF Fails, p
<1> QED BY <1>1, <1>2, <1>5, <1>6, <1>7, <1>8, <1>9, <1>10, <1>11, <1>12, <1>13, <1>14
        DEF Static, Moving, Unchecked

\* The schema refuses one thing more: coordinates that go with no custom pivot.
LEMMA NothingRejected ==
    ASSUME NEW d \in Drafts, NEW s \in Servers, Clear(d, s),
           NEW check \in Rejected(Wire(d))
    PROVE  /\ check \in (Unchecked \cup {"pivot_mode"}) \ {"background_removal"}
           /\ check = "pivot_mode" => IdlePivot(Wire(d))
<1> DEFINE w == Wire(d)
           p == Policy(s)
           doc == Document(s)
<1>1. SchemaFails(w)[check] /\ check \in DOMAIN SchemaFails(w)
    BY DEF Rejected, Failing
<1> HIDE DEF w, p, doc
<1>2. /\ d.prompt.units # 0 /\ d.name.units # 0 /\ d.asset_type \in AssetTypes
      /\ Sprite(d) => ~(d.ppu <= 0) /\ ~OddPivot(d)
    <2>1. /\ d.prompt.units # 0 /\ d.name.units # 0
          /\ d.asset_type \in doc.text_to_image.asset_types
          /\ Sprite(d) => ~(d.ppu <= 0) /\ ~OddPivot(d)
        BY Passed DEF Finds, doc
    <2> QED BY <2>1, DocumentBounds DEF doc
<1>3. check \notin {"prompt", "output_name", "asset_type"}
    <2>1. d.prompt.points # 0 /\ d.name.points # 0
        BY <1>2, DraftFacts
    <2>2. w.prompt # 0 /\ w.name # 0 /\ w.asset_type \in AssetTypes
        BY <1>2, <2>1, WireOf DEF w
    <2>3. CASE check = "prompt"
        <3>1. SchemaFails(w).prompt
            BY <1>1, <2>3
        <3> QED BY <2>2, <3>1 DEF SchemaFails
    <2>4. CASE check = "output_name"
        <3>1. SchemaFails(w).output_name
            BY <1>1, <2>4
        <3> QED BY <2>2, <3>1 DEF SchemaFails
    <2>5. CASE check = "asset_type"
        <3>1. SchemaFails(w).asset_type
            BY <1>1, <2>5
        <3> QED BY <2>2, <3>1 DEF SchemaFails
    <2> QED BY <2>3, <2>4, <2>5
<1>4. check # "pixels_per_unit"
    <2> SUFFICES ASSUME check = "pixels_per_unit" PROVE FALSE
        OBVIOUS
    <2>1. ~(w.ppu # None /\ w.ppu <= 0)
        BY <1>2, WireOf DEF w
    <2>2. SchemaFails(w).pixels_per_unit
        BY <1>1
    <2> QED BY <2>1, <2>2 DEF SchemaFails
<1>5. check # "denoising_strength"
    <2> SUFFICES ASSUME check = "denoising_strength" PROVE FALSE
        OBVIOUS
    <2>1. SchemaFails(w).denoising_strength
        BY <1>1
    <2>2. w.strength # None /\ (w.operation = "text_to_image"
                                \/ ~Within(w.strength, SchemaFraction))
        BY <2>1 DEF SchemaFails
    <2>3. CASE Masked(d)
        <3>1. w.strength = d.strength /\ w.operation # "text_to_image"
            BY <2>3, WireOf DEF Masked, Operation, w
        <3>2. Within(d.strength, SchemaFraction)
            BY <2>3, Pictures, PolicyFacts, DraftFacts DEF Within, SchemaFraction, One
        <3> QED BY <2>2, <3>1, <3>2
    <2>4. CASE ~Masked(d)
        <3>1. w.strength = None
            BY <2>4, WireOf DEF w
        <3> QED BY <2>2, <3>1
    <2> QED BY <2>3, <2>4
<1>6. check # "source_image"
    <2> SUFFICES ASSUME check = "source_image" PROVE FALSE
        OBVIOUS
    <2>1. w.source = None <=> w.operation = "text_to_image"
        BY WireOf, Pictures, NoneFacts DEF Masked, Operation, w
    <2>2. SchemaFails(w).source_image
        BY <1>1
    <2>3. w.operation \in Operations /\ (w.source = None) # (w.operation = "text_to_image")
        BY <2>2 DEF SchemaFails
    <2> QED BY <2>1, <2>3
<1>7. check # "mask_image"
    <2> SUFFICES ASSUME check = "mask_image" PROVE FALSE
        OBVIOUS
    <2>1. w.mask = None <=> w.operation # "inpainting"
        BY WireOf, Pictures, NoneFacts DEF Operation, w
    <2>2. SchemaFails(w).mask_image
        BY <1>1
    <2>3. w.operation \in Operations /\ (w.mask = None) = (w.operation = "inpainting")
        BY <2>2 DEF SchemaFails
    <2> QED BY <2>1, <2>3
<1>8. check = "pivot_mode" => IdlePivot(w)
    <2> SUFFICES ASSUME w.pivot = "custom", check = "pivot_mode" PROVE FALSE
        BY DEF IdlePivot
    <2>1. CASE Sprite(d)
        <3>1. /\ w.pivot = d.pivot /\ w.pivot_x = d.pivot_x /\ w.pivot_y = d.pivot_y
              /\ d.pivot_x # None /\ d.pivot_y # None
            BY <2>1, WireOf, DraftFacts, NoneFacts DEF w
        <3>2. Within(w.pivot_x, SchemaFraction) /\ Within(w.pivot_y, SchemaFraction)
            BY <1>2, <2>1, <3>1 DEF OddPivot, SchemaFraction, Fraction
        <3> QED BY <1>1, <3>1, <3>2 DEF SchemaFails, PivotModes
    <2>2. CASE ~Sprite(d)
        BY <2>2, WireOf, NoneFacts DEF w, PivotModes
    <2> QED BY <2>1, <2>2
<1>9. check \in {"prompt", "output_name", "provenance", "asset_type", "alpha_threshold",
                 "alpha_feather", "pixels_per_unit", "pivot_mode", "atlas_hint",
                 "seam_blend_width", "palette_color_count", "denoising_strength",
                 "source_image", "mask_image", "operation", "transparency_strategy"}
    BY <1>1 DEF SchemaFails
<1>10. check # "operation"
    <2> SUFFICES ASSUME check = "operation" PROVE FALSE
        OBVIOUS
    <2>1. w.operation \in Operations
        BY WireOf, OperationIsName DEF w
    <2>2. SchemaFails(w).operation
        BY <1>1
    <2> QED BY <2>1, <2>2 DEF SchemaFails
<1> QED BY <1>3, <1>4, <1>5, <1>6, <1>7, <1>8, <1>9, <1>10 DEF Unchecked, w

\* What the editor lets through the service accepts, for any settings the
\* service starts with and any draft: of the checks both of them have none
\* fails but the schema's for the coordinates of an unused pivot.
THEOREM Agreement == Spec => []NoSurprise
<1>1. RequestInv => NoSurprise
    <2> SUFFICES ASSUME RequestInv, stage = "sent", draft # None,
                        against = Document(server),
                        NEW check \in Rejected(wire) \cup Refused(wire, server)
                 PROVE  /\ check \in Unchecked \cup {"pivot_mode"}
                        /\ check = "pivot_mode" => IdlePivot(wire)
                        /\ check = "background_removal" =>
                             Policy(server).removal = "broken" \/ server.remover # "sound"
        BY DEF NoSurprise
    <2>1. /\ server \in Servers /\ draft \in Drafts /\ wire = Wire(draft)
          /\ Clear(draft, server)
        BY DEF RequestInv, Clear
    <2>2. CASE check \in Rejected(wire)
        BY <2>1, <2>2, NothingRejected
    <2>3. CASE check \in Refused(wire, server)
        <3>1. check \in Unchecked /\ check # "pivot_mode"
            BY <2>1, <2>3, NothingRefused DEF Unchecked
        <3>2. ASSUME check = "background_removal"
              PROVE  Policy(server).removal = "broken" \/ server.remover # "sound"
            <4>1. draft.cutout /\ ~Removes(server)
                <5>1. BadRemoval(wire, server)
                    <6>1. Fails(wire, server)["background_removal"]
                        BY <2>3, <3>2, FailingCheck
                    <6> QED BY <6>1 DEF Fails
                <5> QED BY <2>1, <5>1, WireRead DEF BadRemoval
            <4>2. RemovalAdvertised(server)
                <5>1. ~(draft.cutout /\ ~Document(server).text_to_image.processing.removal)
                    BY <2>1, Passed DEF Finds
                <5> QED BY <4>1, <5>1, DocumentBounds
            <4> QED BY <2>1, <4>1, <4>2, PolicyFacts DEF RemovalAdvertised, Removes
        <3> QED BY <3>1, <3>2
    <2> QED BY <2>2, <2>3
<1> QED BY <1>1, RequestAlways, PTL

-----------------------------------------------------------------------------
(* The schema and the service. *)

\* What the numbers of a request are.
LEMMA WireNumbers ==
    ASSUME NEW w \in Wires
    PROVE  /\ w.strength \in Int \cup {None} /\ w.seed \in Int \cup {None}
           /\ w.alpha \in Int \cup {None} /\ w.feather \in Int \cup {None}
           /\ w.ppu \in Int \cup {None} /\ w.pivot_x \in Int \cup {None}
           /\ w.pivot_y \in Int \cup {None} /\ w.blend \in Int \cup {None}
           /\ w.palette \in Int \cup {None}
<1>1. CASE w \in Posts
    BY <1>1, PostsAreRequests
<1>2. ASSUME NEW d \in Drafts, w = Wire(d)
      PROVE  /\ w.strength \in Int \cup {None} /\ w.seed \in Int \cup {None}
             /\ w.alpha \in Int \cup {None} /\ w.feather \in Int \cup {None}
             /\ w.ppu \in Int \cup {None} /\ w.pivot_x \in Int \cup {None}
             /\ w.pivot_y \in Int \cup {None} /\ w.blend \in Int \cup {None}
             /\ w.palette \in Int \cup {None}
    BY <1>2, DraftsAreRequests DEF Wire
<1> QED BY <1>1, <1>2 DEF Wires

\* The ranges of the settings lie within those of the schema.
LEMMA ProcessingFacts ==
    ASSUME NEW s \in Servers
    PROVE  LET p == Policy(s) IN
           /\ p.alpha.min \in 0..255 /\ p.alpha.max \in 0..255
           /\ p.feather.min \in 0..64 /\ p.feather.max \in 0..64
<1>1. s.env \in Environments
    BY DEF Servers
<1>2. ValidProcessing(Policy(s))
    BY <1>1, SettingsAreValid DEF Policy
<1> QED BY <1>2 DEF ValidProcessing

\* A check that the schema shares with the service fails there as well.
LEMMA SchemaImplied ==
    ASSUME NEW w \in Wires, NEW s \in Servers, Refused(w, s) = {},
           NEW check \in Rejected(w)
    PROVE  check \in Ignored(w) \cup Respelt(w, Policy(s))
<1> DEFINE p == Policy(s)
<1>1. SchemaFails(w)[check] /\ check \in DOMAIN SchemaFails(w)
    BY DEF Rejected, Failing
<1>2. /\ ~BadPrompt(w, p) /\ ~BadName(w, p) /\ ~BadSource(w, p) /\ ~BadMask(w, p)
      /\ ~BadStrength(w, p) /\ ~BadProvenance(w) /\ ~BadAssetType(w)
      /\ ~BadThreshold(w, p) /\ ~BadFeather(w, p) /\ ~BadPixels(w, p) /\ ~BadPivot(w, p)
      /\ Requested(w) \in Operations /\ ~BadStrategy(w) /\ ~BadAtlas(w) /\ ~BadBlend(w, p) /\ ~BadPalette(w)
    <2>1. \A c \in DOMAIN Fails(w, s) : ~Fails(w, s)[c]
        BY DEF Refused, Failing
    <2>2. Supports(s, Requested(w)) /\ ~BadStrategy(w)
        BY <2>1 DEF Fails
    <2>3. s.family \subseteq Operations
        BY FamiliesAreOperations DEF Servers
    <2>4. Requested(w) \in Operations
        BY <2>2, <2>3 DEF Supports, Operations
    <2> QED BY <2>1, <2>2, <2>4 DEF Fails
<1> DEFINE R == [operation |-> Requested(w) # w.operation,
                 transparency_strategy |-> Strategy(w) # w.strategy,
                 pivot_mode |-> w.pivot # None /\ Pivot(w, p) # w.pivot,
                 atlas_hint |-> w.atlas # None /\ Strip[w.atlas] # w.atlas]
<1>3. \A c \in DOMAIN R : R[c] => c \in Respelt(w, p)
    BY DEF Respelt, Failing
<1>4. SUFFICES ASSUME check \notin Ignored(w), check \notin Respelt(w, p) PROVE FALSE
    OBVIOUS
<1>5. /\ check = "operation" => w.operation = Requested(w)
      /\ check = "transparency_strategy" => w.strategy = Strategy(w)
      /\ check = "pivot_mode" => w.pivot = None \/ Pivot(w, p) = w.pivot
      /\ check = "atlas_hint" => w.atlas = None \/ Strip[w.atlas] = w.atlas
    BY <1>3, <1>4
<1> HIDE DEF p, R
<1>6. check \in {"prompt", "output_name", "provenance", "asset_type", "alpha_threshold",
                 "alpha_feather", "pixels_per_unit", "pivot_mode", "atlas_hint",
                 "seam_blend_width", "palette_color_count", "denoising_strength",
                 "source_image", "mask_image", "operation", "transparency_strategy"}
    BY <1>1 DEF SchemaFails
<1>7. w.asset_type = "texture" \/ Sprite(w)
    BY <1>2 DEF BadAssetType, AssetTypes, Sprite, SpriteTypes
<1>8. check # "prompt"
    <2>1. ~(w.prompt = 0)
        BY <1>2 DEF BadPrompt
    <2>2. SchemaFails(w).prompt = (w.prompt = 0)
        BY DEF SchemaFails
    <2> QED BY <1>1, <2>1, <2>2
<1>9. check # "output_name"
    <2>1. ~(w.name = 0)
        BY <1>2 DEF BadName
    <2>2. SchemaFails(w).output_name = (w.name = 0 /\ ~w.padded)
        BY DEF SchemaFails
    <2> QED BY <1>1, <2>1, <2>2
<1>10. check # "provenance"
    <2>1. SchemaFails(w).provenance = ~w.provenance
        BY DEF SchemaFails
    <2> QED BY <1>1, <1>2, <2>1 DEF BadProvenance
<1>11. check # "asset_type"
    <2>1. SchemaFails(w).asset_type = (w.asset_type \notin AssetTypes)
        BY DEF SchemaFails
    <2> QED BY <1>1, <1>2, <2>1 DEF BadAssetType
<1>12. check # "operation"
    <2> SUFFICES ASSUME check = "operation" PROVE FALSE
        OBVIOUS
    <2>1. SchemaFails(w).operation = (w.operation \notin Operations)
        BY DEF SchemaFails
    <2> QED BY <1>1, <1>2, <1>5, <2>1
<1>13. check # "transparency_strategy"
    <2> SUFFICES ASSUME check = "transparency_strategy" PROVE FALSE
        OBVIOUS
    <2>1. SchemaFails(w).transparency_strategy = (w.strategy \notin Strategies)
        BY DEF SchemaFails
    <2> QED BY <1>1, <1>2, <1>5, <2>1 DEF BadStrategy
<1>14. w.operation \in Operations => Requested(w) = w.operation
    BY NamesAreRead DEF Requested
<1>15. check # "alpha_threshold"
    <2>1. ~(w.alpha # None /\ w.alpha \notin 0..255)
        <3> SUFFICES ASSUME w.alpha # None PROVE w.alpha \in 0..255
            OBVIOUS
        <3>1. w.alpha \in Int /\ Within(w.alpha, p.alpha)
            BY <1>2, WireNumbers DEF BadThreshold, Or
        <3>2. p.alpha.min \in 0..255 /\ p.alpha.max \in 0..255
            BY ProcessingFacts DEF p
        <3> QED BY <3>1, <3>2, SMTT(30) DEF Within
    <2>2. SchemaFails(w).alpha_threshold = (w.alpha # None /\ w.alpha \notin 0..255)
        BY DEF SchemaFails
    <2> QED BY <1>1, <2>1, <2>2
<1>16. check # "alpha_feather"
    <2>1. ~(w.feather # None /\ w.feather \notin 0..64)
        <3> SUFFICES ASSUME w.feather # None PROVE w.feather \in 0..64
            OBVIOUS
        <3>1. w.feather \in Int /\ Within(w.feather, p.feather)
            BY <1>2, WireNumbers DEF BadFeather, Or
        <3>2. p.feather.min \in 0..64 /\ p.feather.max \in 0..64
            BY ProcessingFacts DEF p
        <3> QED BY <3>1, <3>2 DEF Within
    <2>2. SchemaFails(w).alpha_feather = (w.feather # None /\ w.feather \notin 0..64)
        BY DEF SchemaFails
    <2> QED BY <1>1, <2>1, <2>2
<1>17. check # "seam_blend_width"
    <2>1. ~(w.blend # None /\ ~Within(w.blend, SchemaBlend))
        BY <1>2 DEF BadBlend, Or, SchemaBlend, BlendWidth
    <2>2. SchemaFails(w).seam_blend_width = (w.blend # None /\ ~Within(w.blend, SchemaBlend))
        BY DEF SchemaFails
    <2> QED BY <1>1, <2>1, <2>2
<1>18. check # "palette_color_count"
    <2>1. ~(w.palette # None /\ ~Within(w.palette, SchemaPalette))
        <3> SUFFICES ASSUME w.palette # None PROVE Within(w.palette, SchemaPalette)
            OBVIOUS
        <3>1. Within(w.palette, PaletteSize)
            BY <1>2 DEF BadPalette, Or
        <3> QED BY <3>1 DEF Within, SchemaPalette, PaletteSize
    <2>2. SchemaFails(w).palette_color_count =
            (w.palette # None /\ ~Within(w.palette, SchemaPalette))
        BY DEF SchemaFails
    <2> QED BY <1>1, <2>1, <2>2
<1>19. check # "denoising_strength"
    <2>1. ~(w.strength # None /\ (w.operation = "text_to_image"
                                  \/ ~Within(w.strength, SchemaFraction)))
        <3> SUFFICES ASSUME w.strength # None
                     PROVE  w.operation # "text_to_image" /\ Within(w.strength, SchemaFraction)
            OBVIOUS
        <3>1. Requested(w) # "text_to_image" /\ Within(w.strength, p.strength)
            BY <1>2 DEF BadStrength, WeakOrStrong, Or
        <3>4. w.operation # "text_to_image"
            BY <1>14, <3>1 DEF Operations
        <3>2. w.strength \in Int
            BY WireNumbers
        <3>3. /\ p.strength.min \in Int /\ p.strength.max \in Int
              /\ 0 <= p.strength.min /\ p.strength.max <= 100
            BY PolicyFacts DEF p
        <3> QED BY <3>1, <3>2, <3>3, <3>4 DEF Within, SchemaFraction, One
    <2>2. SchemaFails(w).denoising_strength =
            (w.strength # None /\ (w.operation = "text_to_image"
                                   \/ ~Within(w.strength, SchemaFraction)))
        BY DEF SchemaFails
    <2> QED BY <1>1, <2>1, <2>2
<1>20. check # "source_image"
    <2> SUFFICES ASSUME check = "source_image" PROVE FALSE
        OBVIOUS
    <2>1. SchemaFails(w).source_image
        BY <1>1
    <2>2. w.operation \in Operations /\ (w.source = None) # (w.operation = "text_to_image")
        BY <2>1 DEF SchemaFails
    <2>3. (w.source = None) = (Requested(w) = "text_to_image")
        BY <1>2 DEF BadSource
    <2> QED BY <1>14, <2>2, <2>3
<1>21. check # "mask_image"
    <2> SUFFICES ASSUME check = "mask_image" PROVE FALSE
        OBVIOUS
    <2>1. SchemaFails(w).mask_image
        BY <1>1
    <2>2. w.operation \in Operations /\ (w.mask = None) = (w.operation = "inpainting")
        BY <2>1 DEF SchemaFails
    <2>3. (w.mask = None) = (Requested(w) # "inpainting")
        BY <1>2 DEF BadMask
    <2> QED BY <1>14, <2>2, <2>3
<1>22. ASSUME Sprite(w) PROVE check \notin {"pixels_per_unit", "atlas_hint"}
    <2>1. ~(w.ppu # None /\ w.ppu <= 0)
        BY <1>2, <1>22 DEF BadPixels, Or
    <2>2. w.atlas # None => Strip[w.atlas] \in Hints \cup {""}
        BY <1>2, <1>22 DEF BadAtlas
    <2>3. /\ SchemaFails(w).pixels_per_unit = (w.ppu # None /\ w.ppu <= 0)
          /\ SchemaFails(w).atlas_hint = (w.atlas \notin Hints \cup {None, ""})
        BY DEF SchemaFails
    <2>4. check # "pixels_per_unit"
        BY <1>1, <2>1, <2>3
    <2>5. check # "atlas_hint"
        <3> SUFFICES ASSUME check = "atlas_hint" PROVE FALSE
            OBVIOUS
        <3> QED BY <1>1, <1>5, <2>2, <2>3
    <2> QED BY <2>4, <2>5
<1>23. ASSUME Sprite(w) PROVE check = "pivot_mode" => IdlePivot(w)
    <2> SUFFICES ASSUME w.pivot = "custom", check = "pivot_mode" PROVE FALSE
        BY DEF IdlePivot
    <2>1. Pivot(w, p) = "custom"
        BY NamesAreRead DEF Pivot, PivotModes
    <2>2. \A c \in {w.pivot_x, w.pivot_y} : c # None /\ Within(c, SchemaFraction)
        BY <1>2, <1>23, <2>1 DEF BadPivot, Fraction, SchemaFraction
    <2>3. SchemaFails(w).pivot_mode =
            (\/ w.pivot # None /\ w.pivot \notin PivotModes
             \/ \E c \in {w.pivot_x, w.pivot_y} :
                  IF c = None THEN w.pivot = "custom" ELSE ~Within(c, SchemaFraction))
        BY DEF SchemaFails
    <2> QED BY <1>1, <2>2, <2>3 DEF PivotModes
<1>24. w.asset_type = "texture" => ~Sprite(w)
    BY DEF Sprite, SpriteTypes
<1>25. check \notin {"pixels_per_unit", "pivot_mode", "atlas_hint"}
    <2>1. CASE w.asset_type = "texture"
        BY <1>4, <2>1 DEF Ignored
    <2>2. CASE Sprite(w)
        <3>1. check \notin {"pixels_per_unit", "atlas_hint"}
            BY <1>22, <2>2
        <3>2. ASSUME check = "pivot_mode" PROVE FALSE
            BY <1>23, <1>24, <1>4, <2>2, <3>2 DEF Ignored
        <3> QED BY <3>1, <3>2
    <2> QED BY <1>7, <2>1, <2>2
<1> QED BY <1>6, <1>8, <1>9, <1>10, <1>11, <1>15, <1>16, <1>17, <1>18, <1>19, <1>20, <1>21,
           <1>12, <1>13, <1>25

\* The schema and the service agree, for any settings the service starts with
\* and any request, of the editor or of another client: what the schema refuses
\* the service would refuse too, or does not look at, or has read as another text.
THEOREM SchemaAndService == Spec => []SchemaAgrees
<1>1. RequestInv => SchemaAgrees
    BY SchemaImplied DEF RequestInv, SchemaAgrees
<1> QED BY <1>1, RequestAlways, PTL

-----------------------------------------------------------------------------
(* What the editor blocks. *)

\* A side the editor refuses is one the service refuses.
LEMMA OddSideIsBad ==
    ASSUME NEW v, NEW side, OddSide(v, side)
    PROVE  BadSide(v, side)
BY DEF OddSide, BadSide

LEMMA OddImageIsBad ==
    ASSUME NEW p, NEW image, image # None, NEW bytes,
           OddImage(image, [bytes |-> bytes, dimensions |-> Dimensions(p)])
    PROVE  BadImage(image, bytes, p)
BY OddSideIsBad DEF OddImage, BadImage, Dimensions

\* A draft the service accepts has no issue with its images.
LEMMA SoundPictures ==
    ASSUME NEW d \in Drafts, NEW s \in Servers,
           ~BadSource(Wire(d), Policy(s)), ~BadMask(Wire(d), Policy(s)),
           ~BadStrength(Wire(d), Policy(s)),
           ~(d.inpaint /\ d.mask # None
               /\ d.mask.luminance \in EmptyMaskThreshold .. EditorMaskThreshold - 1)
    PROVE  LET doc == Document(s) IN
           /\ ~(Masked(d) /\ OddImage(d.source, Section(d, doc).source))
           /\ ~OddMask(d, doc.inpainting.mask)
           /\ ~(Masked(d) /\ ~Within(d.strength, Section(d, doc).strength))
<1> DEFINE w == Wire(d)
           p == Policy(s)
           doc == Document(s)
<1>1. /\ ~BadSource(w, p) /\ ~BadMask(w, p) /\ ~BadStrength(w, p)
      /\ Requested(w) = Operation(d)
      /\ w.source = IF Masked(d) THEN d.source ELSE None
      /\ w.mask = IF d.inpaint THEN d.mask ELSE None
      /\ w.strength = IF Masked(d) THEN d.strength ELSE None
    BY WireOf, WireRead
<1>2. Masked(d) => /\ Section(d, doc).source = SourceImage(p)
                   /\ Section(d, doc).strength.min = p.strength.min
                   /\ Section(d, doc).strength.max = p.strength.max
    BY DocumentBounds DEF Masked, Section
<1>3. /\ SourceImage(p) = [bytes |-> p.source_bytes, dimensions |-> Dimensions(p)]
      /\ MaskImage(p) = [bytes |-> p.mask_bytes, dimensions |-> Dimensions(p)]
      /\ doc.inpainting.mask = MaskImage(p)
    BY DocumentBounds DEF SourceImage, MaskImage
<1> HIDE DEF w, p, doc
<1>4. ASSUME Masked(d)
      PROVE  /\ d.source # None /\ ~BadImage(d.source, p.source_bytes, p)
             /\ Within(d.strength, p.strength)
    <2>1. Requested(w) # "text_to_image" /\ w.source = d.source /\ w.strength = d.strength
        BY <1>1, <1>4 DEF Masked, Operation
    <2>2. d.strength # None
        BY DraftFacts, NoneFacts
    <2> QED BY <1>1, <2>1, <2>2 DEF BadSource, BadStrength, WeakOrStrong, Or
<1>5. ~(Masked(d) /\ OddImage(d.source, Section(d, doc).source))
    BY <1>2, <1>3, <1>4, OddImageIsBad
<1>6. ASSUME d.inpaint
      PROVE  /\ d.mask # None /\ ~BadImage(d.mask, p.mask_bytes, p)
             /\ ~BlackMask(d.mask) /\ ~(d.source # None /\ SizesDiffer(d.source, d.mask))
    <2>1. Requested(w) = "inpainting" /\ w.mask = d.mask /\ w.source = d.source
        BY <1>1, <1>6 DEF Masked, Operation
    <2> QED BY <1>1, <2>1 DEF BadMask
<1>7. ASSUME d.inpaint PROVE ~(d.mask.luminance < EditorMaskThreshold)
    <2>1. d.mask \in Images
        BY <1>6, <1>7, DraftFacts
    <2>2. d.mask.luminance \in Int
        BY <2>1 DEF Images
    <2>3. ~(d.mask.luminance < 1) /\ d.mask.luminance \notin 1..7
        BY <1>6, <1>7 DEF BlackMask, EmptyMaskThreshold, EditorMaskThreshold
    <2> QED BY <2>2, <2>3 DEF EditorMaskThreshold
<1>8. ~OddMask(d, doc.inpainting.mask)
    BY <1>3, <1>6, <1>7, OddImageIsBad DEF OddMask
<1>9. ~(Masked(d) /\ ~Within(d.strength, Section(d, doc).strength))
    BY <1>2, <1>4 DEF Within
<1> QED BY <1>5, <1>8, <1>9 DEF doc

\* A draft the service accepts has no issue, where the editor is not stricter.
LEMMA NothingBlocked ==
    ASSUME NEW d \in Drafts, server \in Servers, Refused(Wire(d), server) = {},
           Rejected(Wire(d)) = {}, ~Stricter(d)
    PROVE  Issues(d, Document(server)) = {}
<1> DEFINE w == Wire(d)
           s == server
           p == Policy(s)
           doc == Document(s)
<1>1. /\ ~BadPrompt(w, p) /\ ~BadNegative(w, p) /\ ~BadName(w, p)
      /\ ~BadSide(w.width, p.width) /\ ~BadSide(w.height, p.height)
      /\ ~BadSteps(w, p) /\ ~BadGuidance(w, p) /\ ~BadSeed(w, p)
      /\ Supports(s, Requested(w))
      /\ ~BadSource(w, p) /\ ~BadMask(w, p) /\ ~BadStrength(w, p)
      /\ ~BadAssetType(w) /\ ~BadRemoval(w, s) /\ ~BadPixels(w, p) /\ ~BadPivot(w, p)
      /\ ~BadSeamSize(w) /\ ~BadSeams(w, s)
    <2>1. \A c \in DOMAIN Fails(w, s) : ~Fails(w, s)[c]
        BY DEF Refused, Failing
    <2> QED BY <2>1 DEF Fails
<1>2. /\ Advertised(s) = s.family /\ ~(d.inpaint /\ d.img2img)
      /\ ~(d.inpaint /\ d.mask # None
             /\ d.mask.luminance \in EmptyMaskThreshold .. EditorMaskThreshold - 1)
      /\ \A text \in {d.prompt, d.negative, d.name} : ~(text.units > text.points)
    BY DEF Stricter
<1>3. /\ ~(Masked(d) /\ OddImage(d.source, Section(d, doc).source))
      /\ ~OddMask(d, doc.inpainting.mask)
      /\ ~(Masked(d) /\ ~Within(d.strength, Section(d, doc).strength))
    BY <1>1, <1>2, SoundPictures
<1>4. doc.text_to_image.supported /\ Section(d, doc).supported
    <2>1. "text_to_image" \in s.family
        BY FamiliesAreOperations DEF Servers
    <2>2. doc.text_to_image.supported
        BY <1>2, <2>1 DEF Document, TextToImage
    <2>3. d.inpaint => "inpainting" \in s.family
        BY <1>1, WireRead DEF Supports, Operation
    <2>4. ~d.inpaint /\ d.img2img => "image_to_image" \in s.family
        BY <1>1, WireRead DEF Supports, Operation
    <2> QED BY <1>2, <2>2, <2>3, <2>4, DocumentBounds DEF Section
<1> HIDE DEF w, s, p, doc
<1>5. /\ ~OddSide(d.width, p.width) /\ ~OddSide(d.height, p.height)
      /\ Within(d.steps, p.steps) /\ Within(d.guidance, p.guidance)
      /\ d.seed = None \/ Within(d.seed, p.seed)
      /\ d.asset_type \in AssetTypes /\ ~BadSeamSize(d)
      /\ d.repair => SeamsAvailable(s)
      /\ d.cutout => RemovalAdvertised(s)
    <2>1. /\ w.width = d.width /\ w.height = d.height /\ w.steps = d.steps
          /\ w.guidance = d.guidance /\ w.seed = d.seed /\ w.asset_type = d.asset_type
          /\ w.repair = d.repair
        BY WireOf DEF w
    <2>2. ~OddSide(d.width, p.width) /\ ~OddSide(d.height, p.height)
        BY <1>1, <2>1, OddSideIsBad
    <2>3. /\ Within(d.steps, p.steps) /\ Within(d.guidance, p.guidance)
          /\ d.seed = None \/ Within(d.seed, p.seed)
        BY <1>1, <2>1 DEF BadSteps, BadGuidance, BadSeed
    <2>4. d.asset_type \in AssetTypes /\ ~BadSeamSize(d) /\ (d.repair => SeamsAvailable(s))
        BY <1>1, <2>1 DEF BadAssetType, BadSeamSize, BadSeams
    <2>5. d.cutout => RemovalAdvertised(s)
        <3>1. d.cutout => Strategy(w) = "background_removal"
            BY WireRead DEF w
        <3> QED BY <1>1, <3>1 DEF BadRemoval, Removes, RemovalAdvertised, p
    <2> QED BY <2>2, <2>3, <2>4, <2>5
<1>6. /\ d.prompt.units # 0 /\ ~(d.prompt.units > p.prompt)
      /\ ~(d.negative.units > p.negative)
      /\ d.name.units # 0 /\ ~(d.name.units > p.name)
    <2>1. /\ w.prompt = d.prompt.points /\ w.negative = d.negative.points
          /\ w.name = d.name.points
        BY WireOf DEF w
    <2>2. /\ d.prompt.units = d.prompt.points /\ d.negative.units = d.negative.points
          /\ d.name.units = d.name.points
        BY <1>2, DraftFacts
    <2> QED BY <1>1, <2>1, <2>2 DEF BadPrompt, BadNegative, BadName
<1>7. Sprite(d) => ~(d.ppu <= 0) /\ ~OddPivot(d)
    <2> SUFFICES ASSUME Sprite(d) PROVE ~(d.ppu <= 0) /\ ~OddPivot(d)
        OBVIOUS
    <2>1. /\ Sprite(w) /\ w.ppu = d.ppu /\ w.pivot = d.pivot
          /\ w.pivot_x = d.pivot_x /\ w.pivot_y = d.pivot_y
        BY WireOf DEF w
    <2>2. d.ppu # None /\ d.pivot # None
        BY DraftsAreRequests, NoneFacts
    <2>3. ~(d.ppu <= 0)
        BY <1>1, <2>1, <2>2 DEF BadPixels, Or
    <2>4. d.pivot \in PivotModes
        <3>1. ~SchemaFails(w).pivot_mode
            <4>1. "pivot_mode" \in DOMAIN SchemaFails(w)
                BY DEF SchemaFails
            <4> QED BY <4>1 DEF Rejected, Failing, w
        <3>2. ~(w.pivot # None /\ w.pivot \notin PivotModes)
            BY <3>1 DEF SchemaFails
        <3> QED BY <2>1, <2>2, <3>2
    <2>5. ~OddPivot(d)
        <3>1. Pivot(w, p) = d.pivot
            BY <2>4, WireRead DEF w
        <3> QED BY <1>1, <2>1, <2>4, <3>1 DEF BadPivot, OddPivot
    <2> QED BY <2>3, <2>5
<1>8. \A check \in DOMAIN Finds(d, doc) : ~Finds(d, doc)[check]
    <2>1. /\ ~OddSide(d.width, doc.text_to_image.dimensions.width)
          /\ ~OddSide(d.height, doc.text_to_image.dimensions.height)
          /\ Within(d.steps, doc.text_to_image.steps)
          /\ Within(d.guidance, doc.text_to_image.guidance)
          /\ d.seed = None \/ Within(d.seed, doc.text_to_image.seed)
          /\ d.asset_type \in doc.text_to_image.asset_types
          /\ d.repair => doc.text_to_image.processing.seams
          /\ d.cutout => doc.text_to_image.processing.removal
          /\ d.prompt.units # 0 /\ ~(d.prompt.units > doc.text_to_image.prompt)
          /\ ~(d.negative.units > doc.text_to_image.negative)
          /\ d.name.units # 0 /\ ~(d.name.units > doc.text_to_image.name)
        BY <1>5, <1>6, DocumentBounds DEF Within, doc, p
    <2>2. SUFFICES ASSUME NEW check \in DOMAIN Finds(d, doc), Finds(d, doc)[check]
                   PROVE  FALSE
        OBVIOUS
    <2>3. ~Finds(d, doc).profile
        BY <1>4 DEF Finds
    <2>4. ~Finds(d, doc).operation
        BY <1>2, <1>4 DEF Finds
    <2>5. ~Finds(d, doc).source_image
        BY <1>3 DEF Finds
    <2>6. ~Finds(d, doc).mask_image
        BY <1>3 DEF Finds
    <2>7. ~Finds(d, doc).denoising_strength
        BY <1>3 DEF Finds
    <2>8. ~Finds(d, doc).asset_type
        BY <2>1 DEF Finds
    <2>9. ~Finds(d, doc).background_removal
        BY <2>1 DEF Finds
    <2>10. ~Finds(d, doc).seam_size
        BY <1>5 DEF Finds
    <2>11. ~Finds(d, doc).seam_inpaint
        BY <2>1 DEF Finds
    <2>12. ~Finds(d, doc).pixels_per_unit
        BY <1>7 DEF Finds
    <2>13. ~Finds(d, doc).pivot_mode
        BY <1>7 DEF Finds
    <2>14. ~Finds(d, doc).width
        BY <2>1 DEF Finds
    <2>15. ~Finds(d, doc).height
        BY <2>1 DEF Finds
    <2>16. ~Finds(d, doc).steps
        BY <2>1 DEF Finds
    <2>17. ~Finds(d, doc).guidance_scale
        BY <2>1 DEF Finds
    <2>18. ~Finds(d, doc).seed
        BY <2>1 DEF Finds
    <2>19. ~Finds(d, doc).prompt
        BY <2>1 DEF Finds
    <2>20. ~Finds(d, doc).negative_prompt
        BY <2>1 DEF Finds
    <2>21. ~Finds(d, doc).output_name
        BY <2>1 DEF Finds
    <2>22. check \in {"profile", "operation", "source_image", "mask_image",
                     "denoising_strength", "asset_type", "background_removal", "seam_size",
                     "seam_inpaint", "pixels_per_unit", "pivot_mode", "width", "height",
                     "steps", "guidance_scale", "seed", "prompt", "negative_prompt",
                     "output_name"}
        BY <2>2 DEF Finds
    <2> QED BY <2>2, <2>3, <2>4, <2>5, <2>6, <2>7, <2>8, <2>9, <2>10, <2>11, <2>12, <2>13, <2>14, <2>15, <2>16, <2>17, <2>18, <2>19, <2>20, <2>21, <2>22
<1> QED BY <1>8 DEF Issues, Failing, doc, s

\* The editor blocks nothing the service would accept, for any settings and any
\* draft, but for the four things it is stricter about.
THEOREM NoneBlockedInVain == Spec => []NoFalseAlarm
<1>1. RequestInv => NoFalseAlarm
    BY NothingBlocked DEF RequestInv, NoFalseAlarm
<1> QED BY <1>1, RequestAlways, PTL

-----------------------------------------------------------------------------
(* Type correctness. *)

\* The request under way; the cache is typed by CacheInv.
RequestTyped ==
    /\ stage \in Stages
    /\ draft \in Drafts \cup {None} /\ against \in Documents \cup {None}
    /\ wire \in Wires \cup {None}
    /\ accepted \in Servers \cup {None} /\ seed \in Int \cup {None}
    /\ stage \in {"sent", "queued"} <=> wire # None
    /\ stage = "queued" <=> seed # None
    /\ stage = "queued" <=> accepted # None
    /\ draft = None <=> against = None

LEMMA Closed ==
    ASSUME RequestTyped, NEW outcome \in {"refused", "done", "failed"}, Close(outcome)
    PROVE  RequestTyped'
BY DEF RequestTyped, Close, Stages

LEMMA RequestTypeStep ==
    ASSUME RequestTyped, CacheInv, [Next]_vars
    PROVE  RequestTyped'
<1>1. /\ None \notin Servers /\ None \notin Drafts /\ None \notin Wires
      /\ None \notin Documents /\ None \notin Int
    BY NoneIsNoRequest, NoneIsNoDocument, NoneIsNoValue DEF Wires
<1>2. ASSUME UNCHANGED requestVars PROVE RequestTyped'
    BY <1>2 DEF RequestTyped, requestVars
<1>3. CASE UNCHANGED vars
    BY <1>2, <1>3 DEF vars, requestVars
<1>4. CASE \/ EnsureBatch \/ ServerChanges
           \/ \E w \in Windows : Refresh(w) \/ GetCapabilities(w) \/ Receive(w) \/ Lose(w)
    BY <1>2, <1>4, ServerAlone DEF EnsureBatch, Refresh, GetCapabilities, Receive, Lose
<1>5. CASE Generate
    BY <1>5 DEF Generate, RequestTyped, Stages, Resting
<1>6. CASE GiveUp
    BY <1>6 DEF GiveUp, RequestTyped, Stages
<1>7. ASSUME NEW d \in Drafts, Check(d) PROVE RequestTyped'
    <2>1. /\ stage = "ensuring" /\ draft' = d /\ against' = cache.doc
          /\ accepted' = accepted /\ seed' = seed
          /\ \/ stage' = "sent" /\ wire' = Wire(d)
             \/ stage' = "blocked" /\ wire' = wire
        BY <1>7 DEF Check
    <2>2. against' \in Documents
        BY <1>7 DEF Check, Unusable, CacheInv
    <2>3. Wire(d) \in Wires
        BY DEF Wires
    <2>4. draft' # None /\ against' # None
        BY <1>1, <2>1, <2>2
    <2>5. CASE stage' = "sent" /\ wire' = Wire(d)
        BY <1>1, <2>1, <2>2, <2>3, <2>4, <2>5 DEF RequestTyped, Stages
    <2>6. CASE stage' = "blocked" /\ wire' = wire
        BY <1>1, <2>1, <2>2, <2>4, <2>6 DEF RequestTyped, Stages
    <2> QED BY <2>1, <2>5, <2>6
<1>8. ASSUME NEW w \in Posts, Post(w) PROVE RequestTyped'
    <2>1. w \in Wires /\ w # None
        BY <1>1 DEF Wires
    <2>2. /\ stage \in Resting /\ stage' = "sent" /\ wire' = w
          /\ draft' = None /\ against' = None /\ accepted' = accepted /\ seed' = seed
        BY <1>8 DEF Post
    <2> QED BY <2>1, <2>2 DEF RequestTyped, Stages, Resting
<1>9. CASE Submit
    <2>1. CASE Rejected(wire) \cup Refused(wire, server) = {}
        <3>1. /\ stage = "sent" /\ stage' = "queued" /\ accepted' = server
              /\ UNCHANGED <<draft, against, wire>>
            BY <1>9, <2>1 DEF Submit
        <3>2. PICK drawn \in Seeds(wire, Policy(server)) : seed' = drawn
            BY <1>9, <2>1 DEF Submit
        <3>3. wire \in Wires
            BY <3>1 DEF RequestTyped
        <3>4. drawn \in Int
            <4>1. CASE wire.seed = None
                BY <3>2, <4>1 DEF Seeds
            <4>2. CASE wire.seed # None
                BY <3>2, <3>3, <4>2, WireNumbers DEF Seeds
            <4> QED BY <4>1, <4>2
        <3>5. server \in Servers /\ server # None
            BY <1>1 DEF CacheInv
        <3> QED BY <1>1, <3>1, <3>2, <3>4, <3>5 DEF RequestTyped, Stages
    <2>2. CASE Rejected(wire) \cup Refused(wire, server) # {}
        <3>1. Close("refused")
            BY <1>9, <2>2 DEF Submit
        <3> QED BY <3>1, Closed
    <2> QED BY <2>1, <2>2
<1>10. CASE Execute
    <2>1. Close("done") \/ Close("failed")
        BY <1>10 DEF Execute
    <2> QED BY <2>1, Closed
<1> QED BY <1>3, <1>4, <1>5, <1>6, <1>7, <1>8, <1>9, <1>10 DEF Next, ServerChanges

LEMMA BudgetStep ==
    ASSUME changes \in 0..MaxChanges, [Next]_vars
    PROVE  changes' \in 0..MaxChanges
<1>1. ASSUME NEW s, Change(s) PROVE changes' \in 0..MaxChanges
    BY <1>1, MaxChangesIsNat DEF Change
<1>2. CASE ServerChanges
    BY <1>1, <1>2 DEF ServerChanges, Activate, BreakSeams, MendSeams, TurnRemover, Restart
<1>3. CASE UNCHANGED changes
    BY <1>3
<1> QED BY <1>2, <1>3
        DEF Next, ServerChanges, vars, Refresh, GetCapabilities, Receive, Lose, EnsureBatch, Generate,
            GiveUp, Check, Post, Submit, Execute

\* Every variable keeps its shape, and what is known of a request goes with its
\* stage: a draft with the document it was checked against, a seed and the
\* server that accepted it with a queued job and with no other.
THEOREM TypeCorrect == Spec => []TypeOK
<1> DEFINE Inv == CacheInv /\ RequestTyped /\ changes \in 0..MaxChanges
<1>1. Init => Inv
    <2> SUFFICES ASSUME Init PROVE Inv
        OBVIOUS
    <2>1. CacheInv
        BY CacheStart
    <2>2. RequestTyped
        BY DEF Init, RequestTyped, Stages
    <2>3. changes \in 0..MaxChanges
        BY MaxChangesIsNat DEF Init
    <2> QED BY <2>1, <2>2, <2>3
<1>2. Inv /\ [Next]_vars => Inv'
    BY CacheStep, RequestTypeStep, BudgetStep, NoneIsNoDocument
<1>3. Inv => TypeOK
    <2> SUFFICES ASSUME Inv PROVE TypeOK
        OBVIOUS
    <2>1. (stage \in {"sent", "queued"}) = (wire # None)
        BY DEF RequestTyped
    <2>2. (stage = "queued") = (seed # None) /\ (stage = "queued") = (accepted # None)
        BY DEF RequestTyped
    <2>3. (draft = None) = (against = None)
        BY DEF RequestTyped
    <2> QED BY <2>1, <2>2, <2>3 DEF TypeOK, RequestTyped, CacheInv, Wires
<1> QED BY <1>1, <1>2, <1>3, PTL DEF Spec

=============================================================================
