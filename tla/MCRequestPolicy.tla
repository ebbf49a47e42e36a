--------------------------- MODULE MCRequestPolicy ---------------------------
(* A small instance of RequestPolicy: three environments, drafts and posts that *)
(* differ from an ordinary one in a field or two.                             *)
EXTENDS RequestPolicy, TLC

Usual ==
    [width |-> [min |-> 256, max |-> 768, multiple |-> 64],
     height |-> [min |-> 256, max |-> 768, multiple |-> 64],
     steps |-> [min |-> 1, max |-> 50, default |-> 25],
     guidance |-> [min |-> 1, max |-> 20, default |-> 7],
     strength |-> [min |-> 5, max |-> 100, default |-> 75],
     seed |-> [min |-> 0, max |-> 1],
     prompt |-> 10, negative |-> 4, name |-> 6,
     source_bytes |-> 5, mask_bytes |-> 3, png |-> TRUE,
     alpha |-> [min |-> 0, max |-> 255, default |-> 16],
     feather |-> [min |-> 0, max |-> 8, default |-> 0],
     ppu |-> 100, pivot |-> "center", blend |-> 64,
     removal |-> "ready", seams |-> TRUE, version |-> "supported"]

\* Narrower bounds, and defaults that lie outside them.
Odd == [Usual EXCEPT !.width.min = 512, !.steps.max = 25, !.seed = [min |-> 1, max |-> 2],
                     !.alpha.max = 8, !.png = FALSE, !.pivot = "top",
                     !.removal = "absent", !.seams = FALSE]

\* A newer program, without seam repair, whose background removal is installed
\* without weights.
Newer == [Usual EXCEPT !.removal = "broken", !.seams = FALSE, !.version = "newer"]

MCEnvironments == {"usual", "odd", "newer"}
MCSettings == [usual |-> Usual, odd |-> Odd, newer |-> Newer]
MCFamilies == {Operations, {"text_to_image"}}
MCManifests == {{}, {"inpainting"}}

\* The texts of choices: names, and other spellings of them.
Unblanked == [given \in {" ui ", "None "} |-> IF given = " ui " THEN "ui" ELSE "None"]
Lowered == [given \in {"Center", "Inpainting", "None"} |->
              IF given = "Center" THEN "center"
              ELSE IF given = "None" THEN "none" ELSE "inpainting"]
MCTexts == Operations \cup Strategies \cup PivotModes \cup DOMAIN Unblanked
              \cup DOMAIN Lowered \cup {"", "top", "ui", "b/d"}
MCStrip == [text \in MCTexts |-> IF text \in DOMAIN Unblanked THEN Unblanked[text] ELSE text]
MCLower == [text \in MCTexts |-> IF text \in DOMAIN Lowered THEN Lowered[text] ELSE text]
MCHints == {"ui"}

Text(n) == [units |-> n, points |-> n]
Image(side, bytes, luminance) ==
    [width |-> side, height |-> side, bytes |-> bytes, luminance |-> luminance]

Draft ==
    [inpaint |-> FALSE, img2img |-> FALSE, source |-> None, mask |-> None,
     width |-> 512, height |-> 512, steps |-> 25, guidance |-> 7, strength |-> 75,
     seed |-> None, prompt |-> Text(5), negative |-> Text(0), name |-> Text(4),
     plain |-> TRUE, provenance |-> TRUE, asset_type |-> "texture",
     cutout |-> FALSE, repair |-> FALSE, alpha |-> 16, feather |-> 0, ppu |-> 100,
     pivot |-> "center", pivot_x |-> 50, pivot_y |-> 50, atlas |-> "",
     blend |-> 64, palette |-> 16]

Icon == [Draft EXCEPT !.asset_type = "icon"]
Variation == [Draft EXCEPT !.img2img = TRUE, !.source = Image(512, 5, 200)]
Regeneration == [Draft EXCEPT !.inpaint = TRUE, !.source = Image(512, 5, 200),
                        !.mask = Image(512, 3, 200)]

MCDrafts ==
    {Draft, Icon, Variation, Regeneration,
     [Draft EXCEPT !.width = 520], [Draft EXCEPT !.height = 832],
     [Draft EXCEPT !.steps = 26], [Draft EXCEPT !.guidance = 0],
     [Draft EXCEPT !.seed = 2], [Draft EXCEPT !.prompt = Text(0)],
     [Draft EXCEPT !.prompt = [units |-> 12, points |-> 10]],
     [Draft EXCEPT !.negative = Text(5)], [Draft EXCEPT !.name = Text(7)],
     [Draft EXCEPT !.plain = FALSE], [Draft EXCEPT !.cutout = TRUE],
     [Draft EXCEPT !.repair = TRUE], [Draft EXCEPT !.repair = TRUE, !.width = 256],
     [Draft EXCEPT !.blend = 4], [Draft EXCEPT !.palette = 1],
     [Draft EXCEPT !.ppu = 0, !.pivot_x = 120],
     [Icon EXCEPT !.cutout = TRUE], [Icon EXCEPT !.alpha = 300],
     [Icon EXCEPT !.feather = 9], [Icon EXCEPT !.ppu = 0],
     [Icon EXCEPT !.pivot = "top"], [Icon EXCEPT !.pivot_x = 120],
     [Icon EXCEPT !.pivot = "custom", !.pivot_x = 120],
     [Icon EXCEPT !.atlas = "b/d"],
     [Variation EXCEPT !.source = None], [Variation EXCEPT !.source = Image(512, 6, 200)],
     [Variation EXCEPT !.source = Image(500, 5, 200)], [Variation EXCEPT !.strength = 4],
     [Variation EXCEPT !.inpaint = TRUE, !.mask = Image(512, 3, 200)],
     [Regeneration EXCEPT !.mask = None], [Regeneration EXCEPT !.mask = Image(512, 3, 0)],
     [Regeneration EXCEPT !.mask = Image(512, 3, 4)], [Regeneration EXCEPT !.mask = Image(512, 4, 200)],
     [Regeneration EXCEPT !.mask = Image(576, 3, 200)]}

\* What the schema fills in for a post that names only a prompt.
Bare == [Wire(Draft) EXCEPT !.blend = None, !.palette = None]
BareIcon == [Bare EXCEPT !.asset_type = "icon"]

MCPosts ==
    {Bare, BareIcon,
     [Bare EXCEPT !.name = 0, !.padded = TRUE], [Bare EXCEPT !.provenance = FALSE],
     [Bare EXCEPT !.blend = 100], [Bare EXCEPT !.blend = 129],
     [Bare EXCEPT !.palette = 200], [Bare EXCEPT !.palette = 257],
     [Bare EXCEPT !.atlas = "b/d"], [Bare EXCEPT !.strength = 50],
     [BareIcon EXCEPT !.alpha = 256], [BareIcon EXCEPT !.pivot = "custom"],
     [BareIcon EXCEPT !.atlas = "b/d"],
     [Bare EXCEPT !.strategy = "None "], [Bare EXCEPT !.strategy = "top"],
     [BareIcon EXCEPT !.pivot = "Center"], [BareIcon EXCEPT !.pivot = ""],
     [BareIcon EXCEPT !.atlas = " ui "], [BareIcon EXCEPT !.atlas = "ui"],
     [Wire(Regeneration) EXCEPT !.operation = "Inpainting"],
     [Wire(Variation) EXCEPT !.mask = Image(512, 3, 200)],
     [Wire(Variation) EXCEPT !.strength = None], [Wire(Regeneration) EXCEPT !.strength = 101],
     [Wire(Regeneration) EXCEPT !.mask = None]}
=============================================================================
