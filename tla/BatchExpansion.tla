--------------------------- MODULE BatchExpansion ---------------------------
(***************************************************************************)
(* The expansion of a batch request into job specifications                *)
(* (services/batch_expansion.py): prompts x base seeds x variations, in    *)
(* this order, each with a seed and an output name.  It is a function of   *)
(* the request and the settings, but for the random base seed; the state   *)
(* machine applies it once to a request.                                   *)
(***************************************************************************)
EXTENDS Integers, SequencesExt

CONSTANTS
    Requests,       \* the requests made
    SettingsSet,    \* the settings the service may run with
    None            \* a seed that was not given

\* A prompt is blank, too long, or one of the texts that pass.  The seeds of
\* a request may be missing or anything the client wrote.
RequestType ==
    [prompts : Seq(STRING), mode : STRING, variations : Int,
     seed : Int \cup {None}, start : Int \cup {None}, end : Int \cup {None},
     name : Seq(STRING)]

SettingsType ==
    [minSeed : Nat, maxSeed : Nat, maxJobs : Nat, maxPrompts : Nat,
     maxVariations : Nat, maxLength : Nat \ {0}]

ASSUME BatchExpansionAssumption ==
    /\ Requests \subseteq RequestType
    /\ SettingsSet \subseteq SettingsType
    /\ None \notin Int

VARIABLES
    request,        \* the request
    settings,       \* the settings it meets
    plan            \* the answer: a plan, or the kind of its rejection

vars == <<request, settings, plan>>

-----------------------------------------------------------------------------
(* Output names.                                                           *)

Numeral == <<"0", "1", "2", "3", "4", "5", "6", "7", "8", "9">>

\* str(n), digit by digit.
Digits[n \in Nat] ==
    IF n < 10 THEN <<Numeral[n + 1]>>
    ELSE Append(Digits[n \div 10], Numeral[(n % 10) + 1])

\* f"{n:02d}"
TwoDigits(n) == IF n < 10 THEN <<"0", Numeral[n + 1]>> ELSE Digits[n]

\* Variant: the slot of the prompt is left out of the name.
SuffixWithoutPrompt(p, seed, v) ==
    <<"_", "s">> \o Digits[seed] \o <<"_", "v">> \o TwoDigits(v)

Suffix(p, seed, v) ==
    <<"_", "p">> \o TwoDigits(p) \o <<"_", "s">> \o Digits[seed]
        \o <<"_", "v">> \o TwoDigits(v)

\* str.rstrip("_-.")
Stripped(s) ==
    LET kept == {i \in 1..Len(s) : s[i] \notin {"_", "-", "."}}
    IN  SubSeq(s, 1, IF kept = {} THEN 0 ELSE Max(kept))

LastOf(s, length) == SubSeq(s, Len(s) - length + 1, Len(s))

\* build_output_name: the suffix is kept whole while it fits.
OutputName(stem, suffix, length) ==
    LET room    == length - Len(suffix)
        trimmed == Stripped(SubSeq(stem, 1, Min({room, Len(stem)})))
    IN  IF room <= 0 THEN LastOf(suffix, length)
        ELSE IF trimmed # <<>> THEN trimmed \o suffix
        ELSE IF room < 3 THEN suffix
        ELSE <<"t", "e", "x">> \o suffix

-----------------------------------------------------------------------------
(* Seeds.                                                                  *)

ValidPrompts(req, set) ==
    /\ Len(req.prompts) \in 1..set.maxPrompts
    /\ \A i \in 1..Len(req.prompts) : req.prompts[i] \notin {"blank", "too long"}

InRange(seed, set) == seed # None /\ seed \in set.minSeed..set.maxSeed

SequentialBases(req, set) ==
    IF InRange(req.start, set) /\ InRange(req.end, set) /\ req.start <= req.end
    THEN {[i \in 1..(req.end - req.start + 1) |-> req.start + i - 1]}
    ELSE {}

\* Variant: one seed too few is left for the last variation.
RandomBasesShort(req, set) ==
    {<<seed>> : seed \in set.minSeed..(set.maxSeed - req.variations)}

\* The random base leaves room for the variations.
RandomBases(req, set) ==
    {<<seed>> : seed \in set.minSeed..(set.maxSeed - (req.variations - 1))}

\* resolve_base_seeds: the base seeds it may return, none when it refuses.
BaseSeeds(req, set) ==
    CASE req.mode = "sequential" -> SequentialBases(req, set)
      [] req.mode \in {"fixed", "random"} /\ req.seed # None ->
            IF InRange(req.seed, set) THEN {<<req.seed>>} ELSE {}
      [] req.mode = "random" /\ req.seed = None -> RandomBases(req, set)
      [] OTHER -> {}

\* Variants: variations one seed apart, or one seed too far apart.
ActualSeedAdjacent(base, variation, stride) == base + variation
ActualSeedSparse(base, variation, stride) == base + variation * (stride + 1)

ActualSeed(base, variation, stride) == base + variation * stride

-----------------------------------------------------------------------------
(* expand_batch.                                                           *)

Slots(bases, variations) == (1..Len(bases)) \X (0..(variations - 1))

SlotSeed(bases, slot) == ActualSeed(bases[slot[1]], slot[2], Len(bases))

\* The loop over prompts, base seeds and variations; n counts from 0.
Item(req, set, bases, n) ==
    LET perPrompt == Len(bases) * req.variations
        p    == n \div perPrompt
        b    == ((n % perPrompt) \div req.variations) + 1
        v    == n % req.variations
        seed == SlotSeed(bases, <<b, v>>)
    IN  [index |-> n, prompt |-> p, variation |-> v, seed |-> seed,
         name |-> OutputName(req.name, Suffix(p, seed, v), set.maxLength)]

Items(req, set, bases) ==
    [i \in 1..(Len(req.prompts) * Len(bases) * req.variations) |->
        Item(req, set, bases, i - 1)]

Rejected(error) == [error |-> error, items |-> <<>>]

\* Variant: the expanded seeds are not checked.
PlanUnbounded(req, set, bases) ==
    LET slots == Slots(bases, req.variations)
    IN  IF Len(req.prompts) * Len(bases) * req.variations > set.maxJobs
        THEN Rejected("too large")
        ELSE IF \E x, y \in slots : x # y /\ SlotSeed(bases, x) = SlotSeed(bases, y)
        THEN Rejected("duplicate seed")
        ELSE [error |-> "none", items |-> Items(req, set, bases)]

\* A batch both over the maximum seed and with a duplicate would be refused
\* for whichever comes first.
Plan(req, set, bases) ==
    LET slots == Slots(bases, req.variations)
    IN  IF Len(req.prompts) * Len(bases) * req.variations > set.maxJobs
        THEN Rejected("too large")
        ELSE IF \E x, y \in slots : x # y /\ SlotSeed(bases, x) = SlotSeed(bases, y)
        THEN Rejected("duplicate seed")
        ELSE IF \E x \in slots : SlotSeed(bases, x) > set.maxSeed
        THEN Rejected("invalid")
        ELSE [error |-> "none", items |-> Items(req, set, bases)]

Accepted(req, set) ==
    /\ ValidPrompts(req, set)
    /\ req.variations \in 1..set.maxVariations
    /\ BaseSeeds(req, set) # {}

Answers(req, set) ==
    IF Accepted(req, set)
    THEN {Plan(req, set, bases) : bases \in BaseSeeds(req, set)}
    ELSE {Rejected("invalid")}

Pending == Rejected("pending")

Init ==
    /\ request \in Requests
    /\ settings \in SettingsSet
    /\ plan = Pending

Expand ==
    /\ plan = Pending
    /\ plan' \in Answers(request, settings)
    /\ UNCHANGED <<request, settings>>

Next == Expand

Spec == Init /\ [][Next]_vars

-----------------------------------------------------------------------------
(* Properties.                                                             *)

ItemsOf(p) == {i \in 1..Len(plan.items) : plan.items[i].prompt = p}
SeedsOf(p) == {plan.items[i].seed : i \in ItemsOf(p)}

\* The stride keeps the seeds of one prompt apart: the loop's own check for a
\* duplicate never fires, whatever range and number of variations are asked.
StrideNeverCollides == plan.error # "duplicate seed"

\* A plan gives every prompt the same block of consecutive seeds, each used
\* once.  For a sequential request the block starts with the requested range,
\* and the jobs in that range are exactly the first variations: the others
\* cannot collide with it.
SeedsAreDense ==
    plan.error = "none" =>
        /\ \A p \in 0..(Len(request.prompts) - 1) :
            LET first == Min(SeedsOf(p))
            IN  /\ SeedsOf(p) = SeedsOf(0)
                /\ SeedsOf(p) = first..(first + Cardinality(ItemsOf(p)) - 1)
        /\ request.mode = "sequential" =>
            \A i \in 1..Len(plan.items) :
                plan.items[i].variation = 0
                    <=> plan.items[i].seed \in request.start..request.end

\* No plan leaves the limits of the settings.
WithinLimits ==
    plan.error = "none" =>
        /\ Len(plan.items) \in 1..settings.maxJobs
        /\ \A i \in 1..Len(plan.items) :
            plan.items[i].seed \in settings.minSeed..settings.maxSeed

\* A well-formed request is refused only when its block of seeds does not
\* fit: the reference counts seeds and never looks at a single job.  A random
\* base seed always leaves room.
AcceptsWhatFits ==
    LET wide  == IF request.mode = "sequential"
                 THEN (request.end - request.start + 1) * request.variations
                 ELSE request.variations
        first == IF request.mode = "sequential" THEN request.start
                 ELSE IF request.seed # None THEN request.seed
                 ELSE settings.minSeed
        asked == IF request.mode = "sequential"
                 THEN /\ request.start # None
                      /\ request.end # None
                      /\ request.start <= request.end
                 ELSE request.mode = "random" \/ request.seed # None
    IN  /\ plan # Pending
        /\ request.mode \in {"fixed", "random", "sequential"}
        /\ asked
        /\ ValidPrompts(request, settings)
        /\ request.variations \in 1..settings.maxVariations
        => (plan.error = "none" <=>
                /\ Len(request.prompts) * wide <= settings.maxJobs
                /\ first >= settings.minSeed
                /\ first + wide - 1 <= settings.maxSeed)

\* Names keep to the maximum length, and two jobs of a batch never get the
\* same name where that length has room for the whole suffix.
NamesAreSafe ==
    LET names    == {plan.items[i].name : i \in 1..Len(plan.items)}
        suffixes == {Suffix(plan.items[i].prompt, plan.items[i].seed,
                            plan.items[i].variation) : i \in 1..Len(plan.items)}
    IN  plan.error = "none" =>
        /\ \A name \in names : Len(name) \in 1..settings.maxLength
        /\ (\A suffix \in suffixes : Len(suffix) <= settings.maxLength)
            => Cardinality(names) = Len(plan.items)

=============================================================================
