------------------------ MODULE BatchExpansionProofs ------------------------
(***************************************************************************)
(* The seeds of a plan, for every request and every settings: base seeds   *)
(* that follow each other and variations one stride apart never meet, and  *)
(* no accepted seed exceeds the maximum.                                   *)
(***************************************************************************)
EXTENDS BatchExpansion, FiniteSetTheorems, TLAPS

\* n bases, one after the other from first.
Block(first, n) == [i \in 1..n |-> first + i - 1]

\* Numbers in base n: a block and a variation are the digits of a seed.
LEMMA DigitsDiffer ==
    ASSUME NEW n \in Nat \ {0}, NEW i \in 1..n, NEW j \in 1..n,
           NEW v \in Nat, NEW w \in Nat, i + v * n = j + w * n
    PROVE  i = j /\ v = w
<1>1. ASSUME NEW k \in 1..n, NEW l \in 1..n, NEW x \in Nat, NEW y \in Nat,
             x < y, k + x * n = l + y * n
      PROVE  FALSE
  <2>1. PICK d \in Nat : y = x + d /\ d >= 1
    BY <1>1
  <2>2. y * n = x * n + d * n
    BY <2>1
  <2>3. d * n >= n
    <3>1. (d - 1) * n >= 0
      BY <2>1
    <3>2. d * n = (d - 1) * n + n
      BY <2>1
    <3> QED BY <3>1, <3>2
  <2>4. x * n \in Nat /\ d * n \in Nat
    BY <2>1
  <2> QED BY <1>1, <2>2, <2>3, <2>4
<1>2. v = w
  BY <1>1
<1> QED BY <1>2

\* What resolve_base_seeds returns is a block of integers, none too small.
LEMMA BasesAreBlocks ==
    ASSUME NEW req \in RequestType, NEW set \in SettingsType,
           NEW bases \in BaseSeeds(req, set)
    PROVE  \E first \in Int, n \in Nat \ {0} :
               bases = Block(first, n) /\ first >= set.minSeed
<1>1. /\ set.minSeed \in Nat /\ set.maxSeed \in Nat /\ req.variations \in Int
      /\ req.seed \in Int \cup {None} /\ req.start \in Int \cup {None}
      /\ req.end \in Int \cup {None}
  BY DEF RequestType, SettingsType
<1>2. CASE req.mode = "sequential"
  <2>1. bases \in SequentialBases(req, set)
    BY <1>2 DEF BaseSeeds
  <2>2. /\ req.start # None /\ req.end # None /\ req.start <= req.end
        /\ bases = Block(req.start, req.end - req.start + 1)
        /\ req.start >= set.minSeed
    BY <2>1 DEF SequentialBases, InRange, Block
  <2>3. req.start \in Int /\ req.end - req.start + 1 \in Nat \ {0}
    BY <1>1, <2>2
  <2> QED BY <2>2, <2>3
<1>3. CASE req.mode # "sequential"
  <2>1. PICK seed \in Int : bases = <<seed>> /\ seed >= set.minSeed
    <3>1. CASE req.mode \in {"fixed", "random"} /\ req.seed # None
      BY <1>1, <1>3, <3>1 DEF BaseSeeds, InRange
    <3>2. CASE req.mode = "random" /\ req.seed = None
      <4>1. bases \in RandomBases(req, set)
        BY <3>2 DEF BaseSeeds
      <4> QED BY <1>1, <4>1 DEF RandomBases
    <3> QED BY <1>3, <3>1, <3>2 DEF BaseSeeds
  <2>2. <<seed>> = Block(seed, 1)
    <3>1. seed + 1 - 1 = seed
      OBVIOUS
    <3> QED BY <3>1 DEF Block
  <2> QED BY <2>1, <2>2
<1> QED BY <1>2, <1>3

\* Two slots of a plan never get the same seed.
LEMMA SlotsDiffer ==
    ASSUME NEW first \in Int, NEW n \in Nat \ {0}, NEW variations \in Int,
           NEW x \in Slots(Block(first, n), variations),
           NEW y \in Slots(Block(first, n), variations),
           SlotSeed(Block(first, n), x) = SlotSeed(Block(first, n), y)
    PROVE  x = y
<1>1. Len(Block(first, n)) = n
  BY DEF Block
<1>2. /\ x[1] \in 1..n /\ y[1] \in 1..n /\ x[2] \in Nat /\ y[2] \in Nat
      /\ x = <<x[1], x[2]>> /\ y = <<y[1], y[2]>>
  BY <1>1 DEF Slots
<1>3. /\ SlotSeed(Block(first, n), x) = (first + x[1] - 1) + x[2] * n
      /\ SlotSeed(Block(first, n), y) = (first + y[1] - 1) + y[2] * n
  BY <1>1, <1>2 DEF SlotSeed, ActualSeed, Block
<1>4. x[1] + x[2] * n = y[1] + y[2] * n
  <2>1. \A i, j, k, l \in Int : (first + i - 1) + k = (first + j - 1) + l => i + k = j + l
    OBVIOUS
  <2>2. x[1] \in Int /\ y[1] \in Int /\ x[2] * n \in Int /\ y[2] * n \in Int
    BY <1>2
  <2>3. (first + x[1] - 1) + x[2] * n = (first + y[1] - 1) + y[2] * n
    BY <1>3, Zenon
  <2> QED BY <2>1, <2>2, <2>3
<1>5. x[1] = y[1] /\ x[2] = y[2]
  BY <1>2, <1>4, DigitsDiffer
<1> QED BY <1>2, <1>5

\* The duplicate check of expand_batch is dead code: no request whatever, in
\* no settings, is refused for a duplicate seed.
THEOREM StrideIsInjective == Spec => []StrideNeverCollides
<1> DEFINE Inv == StrideNeverCollides /\ request \in RequestType /\ settings \in SettingsType
<1>1. Init => Inv
  BY BatchExpansionAssumption
     DEF Init, Inv, Pending, Rejected, StrideNeverCollides
<1>2. Inv /\ [Next]_vars => Inv'
  <2> SUFFICES ASSUME Inv, [Next]_vars PROVE Inv'
    OBVIOUS
  <2>1. CASE UNCHANGED vars
    BY <2>1 DEF vars, StrideNeverCollides
  <2>2. CASE Expand
    <3>1. UNCHANGED <<request, settings>> /\ plan' \in Answers(request, settings)
      BY <2>2 DEF Expand
    <3>2. CASE plan' = Rejected("invalid")
      BY <3>1, <3>2 DEF Rejected, StrideNeverCollides
    <3>3. CASE plan' # Rejected("invalid")
      <4>1. PICK bases \in BaseSeeds(request, settings) :
              plan' = Plan(request, settings, bases)
        BY <3>1, <3>3 DEF Answers
      <4>2. PICK first \in Int, n \in Nat \ {0} : bases = Block(first, n)
        BY BasesAreBlocks
      <4>3. request.variations \in Int
        BY DEF RequestType
      <4>4. \A x, y \in Slots(bases, request.variations) :
              x # y => SlotSeed(bases, x) # SlotSeed(bases, y)
        BY <4>2, <4>3, SlotsDiffer
      <4>5. plan'.error # "duplicate seed"
        BY <4>1, <4>4 DEF Plan, Rejected
      <4> QED BY <3>1, <4>5 DEF StrideNeverCollides
    <3> QED BY <3>2, <3>3
  <2> QED BY <2>1, <2>2 DEF Next
<1>3. Inv => StrideNeverCollides
  OBVIOUS
<1> QED BY <1>1, <1>2, <1>3, PTL DEF Spec

-----------------------------------------------------------------------------
LEMMA Division ==
    ASSUME NEW m \in Nat, NEW k \in Nat \ {0}
    PROVE  /\ m \div k \in Nat /\ m % k \in 0..(k - 1)
           /\ \A n \in Nat : m < n * k => m \div k < n
<1>1. m \div k \in Nat
  OBVIOUS
<1>2. m % k \in 0..(k - 1)
  OBVIOUS
<1>3. ASSUME NEW n \in Nat, m < n * k PROVE m \div k < n
  BY <1>3
<1> QED BY <1>1, <1>2, <1>3

LEMMA ProductPositive ==
    ASSUME NEW n \in Nat \ {0}, NEW k \in Nat \ {0}
    PROVE  n * k \in Nat \ {0}
OBVIOUS

\* The counters of the three loops stay in their ranges.
LEMMA SlotOfItem ==
    ASSUME NEW n \in Nat \ {0}, NEW k \in Nat \ {0}, NEW i \in Nat
    PROVE  <<((i % (n * k)) \div k) + 1, i % k>> \in (1..n) \X (0..(k - 1))
<1>1. PICK m \in Nat : m = i % (n * k) /\ m < n * k
  BY ProductPositive, Division
<1>2. m \div k \in Nat /\ m \div k < n
  BY <1>1, Division
<1>3. ((i % (n * k)) \div k) + 1 \in 1..n
  BY <1>1, <1>2
<1>4. i % k \in 0..(k - 1)
  BY Division
<1> QED BY <1>3, <1>4

\* The seed of a slot is not below the first base.
LEMMA SeedsGrow ==
    ASSUME NEW first \in Int, NEW n \in Nat \ {0}, NEW variations \in Int,
           NEW x \in Slots(Block(first, n), variations)
    PROVE  SlotSeed(Block(first, n), x) \in Int /\ SlotSeed(Block(first, n), x) >= first
<1>1. Len(Block(first, n)) = n
  BY DEF Block
<1>2. x[1] \in 1..n /\ x[2] \in Nat
  BY <1>1 DEF Slots
<1>3. SlotSeed(Block(first, n), x) = (first + x[1] - 1) + x[2] * n
  BY <1>1, <1>2 DEF SlotSeed, ActualSeed, Block
<1>4. x[2] * n \in Nat
  BY <1>2
<1> QED BY <1>2, <1>3, <1>4

\* A plan that is returned keeps every limit.
LEMMA PlanWithinLimits ==
    ASSUME NEW req \in RequestType, NEW set \in SettingsType, Accepted(req, set),
           NEW bases \in BaseSeeds(req, set), Plan(req, set, bases).error = "none"
    PROVE  LET items == Plan(req, set, bases).items
           IN  /\ Len(items) \in 1..set.maxJobs
               /\ \A i \in 1..Len(items) : items[i].seed \in set.minSeed..set.maxSeed
<1>1. PICK first \in Int, n \in Nat \ {0} :
        bases = Block(first, n) /\ first >= set.minSeed
  BY BasesAreBlocks
<1>2. Len(bases) = n
  BY <1>1 DEF Block
<1>3. PICK k \in Nat \ {0}, np \in Nat \ {0} :
        req.variations = k /\ Len(req.prompts) = np
  <2>1. Len(req.prompts) \in Nat \ {0}
    <3>1. Len(req.prompts) \in 1..set.maxPrompts /\ set.maxPrompts \in Nat
      BY DEF Accepted, ValidPrompts, SettingsType
    <3> QED BY <3>1
  <2>2. req.variations \in Nat \ {0}
    BY DEF Accepted, RequestType, SettingsType
  <2> QED BY <2>1, <2>2
<1>4. np * n * k \in Nat \ {0}
  BY ProductPositive
<1>5. /\ Plan(req, set, bases).items = Items(req, set, bases)
      /\ ~(Len(req.prompts) * Len(bases) * req.variations > set.maxJobs)
      /\ \A x \in Slots(bases, req.variations) : ~(SlotSeed(bases, x) > set.maxSeed)
  BY DEF Plan, Rejected
<1>6. Len(Items(req, set, bases)) = np * n * k
  BY <1>2, <1>3, <1>4 DEF Items
<1>7. set.maxJobs \in Nat /\ set.minSeed \in Nat /\ set.maxSeed \in Nat
  BY DEF SettingsType
<1>8. ASSUME NEW i \in 1..(np * n * k)
      PROVE  Items(req, set, bases)[i].seed \in set.minSeed..set.maxSeed
  <2>1. PICK m \in Nat : m = i - 1
    BY <1>4
  <2>2. Items(req, set, bases)[i] = Item(req, set, bases, m)
    BY <1>2, <1>3, <2>1 DEF Items
  <2>3. PICK x \in Slots(bases, k) :
          Item(req, set, bases, m).seed = SlotSeed(bases, x)
    <3>1. <<((m % (n * k)) \div k) + 1, m % k>> \in Slots(bases, k)
      BY <1>2, SlotOfItem DEF Slots
    <3> QED BY <1>2, <1>3, <3>1 DEF Item
  <2>4. SlotSeed(bases, x) \in Int /\ SlotSeed(bases, x) >= first
    BY <1>1, <1>3, SeedsGrow
  <2>5. ~(SlotSeed(bases, x) > set.maxSeed)
    BY <1>3, <1>5
  <2> QED BY <1>1, <1>7, <2>2, <2>3, <2>4, <2>5
<1>9. np * n * k \in 1..set.maxJobs
  BY <1>2, <1>3, <1>4, <1>5, <1>7
<1> QED BY <1>5, <1>6, <1>8, <1>9

\* No plan leaves the limits of its settings: as many jobs as allowed, and
\* every seed of every job in range, for every request and every settings.
THEOREM PlansKeepLimits == Spec => []WithinLimits
<1> DEFINE Inv == WithinLimits /\ request \in RequestType /\ settings \in SettingsType
<1>1. Init => Inv
  BY BatchExpansionAssumption DEF Init, Inv, Pending, Rejected, WithinLimits
<1>2. Inv /\ [Next]_vars => Inv'
  <2> SUFFICES ASSUME Inv, [Next]_vars PROVE Inv'
    OBVIOUS
  <2>1. CASE UNCHANGED vars
    BY <2>1 DEF vars, WithinLimits
  <2>2. CASE Expand
    <3>1. UNCHANGED <<request, settings>> /\ plan' \in Answers(request, settings)
      BY <2>2 DEF Expand
    <3>2. CASE plan' = Rejected("invalid")
      BY <3>1, <3>2 DEF Rejected, WithinLimits
    <3>3. CASE plan' # Rejected("invalid")
      <4>1. /\ Accepted(request, settings)
            /\ \E bases \in BaseSeeds(request, settings) :
                 plan' = Plan(request, settings, bases)
        BY <3>1, <3>3 DEF Answers
      <4>2. PICK bases \in BaseSeeds(request, settings) :
              plan' = Plan(request, settings, bases)
        BY <4>1
      <4>3. CASE plan'.error = "none"
        <5>1. /\ Len(plan'.items) \in 1..settings.maxJobs
              /\ \A i \in 1..Len(plan'.items) :
                   plan'.items[i].seed \in settings.minSeed..settings.maxSeed
          BY <4>1, <4>2, <4>3, PlanWithinLimits
        <5> QED BY <3>1, <5>1 DEF WithinLimits
      <4>4. CASE plan'.error # "none"
        BY <3>1, <4>4 DEF WithinLimits
      <4> QED BY <4>3, <4>4
    <3> QED BY <3>2, <3>3
  <2> QED BY <2>1, <2>2 DEF Next
<1>3. Inv => WithinLimits
  OBVIOUS
<1> QED BY <1>1, <1>2, <1>3, PTL DEF Spec
-----------------------------------------------------------------------------
\* The last variation of the last base has the largest seed of all.
LEMMA LastSlot ==
    ASSUME NEW first \in Int, NEW n \in Nat \ {0}, NEW k \in Nat \ {0}, NEW top \in Int
    PROVE  (\E x \in Slots(Block(first, n), k) : SlotSeed(Block(first, n), x) > top)
             <=> first + n * k - 1 > top
<1>1. Len(Block(first, n)) = n
  BY DEF Block
<1>2. n * k \in Nat
  OBVIOUS
<1>3. ASSUME NEW b \in 1..n, NEW v \in 0..(k - 1)
      PROVE  /\ <<b, v>> \in Slots(Block(first, n), k)
             /\ v * n \in Nat
             /\ SlotSeed(Block(first, n), <<b, v>>) = (first + b - 1) + v * n
  BY <1>1 DEF Slots, SlotSeed, ActualSeed, Block
<1>4. (k - 1) * n = n * k - n
  OBVIOUS
<1>5. ASSUME NEW x \in Slots(Block(first, n), k), SlotSeed(Block(first, n), x) > top
      PROVE  first + n * k - 1 > top
  <2>1. PICK b \in 1..n, v \in 0..(k - 1) : x = <<b, v>>
    BY <1>1 DEF Slots
  <2>2. PICK d \in Nat : k - 1 = v + d
    <3>1. k - 1 = v + (k - 1 - v) /\ k - 1 - v \in Nat
      OBVIOUS
    <3> QED BY <3>1
  <2>3. (k - 1) * n = v * n + d * n /\ d * n \in Nat /\ v * n \in Nat
    BY <2>2
  <2>4. SlotSeed(Block(first, n), x) = (first + b - 1) + v * n
    BY <1>3, <2>1
  <2>5. (first + b - 1) + v * n > top
    BY <1>5, <2>4
  <2> QED BY <1>2, <1>4, <2>3, <2>5
<1>6. ASSUME first + n * k - 1 > top
      PROVE  \E x \in Slots(Block(first, n), k) : SlotSeed(Block(first, n), x) > top
  <2>1. n \in 1..n /\ k - 1 \in 0..(k - 1)
    OBVIOUS
  <2>2. /\ <<n, k - 1>> \in Slots(Block(first, n), k)
        /\ SlotSeed(Block(first, n), <<n, k - 1>>) = (first + n - 1) + (k - 1) * n
    BY <1>3, <2>1
  <2>3. (first + n - 1) + (k - 1) * n = first + n * k - 1
    BY <1>2, <1>4
  <2> QED BY <1>6, <2>2, <2>3
<1> QED BY <1>5, <1>6

\* The requests the reference speaks of, and what it says of them.
Wide(req) ==
    IF req.mode = "sequential" THEN (req.end - req.start + 1) * req.variations
    ELSE req.variations

FirstSeed(req, set) ==
    IF req.mode = "sequential" THEN req.start
    ELSE IF req.seed # None THEN req.seed ELSE set.minSeed

Asked(req) ==
    IF req.mode = "sequential"
    THEN req.start # None /\ req.end # None /\ req.start <= req.end
    ELSE req.mode = "random" \/ req.seed # None

WellFormed(req, set) ==
    /\ req.mode \in {"fixed", "random", "sequential"}
    /\ Asked(req)
    /\ ValidPrompts(req, set)
    /\ req.variations \in 1..set.maxVariations

Fits(req, set) ==
    /\ Len(req.prompts) * Wide(req) <= set.maxJobs
    /\ FirstSeed(req, set) >= set.minSeed
    /\ FirstSeed(req, set) + Wide(req) - 1 <= set.maxSeed

\* A block of base seeds is planned exactly when its jobs and its last seed
\* fit, whichever check comes first.
LEMMA BlockFits ==
    ASSUME NEW req \in RequestType, NEW set \in SettingsType, WellFormed(req, set),
           NEW first \in Int, NEW n \in Nat \ {0}
    PROVE  Plan(req, set, Block(first, n)).error = "none" <=>
               /\ Len(req.prompts) * (n * req.variations) <= set.maxJobs
               /\ first + n * req.variations - 1 <= set.maxSeed
<1> DEFINE bases == Block(first, n)
<1>1. PICK k \in Nat \ {0}, np \in Nat :
        req.variations = k /\ Len(req.prompts) = np
  <2>1. Len(req.prompts) \in Nat
    BY DEF RequestType
  <2>2. req.variations \in Nat \ {0}
    BY DEF WellFormed, RequestType, SettingsType
  <2> QED BY <2>1, <2>2
<1>2. Len(bases) = n
  BY DEF Block
<1>3. \A x, y \in Slots(bases, k) : x # y => SlotSeed(bases, x) # SlotSeed(bases, y)
  BY SlotsDiffer
<1>4. set.maxSeed \in Int /\ set.maxJobs \in Int
  BY DEF SettingsType
<1>5. (\E x \in Slots(bases, k) : SlotSeed(bases, x) > set.maxSeed)
        <=> first + n * k - 1 > set.maxSeed
  BY <1>4, LastSlot
<1>6. Plan(req, set, bases).error = "none" <=>
        /\ ~(np * n * k > set.maxJobs)
        /\ ~(\E x \in Slots(bases, k) : SlotSeed(bases, x) > set.maxSeed)
  <2> HIDE DEF bases
  <2> QED BY <1>1, <1>2, <1>3 DEF Plan, Rejected
<1>7. np * n * k = np * (n * k) /\ np * (n * k) \in Int /\ n * k \in Int
  OBVIOUS
<1>8. ~(np * n * k > set.maxJobs) <=> np * (n * k) <= set.maxJobs
  BY <1>4, <1>7
<1>9. ~(first + n * k - 1 > set.maxSeed) <=> first + n * k - 1 <= set.maxSeed
  BY <1>4, <1>7
<1> QED BY <1>1, <1>5, <1>6, <1>8, <1>9

\* A single base seed is a block of one.
LEMMA SingleSeed ==
    ASSUME NEW req \in RequestType, NEW set \in SettingsType, WellFormed(req, set),
           NEW seed \in Int
    PROVE  Plan(req, set, <<seed>>).error = "none" <=>
               /\ Len(req.prompts) * req.variations <= set.maxJobs
               /\ seed + req.variations - 1 <= set.maxSeed
<1>1. <<seed>> = Block(seed, 1)
  <2>1. seed + 1 - 1 = seed
    OBVIOUS
  <2> QED BY <2>1 DEF Block
<1>2. req.variations \in Int /\ 1 * req.variations = req.variations
  BY DEF RequestType
<1>3. Plan(req, set, Block(seed, 1)).error = "none" <=>
        /\ Len(req.prompts) * (1 * req.variations) <= set.maxJobs
        /\ seed + 1 * req.variations - 1 <= set.maxSeed
  <2>1. 1 \in Nat \ {0}
    OBVIOUS
  <2> QED BY <2>1, BlockFits
<1> QED BY <1>1, <1>2, <1>3

\* The answer to a well-formed request is a plan exactly when it fits.
LEMMA AnswersFit ==
    ASSUME NEW req \in RequestType, NEW set \in SettingsType, WellFormed(req, set),
           NEW p \in Answers(req, set)
    PROVE  p.error = "none" <=> Fits(req, set)
<1>1. PICK k \in Nat \ {0} : req.variations = k
  BY DEF WellFormed, RequestType, SettingsType
<1>2. /\ set.minSeed \in Nat /\ set.maxSeed \in Nat /\ set.maxJobs \in Nat
      /\ req.seed \in Int \cup {None} /\ req.start \in Int \cup {None}
      /\ req.end \in Int \cup {None}
  BY DEF RequestType, SettingsType
<1>3. CASE BaseSeeds(req, set) = {}
  <2>1. p.error # "none"
    BY <1>3 DEF Answers, Accepted, Rejected
  <2>2. ~Fits(req, set)
    <3>1. CASE req.mode = "sequential"
      <4>1. PICK s \in Int, n \in Nat \ {0} :
              req.start = s /\ req.end = s + n - 1 /\ req.end - req.start + 1 = n
        <5>1. req.start \in Int /\ req.end \in Int /\ req.start <= req.end
          BY <1>2, <3>1 DEF WellFormed, Asked
        <5>2. /\ req.end = req.start + (req.end - req.start + 1) - 1
              /\ req.end - req.start + 1 \in Nat \ {0}
          BY <5>1
        <5> QED BY <5>1, <5>2
      <4>2. SequentialBases(req, set) = {}
        BY <1>3, <3>1 DEF BaseSeeds
      <4>3. ~(s >= set.minSeed /\ s + n - 1 <= set.maxSeed)
        <5>1. ~(InRange(req.start, set) /\ InRange(req.end, set) /\ req.start <= req.end)
          BY <4>2 DEF SequentialBases
        <5>2. /\ req.start # None /\ req.end # None /\ req.start <= req.end
          BY <3>1 DEF WellFormed, Asked
        <5> QED BY <1>2, <4>1, <5>1, <5>2 DEF InRange
      <4>4. n * k >= n /\ n * k \in Nat
        <5>1. n * k = n + n * (k - 1) /\ n * (k - 1) >= 0
          BY <1>1
        <5> QED BY <5>1
      <4>5. ~(s >= set.minSeed /\ s + n * k - 1 <= set.maxSeed)
        BY <1>2, <4>3, <4>4
      <4> QED BY <1>1, <3>1, <4>1, <4>5 DEF Fits, Wide, FirstSeed
    <3>2. CASE req.mode # "sequential" /\ req.seed # None
      <4>1. ~InRange(req.seed, set)
        BY <1>3, <3>2 DEF BaseSeeds, WellFormed
      <4>2. ~(req.seed >= set.minSeed /\ req.seed + k - 1 <= set.maxSeed)
        BY <1>2, <3>2, <4>1 DEF InRange
      <4> QED BY <1>1, <3>2, <4>2 DEF Fits, Wide, FirstSeed
    <3>3. CASE req.mode # "sequential" /\ req.seed = None
      <4>1. RandomBases(req, set) = {}
        BY <1>3, <3>3 DEF BaseSeeds, WellFormed, Asked
      <4>2. set.minSeed \notin set.minSeed..(set.maxSeed - (req.variations - 1))
        BY <4>1 DEF RandomBases
      <4>3. ~(set.minSeed + k - 1 <= set.maxSeed)
        BY <1>1, <1>2, <4>2
      <4> QED BY <1>1, <3>3, <4>3 DEF Fits, Wide, FirstSeed
    <3> QED BY <3>1, <3>2, <3>3
  <2> QED BY <2>1, <2>2
<1>4. CASE BaseSeeds(req, set) # {}
  <2>1. PICK bases \in BaseSeeds(req, set) : p = Plan(req, set, bases)
    BY <1>4 DEF Answers, Accepted, WellFormed
  <2>2. CASE req.mode = "sequential"
    <3>1. bases \in SequentialBases(req, set)
      BY <2>2 DEF BaseSeeds
    <3>2. /\ req.start # None /\ req.end # None /\ req.start <= req.end
          /\ req.start >= set.minSeed
          /\ bases = Block(req.start, req.end - req.start + 1)
      BY <3>1 DEF SequentialBases, InRange, Block
    <3>3. PICK n \in Nat \ {0} : n = req.end - req.start + 1
      <4>1. req.end - req.start + 1 \in Nat \ {0}
        BY <1>2, <3>2
      <4> QED BY <4>1
    <3>4. req.start \in Int
      BY <1>2, <3>2
    <3>5. p.error = "none" <=>
            /\ Len(req.prompts) * (n * req.variations) <= set.maxJobs
            /\ req.start + n * req.variations - 1 <= set.maxSeed
      BY <2>1, <3>2, <3>3, <3>4, BlockFits
    <3> QED BY <2>2, <3>2, <3>3, <3>5 DEF Fits, Wide, FirstSeed
  <2>3. CASE req.mode # "sequential" /\ req.seed # None
    <3>1. InRange(req.seed, set) /\ bases = <<req.seed>> /\ req.seed \in Int
      BY <1>2, <2>3 DEF BaseSeeds, WellFormed
    <3>2. p.error = "none" <=>
            /\ Len(req.prompts) * req.variations <= set.maxJobs
            /\ req.seed + req.variations - 1 <= set.maxSeed
      BY <2>1, <3>1, SingleSeed
    <3>3. req.seed >= set.minSeed
      BY <3>1 DEF InRange
    <3> QED BY <2>3, <3>2, <3>3 DEF Fits, Wide, FirstSeed
  <2>4. CASE req.mode # "sequential" /\ req.seed = None
    <3>1. bases \in RandomBases(req, set)
      BY <2>4 DEF BaseSeeds, WellFormed, Asked
    <3>2. PICK seed \in Int :
            /\ bases = <<seed>> /\ set.minSeed <= seed
            /\ seed <= set.maxSeed - (k - 1)
      BY <1>1, <1>2, <3>1 DEF RandomBases
    <3>3. p.error = "none" <=>
            /\ Len(req.prompts) * req.variations <= set.maxJobs
            /\ seed + req.variations - 1 <= set.maxSeed
      BY <2>1, <3>2, SingleSeed
    <3>4. seed + k - 1 <= set.maxSeed /\ set.minSeed + k - 1 <= set.maxSeed
          /\ set.minSeed >= set.minSeed
      BY <1>2, <3>2
    <3> QED BY <1>1, <2>4, <3>3, <3>4 DEF Fits, Wide, FirstSeed
  <2> QED BY <2>2, <2>3, <2>4
<1> QED BY <1>3, <1>4

\* expand_batch refuses a well-formed request only when its jobs or its block
\* of seeds do not fit, and accepts it only when they do: for every request
\* and every settings the loops agree with the count of seeds.
THEOREM AcceptanceIsExact == Spec => []AcceptsWhatFits
<1> DEFINE Exact == plan # Pending /\ WellFormed(request, settings)
                      => (plan.error = "none" <=> Fits(request, settings))
           Inv   == Exact /\ request \in RequestType /\ settings \in SettingsType
<1>1. Init => Inv
  BY BatchExpansionAssumption DEF Init
<1>2. Inv /\ [Next]_vars => Inv'
  <2> SUFFICES ASSUME Inv, [Next]_vars PROVE Inv'
    OBVIOUS
  <2>1. CASE UNCHANGED vars
    BY <2>1 DEF vars
  <2>2. CASE Expand
    <3>1. UNCHANGED <<request, settings>> /\ plan' \in Answers(request, settings)
      BY <2>2 DEF Expand
    <3>2. WellFormed(request, settings)
            => (plan'.error = "none" <=> Fits(request, settings))
      BY <3>1, AnswersFit
    <3> QED BY <3>1, <3>2
  <2> QED BY <2>1, <2>2 DEF Next
<1>3. Inv => AcceptsWhatFits
  BY DEF AcceptsWhatFits, WellFormed, Asked, Fits, Wide, FirstSeed
<1> QED BY <1>1, <1>2, <1>3, PTL DEF Spec
-----------------------------------------------------------------------------
LEMMA Remainder ==
    ASSUME NEW m \in Nat, NEW d \in Nat \ {0}
    PROVE  m % d = m - (m \div d) * d
OBVIOUS

\* Quotient and remainder are what they are composed of.
LEMMA DivisionUnique ==
    ASSUME NEW d \in Nat \ {0}, NEW q \in Nat, NEW r \in 0..(d - 1),
           NEW m \in Nat, m = q * d + r
    PROVE  m \div d = q /\ m % d = r
<1>2. PICK w \in Nat, s \in 0..(d - 1) : w = m \div d /\ s = m % d
  BY Division
<1>3. s = m - w * d
  BY <1>2, Remainder
<1>4. (s + 1) + w * d = (r + 1) + q * d
  <2>1. w * d \in Nat /\ q * d \in Nat
    OBVIOUS
  <2> QED BY <1>3, <2>1
<1>5. s + 1 \in 1..d /\ r + 1 \in 1..d
  OBVIOUS
<1>6. s + 1 = r + 1 /\ w = q
  BY <1>4, <1>5, DigitsDiffer
<1> QED BY <1>2, <1>6

\* The numbers with the same quotient are one after the other.
LEMMA SameQuotient ==
    ASSUME NEW d \in Nat \ {0}, NEW q \in Nat, NEW m \in Nat
    PROVE  m \div d = q <=> m \in (q * d)..(q * d + d - 1)
<1>1. q * d \in Nat
  OBVIOUS
<1>2. ASSUME m \div d = q PROVE m \in (q * d)..(q * d + d - 1)
  <2>1. m % d = m - q * d /\ m % d \in 0..(d - 1)
    BY <1>2, Remainder, Division
  <2> QED BY <1>1, <2>1
<1>3. ASSUME m \in (q * d)..(q * d + d - 1) PROVE m \div d = q
  <2>1. PICK r \in 0..(d - 1) : m = q * d + r
    <3>1. m - q * d \in 0..(d - 1) /\ m = q * d + (m - q * d)
      BY <1>1, <1>3
    <3> QED BY <3>1
  <2> QED BY <2>1, DivisionUnique
<1> QED BY <1>2, <1>3

LEMMA CountersOfItem ==
    ASSUME NEW n \in Nat \ {0}, NEW k \in Nat \ {0}, NEW m \in Nat
    PROVE  (m % (n * k)) \div k \in 0..(n - 1) /\ m % k \in 0..(k - 1)
<1>1. n * k \in Nat \ {0}
  BY ProductPositive
<1>2. PICK r \in Nat : r = m % (n * k) /\ r < n * k
  BY <1>1, Division
<1>3. r \div k \in Nat /\ r \div k < n
  BY <1>2, Division
<1>4. r \div k \in 0..(n - 1)
  BY <1>3
<1> QED BY <1>2, <1>4, Division

LEMMA FirstOfInterval ==
    ASSUME NEW a \in Int, NEW b \in Int, a <= b
    PROVE  Min(a..b) = a
<1>1. a \in a..b /\ \A y \in a..b : a <= y
  OBVIOUS
<1>2. \A x \in a..b : (\A y \in a..b : x <= y) => x = a
  BY <1>1
<1> QED BY <1>1, <1>2 DEF Min

\* The prompts, the jobs and the seeds of a plan of n base seeds from first,
\* k variations of each and np prompts.
Loops(items, first, n, k, np) ==
    /\ Len(items) = np * (n * k)
    /\ \A i \in 1..Len(items) :
        /\ items[i].prompt = (i - 1) \div (n * k)
        /\ items[i].variation = (i - 1) % k
        /\ items[i].seed = (first + ((i - 1) % (n * k)) \div k) + ((i - 1) % k) * n

\* The items of a plan are those of the three loops.
LEMMA PlanLoops ==
    ASSUME NEW req \in RequestType, NEW set \in SettingsType,
           req.variations \in Nat \ {0}, NEW first \in Int, NEW n \in Nat \ {0},
           Plan(req, set, Block(first, n)).error = "none"
    PROVE  Loops(Plan(req, set, Block(first, n)).items, first, n, req.variations,
                 Len(req.prompts))
<1> DEFINE bases == Block(first, n)
           items == Plan(req, set, bases).items
<1>1. PICK k \in Nat \ {0}, np \in Nat :
        req.variations = k /\ Len(req.prompts) = np
  <2>1. Len(req.prompts) \in Nat
    BY DEF RequestType
  <2> QED BY <2>1
<1>2. Len(bases) = n
  BY DEF Block
<1>3. items = Items(req, set, bases)
  BY DEF Plan, Rejected
<1>4. np * n * k = np * (n * k) /\ np * (n * k) \in Nat /\ n * k \in Nat \ {0}
  BY ProductPositive
<1>5. Len(items) = np * (n * k)
  <2>1. items = [i \in 1..(np * n * k) |-> Item(req, set, bases, i - 1)]
    BY <1>1, <1>2, <1>3 DEF Items
  <2> QED BY <1>4, <2>1
<1>6. ASSUME NEW i \in 1..(np * (n * k))
      PROVE  /\ items[i].prompt = (i - 1) \div (n * k)
             /\ items[i].variation = (i - 1) % k
             /\ items[i].seed = (first + ((i - 1) % (n * k)) \div k) + ((i - 1) % k) * n
  <2>1. PICK m \in Nat : m = i - 1
    BY <1>4
  <2>2. items[i] = Item(req, set, bases, m)
    BY <1>1, <1>2, <1>3, <1>4, <2>1 DEF Items
  <2>3. PICK c \in 0..(n - 1), v \in 0..(k - 1) :
          c = (m % (n * k)) \div k /\ v = m % k
    BY CountersOfItem
  <2>4. /\ items[i].prompt = m \div (n * k) /\ items[i].variation = v
        /\ items[i].seed = SlotSeed(bases, <<c + 1, v>>)
    BY <1>1, <1>2, <2>2, <2>3 DEF Item
  <2>5. SlotSeed(bases, <<c + 1, v>>) = (first + c) + v * n
    <3>1. c + 1 \in 1..n /\ first + (c + 1) - 1 = first + c
      BY <2>3
    <3>2. bases[c + 1] = first + c
      BY <3>1 DEF Block
    <3> QED BY <1>2, <3>2 DEF SlotSeed, ActualSeed
  <2> QED BY <2>1, <2>3, <2>4, <2>5
<1> QED BY <1>1, <1>5, <1>6 DEF Loops

JobsFor(items, p) == {i \in 1..Len(items) : items[i].prompt = p}
SeedsFor(items, p) == {items[i].seed : i \in JobsFor(items, p)}

\* The p-th interval of d numbers.
Stretch(p, d) == (p * d + 1)..(p * d + d)

\* Each prompt gets n * k jobs, one after the other.
LEMMA ItemsOfPrompt ==
    ASSUME NEW items, NEW first \in Int, NEW n \in Nat \ {0}, NEW k \in Nat \ {0},
           NEW np \in Nat, Loops(items, first, n, k, np), NEW p \in 0..(np - 1)
    PROVE  JobsFor(items, p) = Stretch(p, n * k)
<1>1. PICK d \in Nat \ {0} : d = n * k
  BY ProductPositive
<1>2. p * d \in Nat /\ np * d \in Nat /\ p * d + d <= np * d
  <2>1. np * d = p * d + d + (np - 1 - p) * d
    OBVIOUS
  <2>2. (np - 1 - p) * d \in Nat
    OBVIOUS
  <2>3. p * d \in Nat /\ np * d \in Nat
    OBVIOUS
  <2> QED BY <2>1, <2>2, <2>3
<1>3. Len(items) = np * d
  BY <1>1 DEF Loops
<1>4. ASSUME NEW i \in 1..(np * d)
      PROVE  items[i].prompt = p <=> i \in (p * d + 1)..(p * d + d)
  <2>1. PICK m \in Nat : m = i - 1
    BY <1>2
  <2>2. items[i].prompt = m \div d
    BY <1>1, <1>3, <2>1 DEF Loops
  <2>3. m \div d = p <=> m \in (p * d)..(p * d + d - 1)
    BY SameQuotient
  <2> QED BY <1>2, <2>1, <2>2, <2>3
<1>5. (p * d + 1)..(p * d + d) \subseteq 1..(np * d)
  BY <1>2
<1>6. JobsFor(items, p) = Stretch(p, d)
  BY <1>3, <1>4, <1>5 DEF JobsFor, Stretch
<1> QED BY <1>1, <1>6

\* Together they take every seed of the block of n * k from first.
LEMMA SeedsOfPrompt ==
    ASSUME NEW items, NEW first \in Int, NEW n \in Nat \ {0}, NEW k \in Nat \ {0},
           NEW np \in Nat, Loops(items, first, n, k, np), NEW p \in 0..(np - 1)
    PROVE  SeedsFor(items, p) = first..(first + n * k - 1)
<1> DEFINE jobs == JobsFor(items, p)
<1>1. PICK d \in Nat \ {0} : d = n * k
  BY ProductPositive
<1>2. jobs = (p * d + 1)..(p * d + d)
  <2>1. jobs = Stretch(p, n * k)
    BY ItemsOfPrompt
  <2> HIDE DEF jobs
  <2> QED BY <1>1, <2>1 DEF Stretch
<1>3. p * d \in Nat
  OBVIOUS
<1>4. ASSUME NEW i \in jobs
      PROVE  items[i].seed \in first..(first + d - 1)
  <2>1. PICK m \in Nat : m = i - 1
    BY <1>2, <1>3
  <2>2. PICK c \in 0..(n - 1), v \in 0..(k - 1) :
          c = (m % (n * k)) \div k /\ v = m % k
    BY CountersOfItem
  <2>3. items[i].seed = (first + c) + v * n
    BY <2>1, <2>2 DEF Loops, JobsFor
  <2>4. v * n \in Nat /\ v * n <= d - n
    <3>1. d - n = v * n + (k - 1 - v) * n
      BY <1>1
    <3>2. v * n \in Nat /\ (k - 1 - v) * n \in Nat
      OBVIOUS
    <3> QED BY <3>1, <3>2
  <2> QED BY <2>3, <2>4
<1>5. ASSUME NEW s \in first..(first + d - 1)
      PROVE  \E i \in jobs : items[i].seed = s
  <2>1. PICK t \in 0..(d - 1) : s = first + t
    <3>1. s - first \in 0..(d - 1) /\ s = first + (s - first)
      OBVIOUS
    <3> QED BY <3>1
  <2>2. PICK c \in 0..(n - 1), v \in 0..(k - 1) : t = v * n + c
    <3>1. t \in Nat /\ t < k * n
      BY <1>1
    <3>2. PICK v \in Nat, c \in 0..(n - 1) : v = t \div n /\ c = t % n /\ v < k
      BY <3>1, Division
    <3>3. c = t - v * n
      BY <3>1, <3>2, Remainder
    <3>4. v \in 0..(k - 1) /\ v * n \in Nat
      BY <3>2
    <3>5. t = v * n + c
      BY <3>3, <3>4
    <3> QED BY <3>4, <3>5
  <2>3. PICK r \in 0..(d - 1) : r = c * k + v
    <3>1. d = c * k + k + (n - 1 - c) * k
      BY <1>1
    <3>2. c * k \in Nat /\ (n - 1 - c) * k \in Nat
      OBVIOUS
    <3> QED BY <3>1, <3>2
  <2>4. PICK m \in Nat : m = p * d + r
    BY <1>3
  <2>5. m % d = r
    <3>1. /\ d \in Nat \ {0} /\ p \in Nat /\ r \in 0..(d - 1) /\ m \in Nat
          /\ m = p * d + r
      BY <2>4
    <3> QED BY ONLY <3>1, DivisionUnique
  <2>6. r \div k = c
    <3>1. r \in Nat /\ c \in Nat
      OBVIOUS
    <3> QED BY <2>3, <3>1, DivisionUnique
  <2>7. m % k = v
    <3>1. m = (p * n + c) * k + v
      BY <1>1, <2>3, <2>4
    <3>2. PICK q \in Nat : q = p * n + c
      BY <2>2
    <3>3. k \in Nat \ {0} /\ v \in 0..(k - 1) /\ m \in Nat /\ q \in Nat /\ m = q * k + v
      BY <3>1, <3>2
    <3> QED BY ONLY <3>3, DivisionUnique
  <2>8. m + 1 \in jobs /\ (m + 1) - 1 = m
    BY <1>2, <1>3, <2>3, <2>4
  <2>9. items[m + 1].seed = (first + c) + v * n
    BY <1>1, <2>5, <2>6, <2>7, <2>8 DEF Loops, JobsFor
  <2>10. (first + c) + v * n = s
    <3>1. v * n \in Nat
      BY <2>2
    <3> QED BY <2>1, <2>2, <3>1
  <2> QED BY <2>8, <2>9, <2>10
<1> HIDE DEF jobs
<1>6. {items[i].seed : i \in jobs} = first..(first + d - 1)
  BY <1>4, <1>5
<1> QED BY <1>1, <1>6 DEF SeedsFor, jobs

\* The first variations keep the base seeds, the others come after them.
LEMMA FirstVariations ==
    ASSUME NEW items, NEW first \in Int, NEW n \in Nat \ {0}, NEW k \in Nat \ {0},
           NEW np \in Nat, Loops(items, first, n, k, np),
           NEW i \in 1..Len(items)
    PROVE  items[i].variation = 0 <=> items[i].seed \in first..(first + n - 1)
<1>1. PICK m \in Nat : m = i - 1
  <2>1. np * (n * k) \in Nat /\ Len(items) = np * (n * k)
    BY DEF Loops
  <2> QED BY <2>1
<1>2. PICK c \in 0..(n - 1), v \in 0..(k - 1) :
        c = (m % (n * k)) \div k /\ v = m % k
  BY CountersOfItem
<1>3. items[i].variation = v /\ items[i].seed = (first + c) + v * n
  BY <1>1, <1>2 DEF Loops
<1>4. PICK a \in Nat : a = v * n /\ (v = 0 => a = 0) /\ (v # 0 => a >= n)
  <2>1. v * n \in Nat /\ (v = 0 => v * n = 0)
    OBVIOUS
  <2>2. ASSUME v # 0 PROVE v * n >= n
    <3>1. v * n = n + (v - 1) * n /\ (v - 1) * n >= 0
      BY <2>2
    <3> QED BY <3>1
  <2> QED BY <2>1, <2>2
<1>5. items[i].seed = first + c + a
  BY <1>3, <1>4
<1>6. v = 0 <=> first + c + a \in first..(first + n - 1)
  BY <1>4
<1> QED BY <1>3, <1>5, <1>6

\* What SeedsAreDense says of the jobs of one prompt, and of a plan.
DenseFor(items, p) ==
    /\ SeedsFor(items, p) = SeedsFor(items, 0)
    /\ SeedsFor(items, p) =
        Min(SeedsFor(items, p))..(Min(SeedsFor(items, p)) + Cardinality(JobsFor(items, p)) - 1)

Dense(req, items) ==
    /\ \A p \in 0..(Len(req.prompts) - 1) : DenseFor(items, p)
    /\ req.mode = "sequential" =>
        \A i \in 1..Len(items) :
            items[i].variation = 0 <=> items[i].seed \in req.start..req.end

LEMMA LoopsAreDense ==
    ASSUME NEW items, NEW first \in Int, NEW n \in Nat \ {0}, NEW k \in Nat \ {0},
           NEW np \in Nat, Loops(items, first, n, k, np), NEW p \in 0..(np - 1)
    PROVE  DenseFor(items, p)
<1>1. PICK d \in Nat \ {0} : d = n * k
  BY ProductPositive
<1>2. 0 \in 0..(np - 1)
  OBVIOUS
<1>3. /\ SeedsFor(items, p) = first..(first + d - 1)
      /\ SeedsFor(items, 0) = first..(first + d - 1)
  BY <1>1, <1>2, SeedsOfPrompt
<1>4. Min(first..(first + d - 1)) = first
  BY FirstOfInterval
<1>5. Cardinality(JobsFor(items, p)) = d
  <2>1. PICK a \in Nat : a = p * d
    OBVIOUS
  <2>2. JobsFor(items, p) = (a + 1)..(a + d)
    <3>1. JobsFor(items, p) = Stretch(p, n * k)
      BY ItemsOfPrompt
    <3> QED BY <1>1, <2>1, <3>1 DEF Stretch
  <2>3. Cardinality((a + 1)..(a + d)) = d
    BY FS_Interval
  <2> QED BY <2>2, <2>3
<1> QED BY <1>3, <1>4, <1>5 DEF DenseFor

\* Every plan that answers a request is dense.
LEMMA PlanIsDense ==
    ASSUME NEW req \in RequestType, NEW set \in SettingsType,
           NEW answer \in Answers(req, set), answer.error = "none"
    PROVE  Dense(req, answer.items)
<1>1. Accepted(req, set) /\ \E bases \in BaseSeeds(req, set) : answer = Plan(req, set, bases)
  BY DEF Answers, Rejected
<1>2. PICK bases \in BaseSeeds(req, set) : answer = Plan(req, set, bases)
  BY <1>1
<1>3. PICK k \in Nat \ {0}, np \in Nat :
        req.variations = k /\ Len(req.prompts) = np
  <2>1. Len(req.prompts) \in Nat
    BY DEF RequestType
  <2>2. req.variations \in Nat \ {0}
    BY <1>1 DEF Accepted, RequestType, SettingsType
  <2> QED BY <2>1, <2>2
<1>4. PICK first \in Int, n \in Nat \ {0} :
        /\ bases = Block(first, n)
        /\ req.mode = "sequential" => req.start = first /\ req.end = first + n - 1
  <2>1. CASE req.mode = "sequential"
    <3>1. bases \in SequentialBases(req, set)
      BY <2>1 DEF BaseSeeds
    <3>2. /\ req.start \in Int /\ req.end \in Int /\ req.start <= req.end
          /\ bases = Block(req.start, req.end - req.start + 1)
      BY <3>1 DEF SequentialBases, InRange, Block, RequestType
    <3>3. /\ req.end - req.start + 1 \in Nat \ {0}
          /\ req.end = req.start + (req.end - req.start + 1) - 1
      BY <3>2
    <3> QED BY <3>2, <3>3
  <2>2. CASE req.mode # "sequential"
    BY <2>2, BasesAreBlocks
  <2> QED BY <2>1, <2>2
<1>5. Loops(answer.items, first, n, k, np)
  BY <1>2, <1>3, <1>4, PlanLoops
<1>6. ASSUME NEW i \in 1..Len(answer.items), req.mode = "sequential"
      PROVE  answer.items[i].variation = 0
               <=> answer.items[i].seed \in req.start..req.end
  BY <1>4, <1>5, <1>6, FirstVariations, SMTT(30)
<1>7. ASSUME NEW p \in 0..(np - 1) PROVE DenseFor(answer.items, p)
  BY <1>5, LoopsAreDense
<1> QED BY <1>3, <1>6, <1>7 DEF Dense

\* Every prompt of a plan gets the same block of consecutive seeds, each used
\* once, and in a sequential plan the jobs in the requested range are exactly
\* the first variations: the stride of expand_batch leaves no gap and no
\* overlap, for every request and every settings.
THEOREM SeedsFillTheBlock == Spec => []SeedsAreDense
<1> DEFINE Filled == plan.error = "none" => Dense(request, plan.items)
           Inv    == Filled /\ request \in RequestType /\ settings \in SettingsType
<1>1. Init => Inv
  BY BatchExpansionAssumption DEF Init, Pending, Rejected
<1>2. Inv /\ [Next]_vars => Inv'
  <2> SUFFICES ASSUME Inv, [Next]_vars PROVE Inv'
    OBVIOUS
  <2>1. CASE UNCHANGED vars
    BY <2>1 DEF vars
  <2>2. CASE Expand
    <3>1. UNCHANGED <<request, settings>> /\ plan' \in Answers(request, settings)
      BY <2>2 DEF Expand
    <3>2. plan'.error = "none" => Dense(request, plan'.items)
      BY <3>1, PlanIsDense
    <3> QED BY <3>1, <3>2
  <2> QED BY <2>1, <2>2 DEF Next
<1>3. Inv => SeedsAreDense
  BY DEF SeedsAreDense, Dense, DenseFor, SeedsFor, JobsFor, SeedsOf, ItemsOf
<1> QED BY <1>1, <1>2, <1>3, PTL DEF Spec

=============================================================================
