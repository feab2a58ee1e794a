----------------------------- MODULE PostDecisions -----------------------------
(***************************************************************************)
(* What the post scorer reads out of the probabilities of its model        *)
(* (scripts/post-scorer/post_scorer/{model,collective}.py): the masses of  *)
(* posts and areas, the decision of a context, the calibration of the      *)
(* thresholds, and the features related contexts give each other.          *)
(*                                                                         *)
(* A belief gives each candidate of a context its probability in           *)
(* hundredths; what is missing to a hundred is the null option's. A mean   *)
(* is a pair of sum and count.                                             *)
(***************************************************************************)
EXTENDS Integers, FiniteSets, Sequences, FiniteSetsExt, Functions

CONSTANTS
    Contexts,       \* id, region, stop, posts, previous, next, choices and departures of every context
    Candidates,     \* post, area and platform of every candidate; candidates are numbers
    Weighted,       \* the regions given with a weights file
    TargetPrecision,\* --target-precision, as a ratio
    PostGrid,       \* the thresholds tried for posts, in hundredths (the code: 30 .. 99)
    AreaGrid,       \* and for areas (50 .. 99)
    Unknown         \* no neighbouring stop

\* Tables are finite. A context's id is made from its stop among other things (JdfPostEvidence.fs:393),
\* and a region's table has it once.
ASSUME ContextsAssumption ==
    /\ IsFiniteSet(DOMAIN Contexts)
    /\ \A k \in DOMAIN Contexts : IsFiniteSet(Contexts[k].choices)
    /\ \A j, k \in DOMAIN Contexts : (j # k /\ Contexts[j].id = Contexts[k].id) =>
            Contexts[j].stop = Contexts[k].stop /\ Contexts[j].region # Contexts[k].region
ASSUME ThresholdsAssumption ==
    /\ TargetPrecision \in Nat \X Nat
    /\ \A grid \in {PostGrid, AreaGrid} : IsFiniteSet(grid) /\ grid \in SUBSET Int

\* COMPLEX_STOP_POSTS, and the threshold nothing reaches.
ComplexStopPosts == 3
Never == 101

Complex(k) == Contexts[k].posts >= ComplexStopPosts
PostsIn(k) == {Candidates[h].post : h \in Contexts[k].choices}
HasTruth(k, h, correct) == \E g \in correct[k] : Candidates[g].area = Candidates[h].area

-----------------------------------------------------------------------------
\* post_mass and decisions.

Mass(k, belief, post) ==
    MapThenSumSet(LAMBDA h : belief[h], {h \in Contexts[k].choices : Candidates[h].post = post})
PostMass(k, belief, post) == Min({100, Mass(k, belief, post)})
AreaMass(k, belief, area) ==
    MapThenSumSet(LAMBDA h : belief[h], {h \in Contexts[k].choices : Candidates[h].area = area})

Above(s, t) == \E i \in DOMAIN s : s[i] > t[i] /\ \A j \in 1 .. (i - 1) : s[j] = t[j]

\* The columns of the two sorts; the first candidate is taken.
PostOrder(k, belief, h) ==
    <<PostMass(k, belief, Candidates[h].post), IF Candidates[h].platform THEN 1 ELSE 0, belief[h], -h>>
AreaOrder(k, belief, h) == <<AreaMass(k, belief, Candidates[h].area)>> \o PostOrder(k, belief, h)

Top(k, belief) ==
    CHOOSE h \in Contexts[k].choices : \A g \in Contexts[k].choices \ {h} :
        Above(PostOrder(k, belief, h), PostOrder(k, belief, g))
AreaTop(k, belief) ==
    CHOOSE h \in Contexts[k].choices : \A g \in Contexts[k].choices \ {h} :
        Above(AreaOrder(k, belief, h), AreaOrder(k, belief, g))

\* What the thresholds are compared with.
Standing(k, belief) ==
    LET top == Top(k, belief)
        areaTop == AreaTop(k, belief)
    IN  [post |-> top, postMass |-> PostMass(k, belief, Candidates[top].post),
         area |-> areaTop, areaMass |-> AreaMass(k, belief, Candidates[areaTop].area)]

ThresholdOf(limits, k) == IF Complex(k) THEN limits.complex ELSE limits.simple
Decision(k, standing, limits) ==
    IF standing.postMass >= ThresholdOf(limits, k) THEN "Physical"
    ELSE IF standing.areaMass >= limits.area THEN "Area" ELSE "Abstain"
Published(k, standing, limits) ==
    IF Decision(k, standing, limits) = "Area" THEN standing.area ELSE standing.post

-----------------------------------------------------------------------------
\* calibrate_threshold and calibrate_stratified, from the standings of the held-out contexts.

\* Of the weight of the contexts of part, that of the contexts of good reaches the target.
Reaches(weight, good, part) ==
    LET total(s) == MapThenSumSet(LAMBDA k : weight[k], s)
    IN  part # {} /\ TargetPrecision[2] * total(good) >= TargetPrecision[1] * total(part)

LeastOrNever(grid) == IF grid = {} THEN Never ELSE Min(grid)

CalibrateThreshold(part, standings, correct, weight) ==
    LET published(t) == {k \in part : standings[k].postMass >= t}
        good(t) == {k \in published(t) : standings[k].post \in correct[k]}
    IN  LeastOrNever({t \in PostGrid : Reaches(weight, good(t), published(t))})

CalibrateArea(standings, correct, weight, simple, complex) ==
    LET published(t) == {k \in DOMAIN standings :
            Decision(k, standings[k], [simple |-> simple, complex |-> complex, area |-> t]) = "Area"}
        good(t) == {k \in published(t) : HasTruth(k, standings[k].area, correct)}
    IN  LeastOrNever({t \in AreaGrid : Reaches(weight, good(t), published(t))})

Stratum(standings, complex) == {k \in DOMAIN standings : Complex(k) = complex}

\* Faulty variant: the area threshold is set as if no post were published.
CalibrateAreaFirst(standings, correct, weight) ==
    [simple |-> CalibrateThreshold(Stratum(standings, FALSE), standings, correct, weight),
     complex |-> CalibrateThreshold(Stratum(standings, TRUE), standings, correct, weight),
     area |-> CalibrateArea(standings, correct, weight, Never, Never)]

CalibrateStratified(standings, correct, weight) ==
    LET simple == CalibrateThreshold(Stratum(standings, FALSE), standings, correct, weight)
        complex == CalibrateThreshold(Stratum(standings, TRUE), standings, correct, weight)
    IN  [simple |-> simple, complex |-> complex,
         area |-> CalibrateArea(standings, correct, weight, simple, complex)]

-----------------------------------------------------------------------------
\* attach_weights: departures clipped to [1, p99], with mean 1 over the labelled contexts of their
\* region. Every weight is multiplied by the totals of all regions, which keeps it whole.

RegionContexts(region) == {k \in DOMAIN Contexts : Contexts[k].region = region}

\* A quantile is the value of the nearest rank.
Clipped(region) ==
    LET all == RegionContexts(region)
        rank == (99 * (Cardinality(all) - 1) + 50) \div 100
        cap == Min({d \in {Contexts[k].departures : k \in all} :
                        Cardinality({k \in all : Contexts[k].departures <= d}) > rank})
    IN  [k \in all |-> Max({1, Min({cap, Contexts[k].departures})})]
LabelledIn(region, correct) == RegionContexts(region) \cap DOMAIN correct
LabelledTotal(region, correct) == MapThenSumSet(LAMBDA k : Clipped(region)[k], LabelledIn(region, correct))

\* The pooled table has the columns of all its regions: a weight if each has one.
AttachWeights(regions, correct) ==
    IF regions \subseteq Weighted
    THEN [k \in UNION {RegionContexts(r) : r \in regions} |->
            Clipped(Contexts[k].region)[k] * Cardinality(LabelledIn(Contexts[k].region, correct))
            * FoldFunction(LAMBDA a, b : a * b, 1,
                           [r \in regions \ {Contexts[k].region} |-> Max({1, LabelledTotal(r, correct)})])]
    ELSE [k \in UNION {RegionContexts(r) : r \in regions} |-> 1]

-----------------------------------------------------------------------------
\* collective_features of a scored table: beliefs has one for each of its contexts.

SameStop(beliefs, k) == {j \in DOMAIN beliefs : Contexts[j].stop = Contexts[k].stop}
Total(beliefs, group, post) == MapThenSumSet(LAMBDA j : Mass(j, beliefs[j], post), group)

\* The mean of the others of a group the context is in.
OfTheOthers(beliefs, group, k, post) ==
    IF Cardinality(group) > 1
    THEN <<Total(beliefs, group, post) - Mass(k, beliefs[k], post), Cardinality(group) - 1>>
    ELSE <<0, 1>>

SameMovement(beliefs, k) ==
    {j \in SameStop(beliefs, k) :
        Contexts[j].previous = Contexts[k].previous /\ Contexts[j].next = Contexts[k].next}
SameNext(beliefs, k) ==
    {j \in SameStop(beliefs, k) : Contexts[j].next = Contexts[k].next /\ Contexts[k].next # Unknown}
SamePrevious(beliefs, k) ==
    {j \in SameStop(beliefs, k) :
        Contexts[j].previous = Contexts[k].previous /\ Contexts[k].previous # Unknown}

\* Faulty variant: a movement may be its own reverse.
ReverseOrSelf(beliefs, k) ==
    {j \in SameStop(beliefs, k) :
        Contexts[j].previous = Contexts[k].next /\ Contexts[j].next = Contexts[k].previous}

ReverseMovement(beliefs, k) ==
    {j \in SameStop(beliefs, k) :
        /\ Contexts[j].previous = Contexts[k].next /\ Contexts[j].next = Contexts[k].previous
        /\ Contexts[k].previous # Contexts[k].next}

CollectiveOf(beliefs, k, post) ==
    LET reverse == ReverseMovement(beliefs, k)
    IN  [reverse_mass |-> IF reverse = {} THEN <<0, 1>>
                          ELSE <<Total(beliefs, reverse, post), Cardinality(reverse)>>,
         has_reverse |-> reverse # {},
         same_movement_mass |-> OfTheOthers(beliefs, SameMovement(beliefs, k), k, post),
         has_same_movement |-> Cardinality(SameMovement(beliefs, k)) > 1,
         same_next_mass |-> OfTheOthers(beliefs, SameNext(beliefs, k), k, post),
         same_previous_mass |-> OfTheOthers(beliefs, SamePrevious(beliefs, k), k, post)]
CollectiveFeatures(beliefs) ==
    [k \in DOMAIN beliefs |-> [post \in PostsIn(k) |-> CollectiveOf(beliefs, k, post)]]
=============================================================================
