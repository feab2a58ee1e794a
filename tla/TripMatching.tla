---------------------------- MODULE TripMatching ----------------------------
(***************************************************************************)
(* How well a trip of a regional source fits a national trip: the matching *)
(* tiers, the bounded edit alignment of two stop patterns, the score of    *)
(* the times and the choice between candidates                             *)
(* (Gtfs/RegionalOverlay/TripScoring.fs and the head of TripMatching.fs).  *)
(*                                                                         *)
(* A call is a record with a place and two times; a time is a natural      *)
(* number of seconds (or any unit), Unknown where the feed leaves it out.  *)
(* Digests and signatures are the tuples they are digests of.              *)
(***************************************************************************)
EXTENDS Integers, Sequences, FiniteSets, FiniteSetsExt

CONSTANTS
    TimeResolution,     \* time_resolution_seconds of the policy
    MaximumEdits,       \* pattern_edit.maximum_edits
    MinimumAgreement,   \* pattern_edit.minimum_agreement, in percent
    SameEndpoints,      \* pattern_edit.require_same_endpoints
    TripTiers           \* trip_match_tiers, the best tier first

TripTierNames == {"full_signature", "pattern_endpoints", "pattern_first",
                  "pattern_nearest", "pattern_edit_nearest"}

ASSUME PolicyAssumption ==
    /\ TimeResolution \in Nat \ {0}
    /\ MaximumEdits \in Nat
    /\ MinimumAgreement \in 0 .. 100
    /\ SameEndpoints \in BOOLEAN
    /\ TripTiers \in Seq(TripTierNames)

Unknown == -1

\* Int32.MaxValue / 4: the score of times that cannot be compared.
Far == 536870911

TierEnabled(tier) == \E i \in DOMAIN TripTiers : TripTiers[i] = tier
TierRank(tier) == CHOOSE i \in DOMAIN TripTiers : TripTiers[i] = tier

Pattern(calls) == [i \in DOMAIN calls |-> calls[i].place]

Rounded(time) ==
    IF time = Unknown THEN Unknown ELSE (time \div TimeResolution) * TimeResolution

\* A call table as the signature with every time sees it.
FullSignature(calls) ==
    [i \in DOMAIN calls |-> <<calls[i].place, Rounded(calls[i].arr), Rounded(calls[i].dep)>>]

FirstDeparture(calls) == Rounded(calls[1].dep)
LastArrival(calls) == Rounded(calls[Len(calls)].arr)

Distance(a, b) == IF a < b THEN b - a ELSE a - b

-----------------------------------------------------------------------------
\* The bounded edit alignment.

Differ(x, y) == IF x = y THEN 0 ELSE 1

\* The table of edit costs of two patterns.
EditCosts(s, t) ==
    LET cost[i \in 0 .. Len(s), j \in 0 .. Len(t)] ==
            IF i = 0 THEN j
            ELSE IF j = 0 THEN i
            ELSE Min({cost[i - 1, j - 1] + Differ(s[i], t[j]), cost[i - 1, j] + 1, cost[i, j - 1] + 1})
    IN  [p \in (0 .. Len(s)) \X (0 .. Len(t)) |-> cost[p[1], p[2]]]

\* The walk back through the costs: which call of s each call of t is, 0 for none.
Alignment(s, t) ==
    LET cost == EditCosts(s, t)
        pairs[i \in 0 .. Len(s), j \in 0 .. Len(t)] ==
            IF i = 0 /\ j = 0 THEN {}
            ELSE IF /\ i > 0 /\ j > 0
                    /\ cost[<<i, j>>] = cost[<<i - 1, j - 1>>] + Differ(s[i], t[j])
                 THEN pairs[i - 1, j - 1] \cup (IF s[i] = t[j] THEN {<<j, i>>} ELSE {})
            ELSE IF i > 0 /\ cost[<<i, j>>] = cost[<<i - 1, j>>] + 1 THEN pairs[i - 1, j]
            ELSE pairs[i, j - 1]
        aligned == pairs[Len(s), Len(t)]
    IN  [j \in 1 .. Len(t) |->
            IF \E p \in aligned : p[1] = j THEN (CHOOSE p \in aligned : p[1] = j)[2] ELSE 0]

IdentityAlignment(n) == [j \in 1 .. n |-> j]

\* The cheap bound tested before the table is computed: calls that agree in place, or the
\* common head and tail.
QuickSupport(s, t) ==
    LET n == Min({Len(s), Len(t)})
        positional == Cardinality({i \in 1 .. n : s[i] = t[i]})
        head == CHOOSE k \in 0 .. n :
                    /\ \A i \in 1 .. k : s[i] = t[i]
                    /\ k < n => s[k + 1] # t[k + 1]
        tail == CHOOSE k \in 0 .. n - head :
                    /\ \A i \in 1 .. k : s[Len(s) - i + 1] = t[Len(t) - i + 1]
                    /\ k < n - head => s[Len(s) - k] # t[Len(t) - k]
    IN  Max({positional, head + tail})

PatternEditable(s, t) ==
    /\ s # <<>> /\ t # <<>>
    /\ SameEndpoints => s[1] = t[1] /\ s[Len(s)] = t[Len(t)]
    /\ Distance(Len(s), Len(t)) <= MaximumEdits
    /\ QuickSupport(s, t) >= Min({Len(s), Len(t)}) - MaximumEdits
    /\ LET edits == EditCosts(s, t)[<<Len(s), Len(t)>>]
           longer == Max({Len(s), Len(t)})
       IN  /\ edits <= MaximumEdits
           /\ (longer - edits) * 100 >= MinimumAgreement * longer

-----------------------------------------------------------------------------
\* The tier of a candidate.

NoTier == "none"

\* The best tier at which the source calls fit the target calls; exact patterns are never
\* tried as edits while pattern_nearest is configured.
MatchTier(source, target) ==
    LET exact == Pattern(source) = Pattern(target)
    IN  IF exact /\ FullSignature(source) = FullSignature(target) /\ TierEnabled("full_signature")
        THEN "full_signature"
        ELSE IF /\ exact /\ FirstDeparture(source) = FirstDeparture(target)
                /\ LastArrival(source) = LastArrival(target) /\ TierEnabled("pattern_endpoints")
        THEN "pattern_endpoints"
        ELSE IF exact /\ FirstDeparture(source) = FirstDeparture(target) /\ TierEnabled("pattern_first")
        THEN "pattern_first"
        ELSE IF exact /\ TierEnabled("pattern_nearest") THEN "pattern_nearest"
        ELSE IF TierEnabled("pattern_edit_nearest") /\ PatternEditable(Pattern(source), Pattern(target))
        THEN "pattern_edit_nearest"
        ELSE NoTier

AlignmentAt(tier, source, target) ==
    IF tier = "pattern_edit_nearest" THEN Alignment(Pattern(source), Pattern(target))
    ELSE IdentityAlignment(Len(target))

EditsAt(tier, source, target) ==
    IF tier = "pattern_edit_nearest"
    THEN EditCosts(Pattern(source), Pattern(target))[<<Len(source), Len(target)>>]
    ELSE 0

-----------------------------------------------------------------------------
\* The score of the times and the order of candidates.

\* The first known departure and the last known arrival.
FirstKnown(calls) ==
    LET known == {i \in DOMAIN calls : calls[i].dep # Unknown}
    IN  IF known = {} THEN Unknown
        ELSE calls[CHOOSE i \in known : \A j \in known : i <= j].dep
LastKnown(calls) ==
    LET known == {i \in DOMAIN calls : calls[i].arr # Unknown}
    IN  IF known = {} THEN Unknown
        ELSE calls[CHOOSE i \in known : \A j \in known : j <= i].arr

\* Edits, then how far apart the times are in six ways: the smallest tuple is the best.
CandidateRank(tier, alignment, source, target) ==
    LET aligned == {j \in DOMAIN alignment : alignment[j] # 0}
        pair(j) == <<source[alignment[j]], target[j]>>
        compared == {<<j, "arr">> : j \in {k \in aligned : pair(k)[1].arr # Unknown /\ pair(k)[2].arr # Unknown}}
               \cup {<<j, "dep">> : j \in {k \in aligned : pair(k)[1].dep # Unknown /\ pair(k)[2].dep # Unknown}}
        delta(c) == Distance(pair(c[1])[1][c[2]], pair(c[1])[2][c[2]])
        square(c) == delta(c) * delta(c)
        ends == <<FirstKnown(source), FirstKnown(target), LastKnown(source), LastKnown(target)>>
        first == IF ends[1] = Unknown \/ ends[2] = Unknown THEN Far ELSE Distance(ends[1], ends[2])
        duration == IF \E i \in 1 .. 4 : ends[i] = Unknown THEN Far
                    ELSE Distance(ends[3] - ends[1], ends[4] - ends[2])
    IN  << EditsAt(tier, source, target), first,
           IF compared = {} THEN Far ELSE MapThenSumSet(delta, compared),
           duration,
           IF compared = {} THEN 0 ELSE Max({delta(c) : c \in compared}),
           IF compared = {} THEN Far ELSE MapThenSumSet(square, compared),
           -Cardinality(aligned) >>

RankBelow(a, b) ==
    \E k \in 1 .. Len(a) : a[k] < b[k] /\ \A i \in 1 .. k - 1 : a[i] = b[i]

\* chooseCandidates: of the candidates of the best tier those no other one outranks.
BestCandidates(candidates) ==
    LET top == {c \in candidates : \A x \in candidates : TierRank(c.tier) <= TierRank(x.tier)}
    IN  {c \in top : \A x \in top : ~RankBelow(x.rank, c.rank)}
=============================================================================
