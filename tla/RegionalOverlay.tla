-------------------------- MODULE RegionalOverlay --------------------------
(***************************************************************************)
(* The regional overlay (Gtfs/RegionalOverlay): the timetables of regional *)
(* sources laid over the national one.  One compilation is a pipeline:     *)
(* after-midnight trips are folded onto the next day, the lines and dates  *)
(* on which the sources decide what runs are settled, every source trip is *)
(* matched to national trips, ties are broken by what is still available,  *)
(* each national trip is resolved in the order of ids, and the source      *)
(* journeys that no national trip carries are added.                       *)
(*                                                                         *)
(* A source trip is [source, route, cis, dates, calls, shape, revision],   *)
(* in file order, which is the order of source and trip id; a national     *)
(* trip is [route, dates, calls], in the order of ids.  The place a source *)
(* stop was matched to is part of its call.                                *)
(***************************************************************************)
EXTENDS TripMatching, SequencesExt

CONSTANTS
    Dates,              \* the dates of the timetable year: 1 .. n
    Day,                \* the length of a day, in the unit of the times
    BaseRoute,          \* national route |-> [line, mode, label, detour, systems]
    SourceRoute,        \* source route |-> [mode, label]
    LabelVariants,      \* pairs of labels that are variants of each other
    AuthorityModes,     \* source |-> modes in which its trip set decides
    NativeModes,        \* source |-> modes whose routes and stops may be imported
    Scopes,             \* sequence of [system, modes, excluded, window, maximumSilenced]
    MinimumTier,        \* capability |-> minimum_capability_tier
    BaseTimetables,     \* the national timetables that may be compiled
    SourceTimetables    \* the source timetables that may be compiled

NoLine == "no line"
NoLabel == ""
NoPlatform == "no platform"
NoShape == "no shape"
NoStop == <<>>

Capabilities == {"schedules", "call_boarding_points", "shapes"}

ASSUME InputAssumption ==
    /\ Dates = 1 .. Cardinality(Dates)
    /\ Day \in Nat \ {0}
    /\ DOMAIN MinimumTier = Capabilities
    /\ \A timetable \in BaseTimetables \cup SourceTimetables :
           Len(timetable) \in Nat /\ DOMAIN timetable = 1 .. Len(timetable)
    /\ \A timetable \in BaseTimetables : \A b \in DOMAIN timetable :
           /\ timetable[b].route \in DOMAIN BaseRoute
           /\ timetable[b].dates \subseteq Dates
    /\ \A timetable \in SourceTimetables : \A t \in DOMAIN timetable :
           /\ timetable[t].route \in DOMAIN SourceRoute
           /\ timetable[t].source \in DOMAIN AuthorityModes \cap DOMAIN NativeModes
           /\ timetable[t].dates \subseteq Dates

VARIABLES
    stage,          \* how far the compilation has come
    at,             \* the next source trip to match, or national trip to resolve
    base,           \* prepared.baseTripValues
    source,         \* source.tripRows
    authority,      \* authorityDatesByCis
    projections,    \* tripProjections: source trip |-> [line, route, dates]
    bindings,       \* accepted matches [trip, target, date, tier, alignment]
    pending,        \* ambiguities [trip, date, candidates]
    settled,        \* the bindings made by availability
    facts,          \* selectionByBinding: <<source trip, national trip>> |-> selection
    represented,    \* representedDatesBySourceTrip, as pairs
    claimed,        \* authoritativeClaims, as pairs
    selections,     \* national trip |-> what resolveTarget selects on each date
    slices,         \* slicesByBaseTrip
    additions       \* sourceTripAdditions

vars == <<stage, at, base, source, authority, projections, bindings, pending,
          settled, facts, represented, claimed, selections, slices, additions>>

SourceTrips == DOMAIN source
BaseTrips == DOMAIN base

Init ==
    /\ stage = "fold" /\ at = 1
    /\ base \in BaseTimetables
    /\ source \in SourceTimetables
    /\ authority = <<>> /\ projections = <<>>
    /\ bindings = {} /\ pending = {} /\ settled = {}
    /\ facts = <<>> /\ represented = {} /\ claimed = {}
    /\ selections = <<>> /\ slices = <<>> /\ additions = {}

-----------------------------------------------------------------------------
\* After-midnight trips.

DepartsAfterMidnight(calls) == calls # <<>> /\ calls[1].dep >= Day

PreviousDayTime(time) == IF time = Unknown THEN Unknown ELSE time - Day

FoldedCalls(calls) ==
    [i \in DOMAIN calls |-> [calls[i] EXCEPT !.arr = PreviousDayTime(@), !.dep = PreviousDayTime(@)]]

NextDayService(dates) == {d + 1 : d \in dates} \cap Dates

FoldAfterMidnightTrips ==
    /\ stage = "fold"
    /\ source' = [t \in SourceTrips |->
           IF DepartsAfterMidnight(source[t].calls)
           THEN [source[t] EXCEPT !.dates = NextDayService(@), !.calls = FoldedCalls(@)]
           ELSE source[t]]
    /\ stage' = "authority"
    /\ UNCHANGED <<at, base, authority, projections, bindings, pending, settled,
                   facts, represented, claimed, selections, slices, additions>>

-----------------------------------------------------------------------------
\* Routes that a source trip may belong to.

CompatibleModes(a, b) == a = b \/ {a, b} \subseteq {"bus", "trolleybus"}
SourceMode(t) == SourceRoute[source[t].route].mode

\* The national routes of the CIS line the source names for the trip.
DirectBaseRoutes(t) ==
    {r \in DOMAIN BaseRoute :
        /\ source[t].cis # NoLine /\ BaseRoute[r].line = source[t].cis
        /\ CompatibleModes(BaseRoute[r].mode, SourceMode(t))}

\* The national routes of the mode that bear one of the labels; a source route without a
\* label fits them all.
RoutesLabelled(sr, labels) ==
    {r \in DOMAIN BaseRoute :
        /\ CompatibleModes(BaseRoute[r].mode, SourceRoute[sr].mode)
        /\ SourceRoute[sr].label = NoLabel \/ BaseRoute[r].label \in labels}

DirectRoutesOf(sr) == UNION {DirectBaseRoutes(t) : t \in {u \in SourceTrips : source[u].route = sr}}

\* One trip of the route with a companion line is enough for the whole route.
RouteCandidates(sr) ==
    IF DirectRoutesOf(sr) # {} THEN DirectRoutesOf(sr)
    ELSE RoutesLabelled(sr, {SourceRoute[sr].label})

StructuralRoutes(sr) ==
    LET variants == UNION {v \in LabelVariants : SourceRoute[sr].label \in v}
    IN  RoutesLabelled(sr, {SourceRoute[sr].label} \cup variants) \ RouteCandidates(sr)

-----------------------------------------------------------------------------
\* Lines and dates on which the sources decide what runs.

PreferRegularRoutes(routes) ==
    LET regular == {r \in routes : ~BaseRoute[r].detour}
    IN  IF regular = {} THEN routes ELSE regular

SourceNativeAllowed(t) == SourceMode(t) \in NativeModes[source[t].source]
TripSetAuthorityAllowed(t) == SourceMode(t) \in AuthorityModes[source[t].source]

\* The line a trip claims to run on, and its national routes: the companion's, or the only
\* route its label fits, or one of the source's own.
AuthorityIdentity(t) ==
    LET sr == source[t].route
        structural == PreferRegularRoutes(RouteCandidates(sr))
    IN  IF source[t].cis # NoLine
        THEN {<<<<"cis", source[t].cis>>, PreferRegularRoutes(DirectBaseRoutes(t))>>}
        ELSE IF DirectRoutesOf(sr) = {} /\ Cardinality(structural) = 1
        THEN {<<<<"cis", BaseRoute[r].line>>, structural>> : r \in {x \in structural : BaseRoute[x].line # NoLine}}
        ELSE IF SourceNativeAllowed(t) THEN {<<<<"source", source[t].source, sr>>, {}>>}
        ELSE {}

\* Stops of imported trips get a place of their own; every other trip sees it too.
NativeStops ==
    UNION {{source[t].calls[i].stop : i \in DOMAIN source[t].calls} :
           t \in {u \in SourceTrips : SourceNativeAllowed(u) /\ source[u].dates # {}}}

FullyMapped(t) ==
    \A i \in DOMAIN source[t].calls :
        source[t].calls[i].mapped \/ source[t].calls[i].stop \in NativeStops

\* The route the trip runs on in the output, if it may run at all.
TargetRoutes(t, direct) ==
    {<<"base", r>> : r \in {x \in direct : Cardinality(direct) = 1 /\ BaseRoute[x].mode = SourceMode(t)}}
    \cup IF \/ Cardinality(direct) = 1 /\ \A r \in direct : BaseRoute[r].mode # SourceMode(t)
            \/ Cardinality(direct) # 1 /\ SourceNativeAllowed(t)
         THEN {<<"source", source[t].route>>} ELSE {}

Asserting == {t \in SourceTrips : TripSetAuthorityAllowed(t) /\ source[t].dates # {}}

\* Trips that can be shown as the source has them.
AuthorityCandidates ==
    {t \in Asserting :
        /\ source[t].calls # <<>> /\ FullyMapped(t)
        /\ \E id \in AuthorityIdentity(t) : TargetRoutes(t, id[2]) # {}}

LineOf(t) == (CHOOSE id \in AuthorityIdentity(t) : TRUE)[1]

\* Lines on which an active trip that cannot be shown withholds its dates.
AssertedLines(t) ==
    IF AuthorityIdentity(t) # {} THEN {LineOf(t)}
    ELSE {LineOf(u) : u \in {v \in SourceTrips : source[v].route = source[t].route /\ AuthorityIdentity(v) # {}}}

BlockedAuthorityDates ==
    UNION {AssertedLines(t) \X source[t].dates : t \in Asserting \ AuthorityCandidates}

BaseLine(b) ==
    IF BaseRoute[base[b].route].line = NoLine THEN <<"route", base[b].route>>
    ELSE <<"cis", BaseRoute[base[b].route].line>>

\* A line of the source's integrated system runs, in the window of its feed, what the source
\* runs, even nothing; too many silent lines at once withhold the rule.
ExtendIdsAuthority(known, scope) ==
    LET lines == {<<"cis", BaseRoute[r].line>> : r \in {x \in DOMAIN BaseRoute :
                    /\ scope.system \in BaseRoute[x].systems /\ BaseRoute[x].mode \in scope.modes
                    /\ BaseRoute[x].line \notin scope.excluded \cup {NoLine}}}
        running == {l \in lines : \E b \in BaseTrips : BaseLine(b) = l /\ base[b].dates \cap scope.window # {}}
        silenced == running \ DOMAIN known
    IN  IF Cardinality(silenced) > scope.maximumSilenced THEN known
        ELSE [l \in DOMAIN known \cup running |->
                 (IF l \in DOMAIN known THEN known[l] ELSE {})
                 \cup (IF l \in running THEN scope.window \cap Dates ELSE {})]

ClaimedDates ==
    [l \in {LineOf(t) : t \in AuthorityCandidates} |->
        UNION {source[t].dates : t \in {u \in AuthorityCandidates : LineOf(u) = l}}]

ExtendedAuthority == FoldLeft(ExtendIdsAuthority, ClaimedDates, Scopes)

\* Faulty variant: withheld dates are taken out before the silence rule instead of after it.
AuthorityDatesBeforeScopes ==
    LET blocked == BlockedAuthorityDates
        claims == [l \in DOMAIN ClaimedDates |-> {d \in ClaimedDates[l] : <<l, d>> \notin blocked}]
    IN  FoldLeft(ExtendIdsAuthority, claims, Scopes)

AuthorityDatesByCis ==
    LET extended == ExtendedAuthority
        blocked == BlockedAuthorityDates
    IN  [l \in DOMAIN extended |-> {d \in extended[l] : <<l, d>> \notin blocked}]

DecideAuthority ==
    /\ stage = "authority"
    /\ authority' = AuthorityDatesByCis
    /\ projections' =
          [t \in {u \in AuthorityCandidates : source[u].dates \cap authority'[LineOf(u)] # {}} |->
              [line |-> LineOf(t),
               route |-> CHOOSE r \in TargetRoutes(t, (CHOOSE id \in AuthorityIdentity(t) : TRUE)[2]) : TRUE,
               dates |-> source[t].dates \cap authority'[LineOf(t)]]]
    /\ stage' = "match"
    /\ UNCHANGED <<at, base, source, bindings, pending, settled, facts, represented, claimed,
                   selections, slices, additions>>

-----------------------------------------------------------------------------
\* Matching of source trips to national trips.

\* The trips of these routes, and among them those with the source's own pattern, if any.
TripsOn(routes, t) ==
    LET trips == {b \in BaseTrips : base[b].route \in routes /\ base[b].dates # {}}
        exact == {b \in trips : base[b].calls # <<>> /\ Pattern(base[b].calls) = Pattern(source[t].calls)}
    IN  IF exact # {} THEN exact ELSE trips

\* The trips of these routes that fit the source trip, each at its best tier.
Fitting(routes, t) ==
    {f \in {[target |-> b, tier |-> MatchTier(source[t].calls, base[b].calls)] :
               b \in {x \in TripsOn(routes, t) : base[x].calls # <<>>}} : f.tier # NoTier}

\* matchingCandidate: what fits, aligned and ranked.
Candidates(routes, t) ==
    {[target |-> f.target, tier |-> f.tier, alignment |-> f.alignment,
      rank |-> CandidateRank(f.tier, f.alignment, source[t].calls, base[f.target].calls)] :
     f \in {[target |-> x.target, tier |-> x.tier,
              alignment |-> AlignmentAt(x.tier, source[t].calls, base[x.target].calls)] :
             x \in Fitting(routes, t)}}

\* Candidates that publish the same journey: the same line, places and times.
CandidateEquivalence(c) == <<BaseLine(c.target), base[c.target].calls>>

OneJourney(candidates) == Cardinality({CandidateEquivalence(c) : c \in candidates}) <= 1

Matchable(t) == source[t].calls # <<>> /\ FullyMapped(t)

Bound(t, c, d) == [trip |-> t, target |-> c.target, date |-> d, tier |-> c.tier, alignment |-> c.alignment]

\* On every date the best of the trips of the named routes, or, where none of them runs, of
\* those only the label suggests.
MatchTrip ==
    /\ stage = "match" /\ at \in SourceTrips
    /\ LET sr == source[at].route
           named == IF Matchable(at) THEN Candidates(RouteCandidates(sr), at) ELSE {}
           suggested == IF Matchable(at) THEN Candidates(StructuralRoutes(sr), at) ELSE {}
           running(candidates, d) == {c \in candidates : d \in base[c.target].dates}
           choices == {[trip |-> at, date |-> d,
                        candidates |-> BestCandidates(IF running(named, d) # {} THEN running(named, d)
                                                      ELSE running(suggested, d))] :
                       d \in source[at].dates}
       IN  /\ bindings' = bindings \cup UNION {{Bound(at, c, x.date) : c \in x.candidates} :
                                                x \in {y \in choices : OneJourney(y.candidates)}}
           /\ pending' = pending \cup {x \in choices : ~OneJourney(x.candidates)}
    /\ at' = at + 1
    /\ UNCHANGED <<stage, base, source, authority, projections, settled, facts, represented, claimed,
                   selections, slices, additions>>

AllMatched ==
    /\ stage = "match" /\ at \notin SourceTrips
    /\ stage' = "availability"
    /\ UNCHANGED <<at, base, source, authority, projections, bindings, pending, settled,
                   facts, represented, claimed, selections, slices, additions>>

\* The candidates of an ambiguity that no other trip has on that date.
Unclaimed(p) ==
    {c \in p.candidates :
        \A x \in bindings : x.target = c.target /\ x.date = p.date => x.trip = p.trip}

\* The target a pending trip would take, when only one is left; proposals are collected
\* before any is accepted.
Proposals ==
    UNION {{Bound(p.trip, c, p.date) : c \in Unclaimed(p)} : p \in {q \in pending : Cardinality(Unclaimed(q)) = 1}}

\* Faulty variant: proposals for one target do not exclude each other.
AllProposals == Proposals

AcceptedProposals ==
    {x \in Proposals : \A y \in Proposals : y.target = x.target /\ y.date = x.date => y = x}

\* Faulty variant: only an ambiguity with no other candidate leaves.
StillPendingUnlessSingle(accepted) ==
    {p \in pending : \A x \in accepted : ~(x.trip = p.trip /\ x.date = p.date /\ Cardinality(p.candidates) = 1)}

StillPending(accepted) == {p \in pending : \A x \in accepted : ~(x.trip = p.trip /\ x.date = p.date)}

ResolveAvailability ==
    /\ stage = "availability"
    /\ LET accepted == AcceptedProposals
       IN  /\ bindings' = bindings \cup accepted
           /\ settled' = settled \cup accepted
           /\ pending' = StillPending(accepted)
           /\ stage' = IF accepted = {} THEN "select" ELSE stage
    /\ UNCHANGED <<at, base, source, authority, projections, facts, represented, claimed, selections,
                   slices, additions>>

-----------------------------------------------------------------------------
\* What a matched source trip says of a national trip.

BindingEligible(capability, x) ==
    /\ TierEnabled(MinimumTier[capability])
    /\ TierRank(x.tier) <= TierRank(MinimumTier[capability])

\* The source calls whose posts reach the output, with the source that has them.
AcceptedCalls ==
    UNION {{<<source[x.trip].source, source[x.trip].calls[i]>> :
                i \in {x.alignment[j] : j \in DOMAIN x.alignment} \ {0}} :
           x \in {y \in bindings : BindingEligible("call_boarding_points", y)}}
    \cup UNION {{<<source[t].source, source[t].calls[i]>> : i \in DOMAIN source[t].calls} :
                t \in DOMAIN projections}

\* Posts of two sources at one platform of one place are one post.
OutputStop(t, call, accepted) ==
    IF /\ call.platform # NoPlatform
       /\ \E x \in accepted : /\ x[1] # source[t].source
                               /\ x[2].place = call.place /\ x[2].platform = call.platform
    THEN <<"post", call.place, call.platform>>
    ELSE <<"stop", call.stop>>

\* selectionForBinding: the posts, the times and the shape the match may supply, and nothing
\* where it has none.
SelectionForBinding(x, accepted) ==
    LET t == x.trip
        calls == DOMAIN x.alignment
        call(j) == source[t].calls[x.alignment[j]]
        supplies(j, capability) == x.alignment[j] # 0 /\ BindingEligible(capability, x)
    IN  [stops |-> [j \in calls |->
                       IF supplies(j, "call_boarding_points") THEN OutputStop(t, call(j), accepted) ELSE NoStop],
         shape |-> IF \A j \in calls : supplies(j, "shapes") THEN source[t].shape ELSE NoShape,
         arr |-> [j \in calls |-> IF supplies(j, "schedules") THEN call(j).arr ELSE Unknown],
         dep |-> [j \in calls |-> IF supplies(j, "schedules") THEN call(j).dep ELSE Unknown]]

MatchOf(t, b) == CHOOSE x \in bindings : x.trip = t /\ x.target = b

SelectFacts ==
    /\ stage = "select"
    /\ LET accepted == AcceptedCalls
       IN  facts' = [pair \in {<<x.trip, x.target>> : x \in bindings} |->
                        SelectionForBinding(MatchOf(pair[1], pair[2]), accepted)]
    /\ stage' = "resolve" /\ at' = 1
    /\ UNCHANGED <<base, source, authority, projections, bindings, pending, settled, represented,
                   claimed, selections, slices, additions>>

Facts(t, b) == facts[<<t, b>>]

CompatibleValues(f, g, neutral) == \A j \in DOMAIN f : f[j] = neutral \/ g[j] = neutral \/ f[j] = g[j]

CompatibleSelections(f, g) ==
    /\ CompatibleValues(f.stops, g.stops, NoStop)
    /\ f.shape = NoShape \/ g.shape = NoShape \/ f.shape = g.shape
    /\ CompatibleValues(f.arr, g.arr, Unknown)
    /\ CompatibleValues(f.dep, g.dep, Unknown)

-----------------------------------------------------------------------------
\* Resolution of one national trip.

LeastOf(S) == CHOOSE x \in S : \A y \in S : x <= y

BoundOn(t, b, d) == \E x \in bindings : x.trip = t /\ x.target = b /\ x.date = d

\* One claim for every distinct set of facts: the first trip in file order that has them.
Claims(b, d) ==
    {t \in SourceTrips :
        /\ BoundOn(t, b, d)
        /\ \A u \in 1 .. t - 1 : BoundOn(u, b, d) => Facts(u, b) # Facts(t, b)}

ClaimsAgree(b, d) ==
    \A t, u \in Claims(b, d) : CompatibleSelections(Facts(t, b), Facts(u, b))

\* The first value in file order that is not neutral.
FirstTold(neutral, values) ==
    LET told == {t \in DOMAIN values : values[t] # neutral}
    IN  IF told = {} THEN neutral ELSE values[LeastOf(told)]

\* mergeSelections: of every fact, at every call, the first that is told.
MergedFacts(trips, b) ==
    LET calls == DOMAIN base[b].calls
    IN  [stops |-> [j \in calls |-> FirstTold(NoStop, [t \in trips |-> Facts(t, b).stops[j]])],
         shape |-> FirstTold(NoShape, [t \in trips |-> Facts(t, b).shape]),
         arr |-> [j \in calls |-> FirstTold(Unknown, [t \in trips |-> Facts(t, b).arr[j]])],
         dep |-> [j \in calls |-> FirstTold(Unknown, [t \in trips |-> Facts(t, b).dep[j]])]]

\* Of conflicting claims of one source the only newest revision.
NewestClaims(b, d) ==
    {t \in Claims(b, d) : \A u \in Claims(b, d) : source[u].revision <= source[t].revision}

Superseding(b, d) ==
    /\ Cardinality({source[t].source : t \in Claims(b, d)}) = 1
    /\ Cardinality(NewestClaims(b, d)) = 1

Quarantined(b, d) == ~ClaimsAgree(b, d) /\ ~Superseding(b, d)

\* The trips whose facts are selected, before completeness and authority are looked at.
Contributing(b, d) ==
    IF ClaimsAgree(b, d) THEN Claims(b, d)
    ELSE IF Superseding(b, d) THEN NewestClaims(b, d) ELSE {}

Projected(t, d) == t \in DOMAIN projections /\ d \in projections[t].dates

\* The match supplies every call of the source trip, with times and posts.
Complete(t, b) ==
    LET x == MatchOf(t, b)
    IN  /\ x.alignment = IdentityAlignment(Len(source[t].calls))
        /\ BindingEligible("schedules", x) /\ BindingEligible("call_boarding_points", x)

\* Faulty variant: a projected trip may be carried in several places.
ResolvedDatesUnclaimed(b) ==
    {d \in base[b].dates :
        /\ Contributing(b, d) # {}
        /\ LET t == LeastOf(Contributing(b, d)) IN Projected(t, d) => Complete(t, b)}

\* The dates on which the national trip carries a source trip: a projected trip only as a
\* whole, and in one place.
ResolvedDates(b) ==
    {d \in base[b].dates :
        /\ Contributing(b, d) # {}
        /\ LET t == LeastOf(Contributing(b, d))
           IN  Projected(t, d) => Complete(t, b) /\ <<t, d>> \notin claimed}

SelectionsOf(b) ==
    [d \in ResolvedDates(b) |->
        [trip |-> LeastOf(Contributing(b, d)),
         sources |-> {source[t].source : t \in Contributing(b, d)},
         facts |-> MergedFacts(Contributing(b, d), b)]]

\* Faulty variant: every matched trip counts, whatever was selected.
RepresentedByMatch(b, selected) ==
    {p \in SourceTrips \X base[b].dates : BoundOn(p[1], b, p[2])}

\* Source trips whose dates need no addition: those of a quarantined conflict, and those
\* that agree with what was selected.
RepresentedBy(b, selected) ==
    {p \in SourceTrips \X base[b].dates : Quarantined(b, p[2]) /\ p[1] \in Claims(b, p[2])}
    \cup {p \in SourceTrips \X DOMAIN selected :
            BoundOn(p[1], b, p[2]) /\ CompatibleSelections(selected[p[2]].facts, Facts(p[1], b))}

\* Dates the national trip keeps: where a source decides, only those it carries something on.
RetainedDates(b, selected) ==
    {d \in base[b].dates :
        BaseLine(b) \in DOMAIN authority /\ d \in authority[BaseLine(b)] => d \in DOMAIN selected}

NoSelection == {}

\* Retained dates grouped by what is selected on them; the first date speaks for its group.
SlicesOf(b, selected) ==
    LET retained == RetainedDates(b, selected)
        key(d) == IF d \in DOMAIN selected THEN {selected[d].facts} ELSE NoSelection
        groups == {{d \in retained : key(d) = key(e)} : e \in retained}
        trip(g) == selected[LeastOf(g)].trip
        changesMode(g) == /\ LeastOf(g) \in DOMAIN selected /\ trip(g) \in DOMAIN projections
                          /\ SourceMode(trip(g)) # BaseRoute[base[b].route].mode
    IN  {[dates |-> g, facts |-> key(LeastOf(g)),
          route |-> IF changesMode(g) THEN projections[trip(g)].route ELSE <<"base", base[b].route>>] :
         g \in groups}

ResolveTarget ==
    /\ stage = "resolve" /\ at \in BaseTrips
    /\ LET selected == SelectionsOf(at)
       IN  /\ selections' = Append(selections, selected)
           /\ slices' = Append(slices, SlicesOf(at, selected))
           /\ represented' = represented \cup RepresentedBy(at, selected)
           /\ claimed' = claimed \cup {<<selected[d].trip, d>> :
                             d \in {x \in DOMAIN selected : Projected(selected[x].trip, x)}}
    /\ at' = at + 1
    /\ UNCHANGED <<stage, base, source, authority, projections, bindings, pending, settled, facts, additions>>

-----------------------------------------------------------------------------
\* Source journeys no national trip carries.

UnrepresentedDates(t) == {d \in projections[t].dates : <<t, d>> \notin represented}

SameAddition(t, u) ==
    /\ SourceMode(t) = SourceMode(u)
    /\ SourceRoute[source[t].route].label = SourceRoute[source[u].route].label
    /\ UnrepresentedDates(t) = UnrepresentedDates(u)
    /\ Pattern(source[t].calls) = Pattern(source[u].calls)
    /\ \A i \in DOMAIN source[t].calls : /\ source[t].calls[i].arr = source[u].calls[i].arr
                                         /\ source[t].calls[i].dep = source[u].calls[i].dep

AddSourceTrips ==
    /\ stage = "resolve" /\ at \notin BaseTrips
    /\ LET missing == {t \in DOMAIN projections : UnrepresentedDates(t) # {}}
           groups == {{u \in missing : SameAddition(t, u)} : t \in missing}
       IN  additions' = {[trips |-> g, dates |-> UnrepresentedDates(LeastOf(g)),
                          route |-> projections[LeastOf(g)].route] : g \in groups}
    /\ stage' = "done"
    /\ UNCHANGED <<at, base, source, authority, projections, bindings, pending, settled,
                   facts, represented, claimed, selections, slices>>

\* The compilation has nothing left to decide.
Terminated == stage = "done" /\ UNCHANGED vars

Next ==
    \/ FoldAfterMidnightTrips \/ DecideAuthority \/ MatchTrip \/ AllMatched
    \/ ResolveAvailability \/ SelectFacts \/ ResolveTarget \/ AddSourceTrips
    \/ Terminated

Spec == Init /\ [][Next]_vars

-----------------------------------------------------------------------------
\* Properties.

Done == stage = "done"

\* The dates a national trip is still published on, and the source facts it carries there.
PublishedDates(b) == UNION {s.dates : s \in slices[b]}
CarriedFacts(b, d) == UNION {s.facts : s \in {x \in slices[b] : d \in x.dates}}

AddedOn(t, d) == {a \in additions : t \in a.trips /\ d \in a.dates}
SelectedOn(t, d) == {b \in BaseTrips : d \in DOMAIN selections[b] /\ selections[b][d].trip = t}

\* Every variable keeps its type: authority and projections stay inside the timetable year and
\* the dates on which their trips run, and a binding is of a date both of its trips run on.
TypeOK ==
    /\ stage \in {"fold", "authority", "match", "availability", "select", "resolve", "done"}
    /\ \A l \in DOMAIN authority : authority[l] \subseteq Dates
    /\ \A t \in DOMAIN projections :
           projections[t].dates \subseteq source[t].dates /\ projections[t].dates # {}
    /\ \A x \in bindings : x.date \in source[x.trip].dates \cap base[x.target].dates
    /\ settled \subseteq bindings
    /\ claimed \subseteq represented
    /\ represented \cup claimed \subseteq SourceTrips \X Dates

\* A line on which some active trip of a source cannot be shown keeps every national trip of
\* that date, whatever the other trips of the line or the silence rule claim.
WithheldKeepsNational ==
    Done => \A t \in Asserting \ AuthorityCandidates : \A b \in BaseTrips :
        BaseLine(b) \in AssertedLines(t) => source[t].dates \cap base[b].dates \subseteq PublishedDates(b)

\* A journey the source decides on is published once: by one national trip that carries it, or
\* by one added trip, never by both, whatever ties, equal journeys and revisions there are.
ShownOnce ==
    Done => \A t \in DOMAIN projections : \A d \in projections[t].dates :
        Cardinality(SelectedOn(t, d)) + Cardinality(AddedOn(t, d)) <= 1

\* The journey is whole in a published national trip: every call of it, times and posts
\* included, and nothing that trip carries contradicts it.
CarriedWhole(t, b, d) ==
    /\ BoundOn(t, b, d) /\ Complete(t, b)
    /\ \E f \in CarriedFacts(b, d) : CompatibleSelections(f, Facts(t, b))

InConflict(t, b, d) == BoundOn(t, b, d) /\ Quarantined(b, d)

\* A match of a part of the journey does not contradict what is selected from another trip.
JoinsAnother(t, b, d) ==
    /\ BoundOn(t, b, d) /\ ~Complete(t, b)
    /\ d \in DOMAIN selections[b] /\ selections[b][d].trip # t
    /\ CompatibleSelections(selections[b][d].facts, Facts(t, b))

\* A journey the source decides on is published: added, or whole in a national trip, unless
\* claims conflict there.  A partial match is never itself what a national trip carries; it
\* gives no way to the whole journey in one case only, when it joins the selection of
\* another trip (PartialYields).
NoneLost ==
    Done => \A t \in DOMAIN projections : \A d \in projections[t].dates :
        \/ AddedOn(t, d) # {}
        \/ \E b \in BaseTrips : CarriedWhole(t, b, d) \/ InConflict(t, b, d) \/ JoinsAnother(t, b, d)

\* src/README.md:111-112: bounded pattern edits "are not complete service coverage and yield
\* to full source trip projection on authoritative dates"; so a journey the source decides on
\* and no national trip carries whole is added, unless claims conflict.
PartialYields ==
    Done => \A t \in DOMAIN projections : \A d \in projections[t].dates :
        AddedOn(t, d) # {} \/ \E b \in BaseTrips : CarriedWhole(t, b, d) \/ InConflict(t, b, d)

\* A national trip given to a source trip because it was the only one left is on that date no
\* other source trip's.
AvailabilityExclusive ==
    \A x \in settled : \A y \in bindings : y.target = x.target /\ y.date = x.date => y.trip = x.trip

\* A round of availability that is not the last one settles something and takes nothing back:
\* with the absence of deadlock this is why the compilation ends (TripMatching.fs:356-364).
RoundsSettle ==
    [][/\ bindings \subseteq bindings'
       /\ stage = "availability" /\ stage' = stage => pending' \subseteq pending /\ pending' # pending]_vars

\* What a conflict of facts leaves behind: src/README.md:170-171 and the diagnostic of
\* Projection.fs:294 say that the national value survives, so the national trip still runs.
NationalSurvives ==
    Done => \A b \in BaseTrips : \A d \in base[b].dates :
        Quarantined(b, d) => d \in PublishedDates(b)
=============================================================================
