------------------------ MODULE RegionalOverlayProofs ------------------------
(***************************************************************************)
(* What the regional overlay promises of its result, for every timetable,  *)
(* policy and number of sources: withheld dates keep the national trips,   *)
(* and a journey a source decides on is published, and once.               *)
(***************************************************************************)
EXTENDS RegionalOverlay, FiniteSetTheorems, SequenceTheorems, WellFoundedInduction, TLAPS

-----------------------------------------------------------------------------
\* Least elements: the head of a file, the first date of a group.

\* A finite set of integers has a least element: a smallest subset without one would,
\* short of any of its elements, have one.
LEMMA FiniteHasLeast ==
    ASSUME NEW S \in SUBSET Int, IsFiniteSet(S), S # {}
    PROVE  \E x \in S : \A y \in S : x <= y
<1> DEFINE R == StrictSubsetOrdering(S)
           Bad == {T \in FiniteSubsetsOf(S) : T # {} /\ ~\E x \in T : \A y \in T : x <= y}
<1>1. IsWellFoundedOn(R, FiniteSubsetsOf(S))
    BY FS_StrictSubsetOrderingWellFounded
<1>2. SUFFICES ASSUME Bad # {} PROVE FALSE
    <2>1. S \in FiniteSubsetsOf(S)
        BY DEF FiniteSubsetsOf
    <2> QED BY <2>1
<1>3. PICK T \in Bad : \A U \in Bad : <<U, T>> \notin R
    <2>1. Bad \subseteq FiniteSubsetsOf(S)
        OBVIOUS
    <2> HIDE DEF Bad, R
    <2> QED BY <1>1, <1>2, <2>1, WFMin
<1>4. PICK x \in T : TRUE
    OBVIOUS
<1>5. IsFiniteSet(T) /\ T \subseteq S
    BY <1>3 DEF FiniteSubsetsOf
<1>6. IsFiniteSet(T \ {x})
    BY <1>5, FS_RemoveElement
<1>7. T \ {x} # {}
    BY <1>3, <1>4, <1>5
<1>8. <<T \ {x}, T>> \in R
    BY <1>4, <1>5 DEF StrictSubsetOrdering
<1>9. PICK z \in T \ {x} : \A y \in T \ {x} : z <= y
    <2>1. T \ {x} \notin Bad
        BY <1>3, <1>8
    <2> QED BY <1>5, <1>6, <1>7, <2>1 DEF FiniteSubsetsOf
<1>10. \E m \in T : \A y \in T : m <= y
    <2>1. CASE x <= z
        BY <1>4, <1>5, <1>9, <2>1
    <2>2. CASE ~(x <= z)
        BY <1>4, <1>5, <1>9, <2>2
    <2> QED BY <2>1, <2>2
<1> QED BY <1>3, <1>10

LEMMA LeastIsLeast ==
    ASSUME NEW S \in SUBSET Nat, S # {}
    PROVE  LeastOf(S) \in S /\ \A y \in S : LeastOf(S) <= y
<1>1. PICK k \in S : TRUE
    OBVIOUS
<1> DEFINE below == {y \in S : y <= k}
<1>2. \A y \in below : y \in Int /\ y \in 0 .. k
    OBVIOUS
<1>3. IsFiniteSet(below) /\ below \in SUBSET Int /\ below # {}
    <2>1. k \in below /\ IsFiniteSet(0 .. k)
        BY FS_Interval
    <2> HIDE DEF below
    <2> QED BY <1>2, <2>1, FS_Subset
<1>4. PICK x \in below : \A y \in below : x <= y
    <2> HIDE DEF below
    <2> QED BY <1>3, FiniteHasLeast
<1>5. \A y \in S : x <= y
    BY <1>4
<1> QED BY <1>5 DEF LeastOf

-----------------------------------------------------------------------------
\* The rounds of availability.

\* A round that is not the last one settles a pending ambiguity, and no step takes a
\* binding back.
THEOREM RoundsMakeProgress == Spec => RoundsSettle
<1> DEFINE Settles ==
        /\ bindings \subseteq bindings'
        /\ stage = "availability" /\ stage' = stage => pending' \subseteq pending /\ pending' # pending
<1>1. ASSUME Next PROVE Settles \/ UNCHANGED vars
    <2>1. CASE MatchTrip
        BY <2>1 DEF MatchTrip
    <2>2. CASE ResolveAvailability
        <3>1. bindings \subseteq bindings'
            BY <2>2 DEF ResolveAvailability
        <3>2. ASSUME stage' = stage PROVE pending' \subseteq pending /\ pending' # pending
            <4>1. AcceptedProposals # {} /\ pending' = StillPending(AcceptedProposals)
                BY <2>2, <3>2 DEF ResolveAvailability
            <4>2. PICK x \in AcceptedProposals : TRUE
                BY <4>1
            <4>3. PICK p \in pending : x.trip = p.trip /\ x.date = p.date
                BY <4>2 DEF AcceptedProposals, Proposals, Bound
            <4>4. p \notin StillPending(AcceptedProposals)
                BY <4>2, <4>3 DEF StillPending
            <4> QED BY <4>1, <4>3, <4>4 DEF StillPending
        <3> QED BY <3>1, <3>2
    <2>3. CASE FoldAfterMidnightTrips \/ DecideAuthority \/ AllMatched \/ SelectFacts
               \/ ResolveTarget \/ AddSourceTrips
        BY <2>3 DEF FoldAfterMidnightTrips, DecideAuthority, AllMatched, SelectFacts,
                    ResolveTarget, AddSourceTrips
    <2>4. CASE Terminated
        BY <2>4 DEF Terminated
    <2> QED BY <1>1, <2>1, <2>2, <2>3, <2>4 DEF Next
<1> HIDE DEF Settles
<1>2. [Next]_vars => [Settles]_vars
    BY <1>1
<1> QED BY <1>2, PTL DEF Spec, RoundsSettle, Settles

\* Nothing is settled before the rounds begin, and what is settled is bound.
SettledAreBound ==
    /\ settled \subseteq bindings
    /\ stage \in {"fold", "authority", "match"} => settled = {}

LEMMA AcceptedAreExclusive ==
    ASSUME SettledAreBound, AvailabilityExclusive, ResolveAvailability
    PROVE  AvailabilityExclusive'
<1>1. /\ bindings' = bindings \cup AcceptedProposals
      /\ settled' = settled \cup AcceptedProposals
    BY DEF ResolveAvailability
<1>2. ASSUME NEW x \in AcceptedProposals, NEW y \in bindings,
             y.target = x.target, y.date = x.date
      PROVE  y.trip = x.trip
    <2>1. PICK p \in pending : \E c \in Unclaimed(p) : x = Bound(p.trip, c, p.date)
        BY <1>2 DEF AcceptedProposals, Proposals
    <2>2. PICK c \in Unclaimed(p) : x = Bound(p.trip, c, p.date)
        BY <2>1
    <2> QED BY <1>2, <2>2 DEF Unclaimed, Bound
<1>3. ASSUME NEW x \in settled, NEW y \in AcceptedProposals,
             y.target = x.target, y.date = x.date
      PROVE  y.trip = x.trip
    BY <1>2, <1>3 DEF SettledAreBound
<1> QED BY <1>1, <1>2, <1>3 DEF AvailabilityExclusive, AcceptedProposals

\* A national trip settled on one source trip is on that date no other's, however many
\* ambiguities compete for it and however many rounds it takes.
THEOREM SettledTargetsAreExclusive == Spec => []AvailabilityExclusive
<1> DEFINE IInv == SettledAreBound /\ AvailabilityExclusive
<1>1. Init => IInv
    BY DEF Init, SettledAreBound, AvailabilityExclusive
<1>2. ASSUME IInv, [Next]_vars PROVE IInv'
    <2>1. CASE MatchTrip
        BY <1>2, <2>1 DEF MatchTrip, SettledAreBound, AvailabilityExclusive
    <2>2. CASE ResolveAvailability
        BY <1>2, <2>2, AcceptedAreExclusive DEF ResolveAvailability, SettledAreBound
    <2>3. CASE FoldAfterMidnightTrips \/ DecideAuthority \/ AllMatched \/ SelectFacts
               \/ ResolveTarget \/ AddSourceTrips
        BY <1>2, <2>3 DEF FoldAfterMidnightTrips, DecideAuthority, AllMatched, SelectFacts,
                          ResolveTarget, AddSourceTrips, SettledAreBound, AvailabilityExclusive
    <2>4. CASE Terminated \/ UNCHANGED vars
        BY <1>2, <2>4 DEF Terminated, vars, SettledAreBound, AvailabilityExclusive
    <2> QED BY <1>2, <2>1, <2>2, <2>3, <2>4 DEF Next
<1> QED BY <1>1, <1>2, PTL DEF Spec

-----------------------------------------------------------------------------
\* What the stages leave fixed.

\* The timetables are files: trips in order, on dates of the timetable year.
InputKnown ==
    /\ Len(base) \in Nat /\ BaseTrips = 1 .. Len(base)
    /\ \E n \in Nat : SourceTrips = 1 .. n
    /\ \A b \in BaseTrips : base[b].dates \subseteq Dates

LEMMA DatesAreNaturals == \A d \in Dates : d \in Nat
<1>1. PICK n : Dates = 1 .. n
    BY InputAssumption
<1> QED BY <1>1

LEMMA InputStaysKnown == Spec => []InputKnown
<1>1. ASSUME Init PROVE InputKnown
    <2>1. base \in BaseTimetables /\ source \in SourceTimetables
        BY <1>1 DEF Init
    <2>2. Len(base) \in Nat /\ DOMAIN base = 1 .. Len(base)
        BY <2>1, InputAssumption
    <2>3. Len(source) \in Nat /\ DOMAIN source = 1 .. Len(source)
        BY <2>1, InputAssumption
    <2>4. \A b \in DOMAIN base : base[b].dates \subseteq Dates
        BY <2>1, InputAssumption
    <2> QED BY <2>2, <2>3, <2>4 DEF InputKnown, BaseTrips, SourceTrips
<1>2. ASSUME InputKnown, [Next]_vars PROVE InputKnown'
    <2>1. base' = base /\ DOMAIN source' = DOMAIN source
        BY <1>2 DEF Next, vars, FoldAfterMidnightTrips, DecideAuthority, MatchTrip, AllMatched,
                    ResolveAvailability, SelectFacts, ResolveTarget, AddSourceTrips, Terminated, SourceTrips
    <2> QED BY <1>2, <2>1 DEF InputKnown, BaseTrips, SourceTrips
<1> QED BY <1>1, <1>2, PTL DEF Spec

\* The source trips are final once they are folded, and so is what is read from them alone.
LEMMA SourceFixesBlocked ==
    ASSUME source' = source PROVE BlockedAuthorityDates' = BlockedAuthorityDates
BY DEF BlockedAuthorityDates, AssertedLines, Asserting, AuthorityCandidates, LineOf, AuthorityIdentity,
       FullyMapped, TargetRoutes, DirectBaseRoutes, DirectRoutesOf, RouteCandidates, RoutesLabelled,
       SourceNativeAllowed, TripSetAuthorityAllowed, NativeStops, SourceMode, SourceTrips, PreferRegularRoutes

-----------------------------------------------------------------------------
\* One national trip.

\* What its slices keep: every retained date, with the facts selected on it.
LEMMA SlicesKeep ==
    ASSUME InputKnown, NEW b \in BaseTrips, NEW selected,
           NEW d \in RetainedDates(b, selected)
    PROVE  \E s \in SlicesOf(b, selected) :
               d \in s.dates /\ (d \in DOMAIN selected => s.facts = {selected[d].facts})
<1> DEFINE key(x) == IF x \in DOMAIN selected THEN {selected[x].facts} ELSE NoSelection
           trip(h) == selected[LeastOf(h)].trip
           changesMode(h) == /\ LeastOf(h) \in DOMAIN selected /\ trip(h) \in DOMAIN projections
                             /\ SourceMode(trip(h)) # BaseRoute[base[b].route].mode
           slice(h) == [dates |-> h, facts |-> key(LeastOf(h)),
                        route |-> IF changesMode(h) THEN projections[trip(h)].route
                                  ELSE <<"base", base[b].route>>]
           group(e) == {x \in RetainedDates(b, selected) : key(x) = key(e)}
           g == group(d)
<1>1. PICK s \in SlicesOf(b, selected) : s.dates = g /\ s.facts = key(LeastOf(g))
    <2>1. SlicesOf(b, selected) = {slice(h) : h \in {group(e) : e \in RetainedDates(b, selected)}}
        BY DEF SlicesOf
    <2>2. slice(g).dates = g /\ slice(g).facts = key(LeastOf(g))
        OBVIOUS
    <2> HIDE DEF slice, g, key
    <2>3. slice(g) \in SlicesOf(b, selected)
        BY <2>1 DEF g
    <2> QED BY <2>2, <2>3
<1>2. d \in g
    OBVIOUS
<1>3. LeastOf(g) \in g
    <2>1. g \in SUBSET Nat
        BY DatesAreNaturals DEF InputKnown, RetainedDates
    <2> HIDE DEF g
    <2> QED BY <1>2, <2>1, LeastIsLeast
<1> QED BY <1>1, <1>2, <1>3

LEMMA ContributorsAreBound ==
    ASSUME NEW b, NEW d, NEW t \in Contributing(b, d)
    PROVE  t \in SourceTrips /\ BoundOn(t, b, d)
BY DEF Contributing, NewestClaims, Claims

LEMMA FirstContributor ==
    ASSUME InputKnown, NEW b, NEW d, Contributing(b, d) # {}
    PROVE  /\ LeastOf(Contributing(b, d)) \in Contributing(b, d)
           /\ \A t \in Contributing(b, d) : LeastOf(Contributing(b, d)) <= t
<1>1. \A t \in Contributing(b, d) : t \in Nat
    BY ContributorsAreBound DEF InputKnown
<1> QED BY <1>1, LeastIsLeast

\* Of values told, the head of the file's comes first.
LEMMA HeadTellsFirst ==
    ASSUME NEW values, NEW h \in DOMAIN values, \A t \in DOMAIN values : t \in Nat /\ h <= t, NEW neutral
    PROVE  FirstTold(neutral, values) = neutral \/ values[h] = neutral \/ FirstTold(neutral, values) = values[h]
<1> DEFINE told == {t \in DOMAIN values : values[t] # neutral}
<1>1. ASSUME values[h] # neutral PROVE FirstTold(neutral, values) = values[h]
    <2>1. h \in told
        BY <1>1
    <2>2. told \in SUBSET Nat
        OBVIOUS
    <2>3. LeastOf(told) \in told /\ \A t \in told : LeastOf(told) <= t
        <3> HIDE DEF told
        <3> QED BY <2>1, <2>2, LeastIsLeast
    <2>4. LeastOf(told) = h
        <3>1. LeastOf(told) \in DOMAIN values /\ LeastOf(told) <= h
            BY <2>1, <2>3
        <3>2. h <= LeastOf(told) /\ h \in Nat /\ LeastOf(told) \in Nat
            BY <3>1
        <3> HIDE DEF told
        <3> QED BY <3>1, <3>2
    <2> QED BY <2>1, <2>4 DEF FirstTold
<1> QED BY <1>1

\* What is merged from several trips does not contradict the first of them.
LEMMA MergeFitsItsHead ==
    ASSUME NEW trips, NEW h \in trips, \A t \in trips : t \in Nat /\ h <= t, NEW b
    PROVE  CompatibleSelections(MergedFacts(trips, b), Facts(h, b))
<1> DEFINE calls == DOMAIN base[b].calls
           merged == MergedFacts(trips, b)
           stop(j) == [t \in trips |-> Facts(t, b).stops[j]]
           arr(j) == [t \in trips |-> Facts(t, b).arr[j]]
           dep(j) == [t \in trips |-> Facts(t, b).dep[j]]
           shape == [t \in trips |-> Facts(t, b).shape]
<1>1. /\ merged.stops = [j \in calls |-> FirstTold(NoStop, stop(j))]
      /\ merged.arr = [j \in calls |-> FirstTold(Unknown, arr(j))]
      /\ merged.dep = [j \in calls |-> FirstTold(Unknown, dep(j))]
      /\ merged.shape = FirstTold(NoShape, shape)
    BY DEF MergedFacts
<1>2. \A j \in calls : LET v == FirstTold(NoStop, stop(j)) IN
          v = NoStop \/ stop(j)[h] = NoStop \/ v = stop(j)[h]
    BY HeadTellsFirst
<1>3. \A j \in calls : LET v == FirstTold(Unknown, arr(j)) IN
          v = Unknown \/ arr(j)[h] = Unknown \/ v = arr(j)[h]
    BY HeadTellsFirst
<1>4. \A j \in calls : LET v == FirstTold(Unknown, dep(j)) IN
          v = Unknown \/ dep(j)[h] = Unknown \/ v = dep(j)[h]
    BY HeadTellsFirst
<1>5. LET v == FirstTold(NoShape, shape) IN v = NoShape \/ shape[h] = NoShape \/ v = shape[h]
    BY HeadTellsFirst
<1> HIDE DEF merged
<1> DEFINE head == Facts(h, b)
<1>6. CompatibleValues(merged.stops, head.stops, NoStop)
    BY <1>1, <1>2 DEF CompatibleValues
<1>7. CompatibleValues(merged.arr, head.arr, Unknown)
    BY <1>1, <1>3 DEF CompatibleValues
<1>8. CompatibleValues(merged.dep, head.dep, Unknown)
    BY <1>1, <1>4 DEF CompatibleValues
<1>9. merged.shape = NoShape \/ head.shape = NoShape \/ merged.shape = head.shape
    BY <1>1, <1>5
<1> HIDE DEF head
<1>10. CompatibleSelections(merged, head)
    BY <1>6, <1>7, <1>8, <1>9, Zenon DEF CompatibleSelections
<1> QED BY <1>10 DEF merged, head

\* What is selected on a date comes from a trip bound there, which it does not contradict.
LEMMA SelectionsFit ==
    ASSUME InputKnown, NEW b, NEW d \in DOMAIN SelectionsOf(b)
    PROVE  LET selected == SelectionsOf(b)[d] IN
           /\ d \in base[b].dates
           /\ selected.trip \in SourceTrips /\ BoundOn(selected.trip, b, d)
           /\ CompatibleSelections(selected.facts, Facts(selected.trip, b))
           /\ Projected(selected.trip, d) => Complete(selected.trip, b) /\ <<selected.trip, d>> \notin claimed
<1> DEFINE trips == Contributing(b, d)
<1>1. d \in base[b].dates /\ trips # {}
    BY DEF SelectionsOf, ResolvedDates
<1>2. Projected(LeastOf(trips), d) => Complete(LeastOf(trips), b) /\ <<LeastOf(trips), d>> \notin claimed
    BY DEF SelectionsOf, ResolvedDates
<1>3. SelectionsOf(b)[d].trip = LeastOf(trips) /\ SelectionsOf(b)[d].facts = MergedFacts(trips, b)
    BY DEF SelectionsOf
<1>4. LeastOf(trips) \in trips /\ \A t \in trips : LeastOf(trips) <= t
    BY <1>1, FirstContributor
<1>5. LeastOf(trips) \in SourceTrips /\ BoundOn(LeastOf(trips), b, d)
    BY <1>4, ContributorsAreBound
<1>6. \A t \in trips : t \in Nat
    BY ContributorsAreBound DEF InputKnown
<1>7. CompatibleSelections(MergedFacts(trips, b), Facts(LeastOf(trips), b))
    <2> HIDE DEF trips
    <2> QED BY <1>4, <1>6, MergeFitsItsHead
<1> HIDE DEF trips
<1> QED BY <1>1, <1>2, <1>3, <1>5, <1>7

\* What counts as represented: a trip bound there, in a quarantined conflict or not in
\* contradiction to what is selected.
Represents(b, selected, t, d) ==
    /\ d \in base[b].dates /\ BoundOn(t, b, d)
    /\ \/ Quarantined(b, d)
       \/ d \in DOMAIN selected /\ CompatibleSelections(selected[d].facts, Facts(t, b))

LEMMA RepresentedOnlyThen ==
    ASSUME InputKnown, NEW b, NEW t, NEW d, <<t, d>> \in RepresentedBy(b, SelectionsOf(b))
    PROVE  Represents(b, SelectionsOf(b), t, d)
<1> DEFINE selected == SelectionsOf(b)
<1>1. DOMAIN selected \subseteq base[b].dates
    BY DEF SelectionsOf, ResolvedDates
<1> HIDE DEF selected
<1>2. <<t, d>> \in RepresentedBy(b, selected)
    BY DEF selected
<1>3. Represents(b, selected, t, d)
    BY <1>1, <1>2 DEF RepresentedBy, Represents, Claims
<1> QED BY <1>3 DEF selected

LEMMA SelectedIsRepresented ==
    ASSUME InputKnown, NEW b, NEW d \in DOMAIN SelectionsOf(b)
    PROVE  <<SelectionsOf(b)[d].trip, d>> \in RepresentedBy(b, SelectionsOf(b))
BY SelectionsFit DEF RepresentedBy

-----------------------------------------------------------------------------
\* The resolution of all national trips.

Resolving == stage \in {"resolve", "done"}

IsSequence(s) == \E S : s \in Seq(S)

IsAppended(r, s, e) == r = Append(s, e)

\* The national trips are resolved one after the other, all of them before the end.
ResolvedInOrder ==
    /\ IsSequence(selections) /\ IsSequence(slices)
    /\ Len(slices) = Len(selections)
    /\ ~Resolving => selections = <<>> /\ slices = <<>> /\ represented = {} /\ claimed = {}
    /\ Resolving => at = Len(selections) + 1 /\ Len(selections) <= Len(base)
    /\ Done => Len(selections) = Len(base)

\* The slices of a resolved trip keep its retained dates, with what is selected on them.
SlicesFollow ==
    \A b \in DOMAIN selections : \A d \in RetainedDates(b, selections[b]) :
        \E s \in slices[b] :
            d \in s.dates /\ (d \in DOMAIN selections[b] => s.facts = {selections[b][d].facts})

\* A selected trip is represented on its date, and whole and claimed if the source decides on it.
SelectionsMarked ==
    \A b \in DOMAIN selections : \A d \in DOMAIN selections[b] :
        /\ d \in base[b].dates
        /\ <<selections[b][d].trip, d>> \in represented
        /\ Projected(selections[b][d].trip, d) =>
              Complete(selections[b][d].trip, b) /\ <<selections[b][d].trip, d>> \in claimed

\* No two resolved trips carry the same trip a source decides on.
CarriedOnce ==
    \A b, c \in DOMAIN selections : \A d \in DOMAIN selections[b] \cap DOMAIN selections[c] :
        /\ selections[b][d].trip = selections[c][d].trip
        /\ Projected(selections[b][d].trip, d)
        => b = c

\* What is represented is represented by a resolved trip.
RepresentedSomewhere ==
    \A t, d : <<t, d>> \in represented =>
        \E b \in DOMAIN selections : Represents(b, selections[b], t, d)

ResolutionInv ==
    ResolvedInOrder /\ SlicesFollow /\ SelectionsMarked /\ CarriedOnce /\ RepresentedSomewhere

LEMMA EmptyIsSequence == IsSequence(<<>>) /\ Len(<<>>) = 0
<1>1. <<>> \in Seq({})
    BY EmptySeq
<1> QED BY <1>1 DEF IsSequence

LEMMA AppendAdds ==
    ASSUME NEW s, IsSequence(s), NEW e, NEW r, IsAppended(r, s, e)
    PROVE  /\ IsSequence(r)
           /\ Len(s) \in Nat /\ DOMAIN s = 1 .. Len(s)
           /\ Len(r) = Len(s) + 1 /\ DOMAIN r = 1 .. Len(s) + 1
           /\ \A i \in DOMAIN s : r[i] = s[i]
           /\ r[Len(s) + 1] = e
<1>1. PICK S : s \in Seq(S)
    BY DEF IsSequence
<1>2. s \in Seq(S \cup {e}) /\ e \in S \cup {e}
    BY <1>1, SeqMonotonic
<1> QED BY <1>2, AppendProperties, LenProperties DEF IsSequence, IsAppended

\* A resolved trip stands as it was resolved.
LEMMA ResolutionStands ==
    ASSUME ResolutionInv, base' = base, authority' = authority, projections' = projections,
           bindings' = bindings, facts' = facts, source' = source
    PROVE  /\ \A b, x : RetainedDates(b, x)' = RetainedDates(b, x)
           /\ \A b, x, t, d : Represents(b, x, t, d)' = Represents(b, x, t, d)
           /\ \A t, d : Projected(t, d)' = Projected(t, d)
           /\ \A t, b : Complete(t, b)' = Complete(t, b)
<1>1. \A b, x : RetainedDates(b, x)' = RetainedDates(b, x)
    BY DEF RetainedDates, BaseLine
<1>2. \A b, d : Quarantined(b, d)' = Quarantined(b, d)
    BY DEF Quarantined, ClaimsAgree, Superseding, NewestClaims, Claims, BoundOn, Facts, SourceTrips
<1>3. \A b, x, t, d : Represents(b, x, t, d)' = Represents(b, x, t, d)
    BY <1>2 DEF Represents, BoundOn, Facts
<1>4. \A t, d : Projected(t, d)' = Projected(t, d)
    BY DEF Projected
<1>5. \A t, b : Complete(t, b)' = Complete(t, b)
    BY DEF Complete, MatchOf, BindingEligible
<1> QED BY <1>1, <1>3, <1>4, <1>5

LEMMA ResolveTargetKeeps ==
    ASSUME InputKnown, ResolutionInv, ResolveTarget
    PROVE  ResolutionInv'
<1> DEFINE selected == SelectionsOf(at)
           new == Len(selections) + 1
<1>1. /\ at = new /\ at \in BaseTrips /\ stage = "resolve" /\ stage' = stage /\ at' = at + 1
      /\ selections' = Append(selections, selected)
      /\ slices' = Append(slices, SlicesOf(at, selected))
      /\ represented' = represented \cup RepresentedBy(at, selected)
      /\ claimed' = claimed \cup {<<selected[d].trip, d>> :
                        d \in {x \in DOMAIN selected : Projected(selected[x].trip, x)}}
      /\ UNCHANGED <<base, source, authority, projections, bindings, facts>>
    BY DEF ResolveTarget, ResolutionInv, ResolvedInOrder, Resolving
<1>2. /\ Len(selections) \in Nat /\ DOMAIN selections = 1 .. Len(selections)
      /\ Len(selections') = new /\ DOMAIN selections' = 1 .. new
      /\ \A i \in DOMAIN selections : selections'[i] = selections[i]
      /\ selections'[new] = selected
      /\ IsSequence(selections')
    <2>1. IsSequence(selections)
        BY DEF ResolutionInv, ResolvedInOrder
    <2>2. IsAppended(selections', selections, selected)
        BY <1>1 DEF IsAppended
    <2> HIDE DEF selected
    <2> QED BY <2>1, <2>2, AppendAdds
<1>3. /\ Len(slices') = new
      /\ \A i \in DOMAIN selections : slices'[i] = slices[i]
      /\ slices'[new] = SlicesOf(at, selected)
      /\ IsSequence(slices')
    <2> DEFINE kept == SlicesOf(at, selected)
    <2>1. /\ IsSequence(slices)
          /\ Len(slices) = Len(selections)
        BY DEF ResolutionInv, ResolvedInOrder
    <2> HIDE DEF selected, kept
    <2>2. IsAppended(slices', slices, kept)
        BY <1>1 DEF kept, IsAppended
    <2>3. /\ Len(slices') = new
          /\ \A i \in DOMAIN selections : slices'[i] = slices[i]
          /\ slices'[new] = kept
          /\ IsSequence(slices')
        BY <1>2, <2>1, <2>2, AppendAdds
    <2> QED BY <2>3 DEF kept
<1>4. /\ \A b, x : RetainedDates(b, x)' = RetainedDates(b, x)
      /\ \A b, x, t, d : Represents(b, x, t, d)' = Represents(b, x, t, d)
      /\ \A t, d : Projected(t, d)' = Projected(t, d)
      /\ \A t, b : Complete(t, b)' = Complete(t, b)
    BY <1>1, ResolutionStands
<1>5. /\ \A d \in RetainedDates(at, selected) : \E s \in SlicesOf(at, selected) :
             d \in s.dates /\ (d \in DOMAIN selected => s.facts = {selected[d].facts})
      /\ \A d \in DOMAIN selected :
             /\ d \in base[at].dates
             /\ <<selected[d].trip, d>> \in RepresentedBy(at, selected)
             /\ Projected(selected[d].trip, d) => Complete(selected[d].trip, at) /\ <<selected[d].trip, d>> \notin claimed
      /\ \A t, d : <<t, d>> \in RepresentedBy(at, selected) => Represents(at, selected, t, d)
    <2>1. at \in BaseTrips
        BY <1>1
    <2> QED BY <2>1, SlicesKeep, SelectionsFit, SelectedIsRepresented, RepresentedOnlyThen
<1> HIDE DEF selected
<1>6. DOMAIN selections' = DOMAIN selections \cup {new}
    BY <1>2
<1>7. ResolvedInOrder'
    BY <1>1, <1>2, <1>3 DEF ResolutionInv, ResolvedInOrder, Resolving, Done, InputKnown
<1>8. SlicesFollow'
    <2>1. \A b \in DOMAIN selections : \A d \in RetainedDates(b, selections[b]) : \E s \in slices[b] :
              d \in s.dates /\ (d \in DOMAIN selections[b] => s.facts = {selections[b][d].facts})
        BY DEF ResolutionInv, SlicesFollow
    <2> SUFFICES ASSUME NEW b \in DOMAIN selections', NEW d \in RetainedDates(b, selections[b])'
                 PROVE  \E s \in slices'[b] : d \in s.dates /\
                            (d \in DOMAIN (selections'[b]) => s.facts = {selections'[b][d].facts})
        BY DEF SlicesFollow
    <2>2. d \in RetainedDates(b, selections'[b])
        BY <1>4
    <2>3. CASE b \in DOMAIN selections
        BY <1>2, <1>3, <2>1, <2>2, <2>3
    <2>4. CASE b = new
        BY <1>1, <1>2, <1>3, <1>5, <2>2, <2>4
    <2> QED BY <1>6, <2>3, <2>4
<1>9. SelectionsMarked'
    <2> SUFFICES ASSUME NEW b \in DOMAIN selections', NEW d \in DOMAIN (selections'[b])
                 PROVE  /\ d \in base[b].dates
                        /\ <<selections'[b][d].trip, d>> \in represented'
                        /\ Projected(selections'[b][d].trip, d) =>
                              Complete(selections'[b][d].trip, b) /\ <<selections'[b][d].trip, d>> \in claimed'
        BY <1>1, <1>4 DEF SelectionsMarked
    <2> QED BY <1>1, <1>2, <1>5, <1>6 DEF ResolutionInv, SelectionsMarked
<1>10. CarriedOnce'
    <2> SUFFICES ASSUME NEW b \in DOMAIN selections', NEW c \in DOMAIN selections',
                        NEW d \in DOMAIN (selections'[b]) \cap DOMAIN (selections'[c]),
                        selections'[b][d].trip = selections'[c][d].trip,
                        Projected(selections'[b][d].trip, d)
                 PROVE  b = c
        BY <1>4 DEF CarriedOnce
    <2>1. \A e \in DOMAIN selections : d \in DOMAIN selections[e] /\ Projected(selections[e][d].trip, d)
              => <<selections[e][d].trip, d>> \in claimed
        BY DEF ResolutionInv, SelectionsMarked
    <2>2. CASE b \in DOMAIN selections /\ c \in DOMAIN selections
        BY <1>2, <2>2 DEF ResolutionInv, CarriedOnce
    <2>3. CASE b = new \/ c = new
        BY <1>1, <1>2, <1>5, <1>6, <2>1, <2>3
    <2> QED BY <1>6, <2>2, <2>3
<1>11. RepresentedSomewhere'
    <2> SUFFICES ASSUME NEW t, NEW d, <<t, d>> \in represented'
                 PROVE  \E b \in DOMAIN selections' : Represents(b, selections'[b], t, d)
        BY <1>4 DEF RepresentedSomewhere
    <2>1. CASE <<t, d>> \in represented
        BY <1>2, <1>6, <2>1 DEF ResolutionInv, RepresentedSomewhere
    <2>2. CASE <<t, d>> \in RepresentedBy(at, selected)
        BY <1>1, <1>2, <1>5, <1>6, <2>2
    <2> QED BY <1>1, <2>1, <2>2
<1> QED BY <1>7, <1>8, <1>9, <1>10, <1>11 DEF ResolutionInv

LEMMA ResolutionRests ==
    ASSUME ResolutionInv,
           UNCHANGED <<base, source, authority, projections, bindings, facts, represented,
                       claimed, selections, slices>>
    PROVE  (SlicesFollow /\ SelectionsMarked /\ CarriedOnce /\ RepresentedSomewhere)'
<1>1. /\ \A b, x : RetainedDates(b, x)' = RetainedDates(b, x)
      /\ \A b, x, t, d : Represents(b, x, t, d)' = Represents(b, x, t, d)
      /\ \A t, d : Projected(t, d)' = Projected(t, d)
      /\ \A t, b : Complete(t, b)' = Complete(t, b)
    BY ResolutionStands
<1>2. SlicesFollow'
    BY <1>1 DEF ResolutionInv, SlicesFollow
<1>3. SelectionsMarked'
    BY <1>1 DEF ResolutionInv, SelectionsMarked
<1>4. CarriedOnce'
    BY <1>1 DEF ResolutionInv, CarriedOnce
<1>5. RepresentedSomewhere'
    BY <1>1 DEF ResolutionInv, RepresentedSomewhere
<1> QED BY <1>2, <1>3, <1>4, <1>5

LEMMA ResolutionIsInvariant == Spec => []ResolutionInv
<1>1. ASSUME Init PROVE ResolutionInv
    <2>1. selections = <<>> /\ slices = <<>> /\ represented = {} /\ stage = "fold" /\ claimed = {}
        BY <1>1 DEF Init
    <2>2. DOMAIN selections = {} /\ IsSequence(selections) /\ IsSequence(slices)
        BY <2>1, EmptyIsSequence
    <2> QED BY <2>1, <2>2 DEF ResolutionInv, ResolvedInOrder, SlicesFollow, SelectionsMarked, CarriedOnce,
                              RepresentedSomewhere, Resolving, Done
<1>2. ASSUME InputKnown, InputKnown', ResolutionInv, [Next]_vars PROVE ResolutionInv'
    <2> DEFINE Same == UNCHANGED <<base, source, authority, projections, bindings, facts, represented,
                                   claimed, selections, slices>>
               Empty == selections = <<>> /\ slices = <<>> /\ represented = {} /\ claimed = {}
    <2>1. CASE ResolveTarget
        BY <1>2, <2>1, ResolveTargetKeeps
    <2>2. CASE AddSourceTrips
        <3>1. Same /\ stage = "resolve" /\ stage' = "done" /\ at' = at /\ at \notin BaseTrips
            BY <2>2 DEF AddSourceTrips
        <3>2. Len(selections) \in Nat
            BY <1>2, AppendAdds DEF ResolutionInv, ResolvedInOrder
        <3>3. ResolvedInOrder'
            BY <1>2, <3>1, <3>2 DEF ResolutionInv, ResolvedInOrder, Resolving, Done, InputKnown
        <3>4. (SlicesFollow /\ SelectionsMarked /\ CarriedOnce /\ RepresentedSomewhere)'
            BY <1>2, <3>1, ResolutionRests
        <3> QED BY <3>3, <3>4 DEF ResolutionInv
    <2>3. CASE SelectFacts
        <3>1. Empty /\ Empty' /\ stage' = "resolve" /\ at' = 1
            BY <1>2, <2>3 DEF SelectFacts, ResolutionInv, ResolvedInOrder, Resolving
        <3>2. DOMAIN selections' = {} /\ Len(selections') = 0 /\ IsSequence(selections')
              /\ IsSequence(slices') /\ Len(slices') = 0
            BY <3>1, EmptyIsSequence
        <3> QED BY <1>2, <3>1, <3>2 DEF ResolutionInv, ResolvedInOrder, SlicesFollow, SelectionsMarked,
                            CarriedOnce, RepresentedSomewhere, Resolving, Done, InputKnown
    <2>4. CASE FoldAfterMidnightTrips \/ DecideAuthority \/ MatchTrip \/ AllMatched \/ ResolveAvailability
        <3>1. Empty /\ Empty' /\ stage' \notin {"resolve", "done"}
            BY <1>2, <2>4 DEF FoldAfterMidnightTrips, DecideAuthority, MatchTrip, AllMatched, ResolveAvailability,
                              ResolutionInv, ResolvedInOrder, Resolving
        <3>2. DOMAIN selections' = {} /\ IsSequence(selections') /\ IsSequence(slices')
            BY <3>1, EmptyIsSequence
        <3> QED BY <3>1, <3>2 DEF ResolutionInv, ResolvedInOrder, SlicesFollow, SelectionsMarked,
                            CarriedOnce, RepresentedSomewhere, Resolving, Done
    <2>5. CASE Terminated \/ UNCHANGED vars
        <3>1. Same /\ UNCHANGED <<stage, at>>
            BY <2>5 DEF Terminated, vars
        <3>2. ResolvedInOrder'
            BY <1>2, <3>1 DEF ResolutionInv, ResolvedInOrder, Resolving, Done
        <3>3. (SlicesFollow /\ SelectionsMarked /\ CarriedOnce /\ RepresentedSomewhere)'
            BY <1>2, <3>1, ResolutionRests
        <3> QED BY <3>2, <3>3 DEF ResolutionInv
    <2> QED BY <1>2, <2>1, <2>2, <2>3, <2>4, <2>5 DEF Next
<1> QED BY <1>1, <1>2, InputStaysKnown, PTL DEF Spec

-----------------------------------------------------------------------------
\* Authority and additions.

Decided == stage \notin {"fold", "authority"}

\* Once decided, no line has authority on a date that is withheld from it, and only source
\* trips are projected.
AuthorityInv ==
    /\ Decided => \A l \in DOMAIN authority : \A d \in authority[l] : <<l, d>> \notin BlockedAuthorityDates
    /\ DOMAIN projections \subseteq SourceTrips

LEMMA AuthorityIsInvariant == Spec => []AuthorityInv
<1>1. ASSUME Init PROVE AuthorityInv
    BY <1>1 DEF Init, AuthorityInv, Decided
<1>2. ASSUME AuthorityInv, [Next]_vars PROVE AuthorityInv'
    <2>1. CASE FoldAfterMidnightTrips
        BY <1>2, <2>1 DEF FoldAfterMidnightTrips, AuthorityInv, Decided, SourceTrips
    <2>2. CASE DecideAuthority
        <3>1. authority' = AuthorityDatesByCis /\ source' = source
            BY <2>2 DEF DecideAuthority
        <3>2. \A l \in DOMAIN AuthorityDatesByCis : \A d \in AuthorityDatesByCis[l] :
                  <<l, d>> \notin BlockedAuthorityDates
            BY DEF AuthorityDatesByCis
        <3>3. DOMAIN projections' \subseteq AuthorityCandidates
            BY <2>2 DEF DecideAuthority
        <3>4. AuthorityCandidates \subseteq SourceTrips
            BY DEF AuthorityCandidates, Asserting
        <3>5. BlockedAuthorityDates' = BlockedAuthorityDates
            BY <3>1, SourceFixesBlocked
        <3> QED BY <3>1, <3>2, <3>3, <3>4, <3>5 DEF AuthorityInv, SourceTrips
    <2>3. CASE MatchTrip \/ AllMatched \/ ResolveAvailability \/ SelectFacts \/ ResolveTarget
               \/ AddSourceTrips \/ Terminated \/ UNCHANGED vars
        <3>1. UNCHANGED <<source, authority, projections>> /\ (Decided' => Decided)
            BY <2>3 DEF MatchTrip, AllMatched, ResolveAvailability, SelectFacts, ResolveTarget,
                        AddSourceTrips, Terminated, vars, Decided
        <3>2. BlockedAuthorityDates' = BlockedAuthorityDates
            BY <3>1, SourceFixesBlocked
        <3> QED BY <1>2, <3>1, <3>2 DEF AuthorityInv, SourceTrips
    <2> QED BY <1>2, <2>1, <2>2, <2>3 DEF Next
<1> QED BY <1>1, <1>2, PTL DEF Spec

\* Additions are of dates nothing represents, a trip is in one of them, and all such dates of
\* the projected trips have one.
AdditionsFit ==
    /\ \A a \in additions : \A t \in a.trips, d \in a.dates : <<t, d>> \notin represented
    /\ \A a, e \in additions : a.trips \cap e.trips # {} => a = e
    /\ \A t \in DOMAIN projections : \A d \in projections[t].dates :
           <<t, d>> \notin represented => AddedOn(t, d) # {}

\* Journeys alike in mode, label, dates, places and times are so mutually.
LEMMA SameAdditionIsEquivalence ==
    /\ \A t : SameAddition(t, t)
    /\ \A t, u : SameAddition(t, u) => SameAddition(u, t)
    /\ \A t, u, v : SameAddition(t, u) /\ SameAddition(u, v) => SameAddition(t, v)
<1>1. \A t, u : Pattern(source[t].calls) = Pattern(source[u].calls) =>
              DOMAIN source[t].calls = DOMAIN source[u].calls
    BY DEF Pattern
<1>2. \A t : SameAddition(t, t)
    BY DEF SameAddition
<1>3. \A t, u : SameAddition(t, u) => SameAddition(u, t)
    BY <1>1 DEF SameAddition
<1>4. \A t, u, v : SameAddition(t, u) /\ SameAddition(u, v) => SameAddition(t, v)
    BY <1>1 DEF SameAddition
<1> QED BY <1>2, <1>3, <1>4

LEMMA AdditionsOfMissing ==
    ASSUME InputKnown, DOMAIN projections \subseteq SourceTrips, AddSourceTrips
    PROVE  AdditionsFit'
<1> DEFINE missing == {t \in DOMAIN projections : UnrepresentedDates(t) # {}}
           group(t) == {u \in missing : SameAddition(t, u)}
           addition(g) == [trips |-> g, dates |-> UnrepresentedDates(LeastOf(g)),
                           route |-> projections[LeastOf(g)].route]
<1>1. /\ additions' = {addition(g) : g \in {group(t) : t \in missing}}
      /\ UNCHANGED <<source, projections, represented>>
    BY DEF AddSourceTrips
<1>2. ASSUME NEW t \in missing
      PROVE  \A u \in group(t) : addition(group(t)).dates = UnrepresentedDates(u)
    <2>1. t \in group(t)
        BY SameAdditionIsEquivalence
    <2>2. \A u \in group(t) : u \in Nat
        BY DEF InputKnown
    <2>3. LeastOf(group(t)) \in group(t)
        <3> HIDE DEF group
        <3> QED BY <2>1, <2>2, LeastIsLeast
    <2> QED BY <2>3 DEF SameAddition
<1>3. \A t \in missing : t \in group(t) /\ \A u \in group(t) : group(u) = group(t)
    BY SameAdditionIsEquivalence
<1>4. \A g : addition(g).trips = g
    OBVIOUS
<1>5. \A t \in missing : group(t) \subseteq missing
    OBVIOUS
<1> HIDE DEF group, addition
<1>6. ASSUME NEW a \in additions' PROVE \E t \in missing : a = addition(group(t))
    BY <1>1
<1>7. \A a \in additions' : \A t \in a.trips, d \in a.dates : <<t, d>> \notin represented'
    <2> SUFFICES ASSUME NEW a \in additions', NEW t \in a.trips, NEW d \in a.dates
                 PROVE  <<t, d>> \notin represented
        BY <1>1
    <2>1. PICK u \in missing : a = addition(group(u))
        BY <1>6
    <2>2. d \in UnrepresentedDates(t)
        BY <1>2, <1>4, <2>1
    <2> QED BY <2>2 DEF UnrepresentedDates
<1>8. \A a, e \in additions' : a.trips \cap e.trips # {} => a = e
    <2> SUFFICES ASSUME NEW a \in additions', NEW e \in additions', NEW t \in a.trips \cap e.trips
                 PROVE  a = e
        OBVIOUS
    <2>1. PICK u \in missing : a = addition(group(u))
        BY <1>6
    <2>2. PICK v \in missing : e = addition(group(v))
        BY <1>6
    <2>3. t \in group(u) /\ t \in group(v)
        BY <1>4, <2>1, <2>2
    <2> QED BY <1>3, <2>1, <2>2, <2>3
<1>9. ASSUME NEW t \in DOMAIN projections', NEW d \in projections'[t].dates, <<t, d>> \notin represented'
      PROVE  AddedOn(t, d)' # {}
    <2>1. d \in UnrepresentedDates(t) /\ t \in missing
        BY <1>1, <1>9 DEF UnrepresentedDates
    <2>2. addition(group(t)) \in additions'
        BY <1>1, <2>1
    <2>3. t \in addition(group(t)).trips /\ d \in addition(group(t)).dates
        BY <1>2, <1>3, <1>4, <2>1
    <2> QED BY <2>2, <2>3 DEF AddedOn
<1> QED BY <1>7, <1>8, <1>9 DEF AdditionsFit

LEMMA AdditionsAreInvariant == Spec => [](Done => AdditionsFit)
<1>1. Init => (Done => AdditionsFit)
    BY DEF Init, Done
<1>2. ASSUME InputKnown, AuthorityInv, Done => AdditionsFit, [Next]_vars
      PROVE  (Done => AdditionsFit)'
    <2>1. CASE AddSourceTrips
        BY <1>2, <2>1, AdditionsOfMissing DEF AuthorityInv
    <2>2. CASE Terminated \/ UNCHANGED vars
        BY <1>2, <2>2 DEF Terminated, vars, Done, AdditionsFit, AddedOn
    <2>3. CASE FoldAfterMidnightTrips \/ DecideAuthority \/ MatchTrip \/ AllMatched \/ ResolveAvailability
               \/ SelectFacts \/ ResolveTarget
        BY <2>3 DEF FoldAfterMidnightTrips, DecideAuthority, MatchTrip, AllMatched, ResolveAvailability,
                    SelectFacts, ResolveTarget, Done
    <2> QED BY <1>2, <2>1, <2>2, <2>3 DEF Next
<1> QED BY <1>1, <1>2, InputStaysKnown, AuthorityIsInvariant, PTL DEF Spec

-----------------------------------------------------------------------------
\* The result of a compilation.

\* In the end every national trip is resolved.
LEMMA DoneIsResolved ==
    ASSUME InputKnown, ResolutionInv, Done
    PROVE  DOMAIN selections = BaseTrips
<1>1. Len(selections) = Len(base) /\ IsSequence(selections)
    BY DEF ResolutionInv, ResolvedInOrder
<1>2. DOMAIN selections = 1 .. Len(selections)
    BY <1>1, AppendAdds DEF IsAppended
<1> QED BY <1>1, <1>2 DEF InputKnown

\* Withheld lines and dates keep their national trips, whatever the companions, labels,
\* scopes and other trips of the lines are.
THEOREM WithheldDatesStayNational == Spec => []WithheldKeepsNational
<1>1. ASSUME InputKnown, ResolutionInv, AuthorityInv PROVE WithheldKeepsNational
    <2> SUFFICES ASSUME Done, NEW t \in Asserting \ AuthorityCandidates, NEW b \in BaseTrips,
                        BaseLine(b) \in AssertedLines(t), NEW d \in source[t].dates \cap base[b].dates
                 PROVE  d \in PublishedDates(b)
        BY DEF WithheldKeepsNational
    <2>1. <<BaseLine(b), d>> \in BlockedAuthorityDates
        BY DEF BlockedAuthorityDates
    <2>2. ~(BaseLine(b) \in DOMAIN authority /\ d \in authority[BaseLine(b)])
        BY <1>1, <2>1 DEF AuthorityInv, Decided, Done
    <2>3. d \in RetainedDates(b, selections[b])
        BY <2>2 DEF RetainedDates
    <2> QED BY <1>1, <2>3, DoneIsResolved DEF ResolutionInv, SlicesFollow, PublishedDates
<1> QED BY <1>1, InputStaysKnown, ResolutionIsInvariant, AuthorityIsInvariant, PTL

\* A set whose elements are all equal has at most one.
LEMMA AtMostOne ==
    ASSUME NEW S, \A x, y \in S : x = y
    PROVE  Cardinality(S) \in Nat /\ Cardinality(S) <= 1 /\ (S = {} => Cardinality(S) = 0)
<1>1. CASE S = {}
    BY <1>1, FS_EmptySet
<1>2. CASE S # {}
    <2>1. PICK x \in S : TRUE
        BY <1>2
    <2>2. S = {x}
        BY <2>1
    <2> QED BY <1>2, <2>2, FS_Singleton
<1> QED BY <1>1, <1>2

\* A journey a source decides on is shown in one place, however many national trips and
\* equal journeys it matches.
THEOREM JourneysAreShownOnce == Spec => []ShownOnce
<1>1. ASSUME InputKnown, ResolutionInv, Done => AdditionsFit PROVE ShownOnce
    <2> SUFFICES ASSUME Done, NEW t \in DOMAIN projections, NEW d \in projections[t].dates
                 PROVE  Cardinality(SelectedOn(t, d)) + Cardinality(AddedOn(t, d)) <= 1
        BY DEF ShownOnce
    <2>1. DOMAIN selections = BaseTrips
        BY <1>1, DoneIsResolved
    <2>2. \A b, c \in SelectedOn(t, d) : b = c
        BY <1>1, <2>1 DEF ResolutionInv, CarriedOnce, SelectedOn, Projected
    <2>3. \A a, e \in AddedOn(t, d) : a = e
        BY <1>1 DEF AdditionsFit, AddedOn
    <2>4. SelectedOn(t, d) # {} => <<t, d>> \in represented
        BY <1>1, <2>1 DEF ResolutionInv, SelectionsMarked, SelectedOn
    <2>5. AddedOn(t, d) # {} => <<t, d>> \notin represented
        BY <1>1 DEF AdditionsFit, AddedOn
    <2> QED BY <2>2, <2>3, <2>4, <2>5, AtMostOne
<1> QED BY <1>1, InputStaysKnown, ResolutionIsInvariant, AdditionsAreInvariant, PTL

\* A journey a source decides on is not lost: it is added, or a published national trip
\* carries the whole of it, or a conflict of claims is reported there; a partial match stands
\* in its place only beside the selection of another trip.
THEOREM NoJourneyIsLost == Spec => []NoneLost
<1>1. ASSUME InputKnown, ResolutionInv, Done => AdditionsFit PROVE NoneLost
    <2> SUFFICES ASSUME Done, NEW t \in DOMAIN projections, NEW d \in projections[t].dates, AddedOn(t, d) = {}
                 PROVE  \E b \in BaseTrips :
                            CarriedWhole(t, b, d) \/ InConflict(t, b, d) \/ JoinsAnother(t, b, d)
        BY DEF NoneLost
    <2>1. <<t, d>> \in represented
        BY <1>1 DEF AdditionsFit
    <2>2. PICK b \in BaseTrips : Represents(b, selections[b], t, d)
        BY <1>1, <2>1, DoneIsResolved DEF ResolutionInv, RepresentedSomewhere
    <2>3. CASE Quarantined(b, d)
        BY <2>2, <2>3 DEF Represents, InConflict
    <2>4. CASE d \in DOMAIN selections[b] /\ CompatibleSelections(selections[b][d].facts, Facts(t, b))
        <3>1. d \in RetainedDates(b, selections[b])
            BY <2>2, <2>4 DEF RetainedDates, Represents
        <3>2. PICK s \in slices[b] : d \in s.dates /\ s.facts = {selections[b][d].facts}
            BY <1>1, <2>4, <3>1, DoneIsResolved DEF ResolutionInv, SlicesFollow
        <3>3. selections[b][d].facts \in CarriedFacts(b, d)
            BY <3>2 DEF CarriedFacts
        <3>4. CASE Complete(t, b)
            BY <2>2, <2>4, <3>3, <3>4 DEF Represents, CarriedWhole
        <3>5. CASE ~Complete(t, b)
            <4>1. selections[b][d].trip # t
                BY <1>1, <2>4, <3>5, DoneIsResolved DEF ResolutionInv, SelectionsMarked, Projected
            <4> QED BY <2>2, <2>4, <3>5, <4>1 DEF Represents, JoinsAnother
        <3> QED BY <3>4, <3>5
    <2> QED BY <2>2, <2>3, <2>4 DEF Represents
<1> QED BY <1>1, InputStaysKnown, ResolutionIsInvariant, AdditionsAreInvariant, PTL
=============================================================================
