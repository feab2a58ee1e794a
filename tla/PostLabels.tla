------------------------------ MODULE PostLabels ------------------------------
(***************************************************************************)
(* Where the labels and the traffic weights of the post scorer come from   *)
(* (scripts/post-scorer/post_scorer/{labels,corrections,weights}.py), as   *)
(* operators on tables.                                                    *)
(*                                                                         *)
(* A table is a set of records. Places lie on a plane in whole metres. The *)
(* identifiers whose order breaks ties (source posts, route points) are    *)
(* numbers. A stop is what jdf_stop_number reads out of a stop id.         *)
(***************************************************************************)
EXTENDS Integers, FiniteSets, FiniteSetsExt, Functions

CONSTANTS
    NoCorrect,      \* NO_CORRECT_CANDIDATE
    Reviewed,       \* the label of a correction that names a post
    None            \* a null

\* LabelSettings, in metres, and minimum_share as a ratio.
Tolerance == 20
NoCandidate == 35
Guard == 300
MinimumShare == <<4, 5>>
MinimumCalls == 1

SquaredDistance(p, q) == (p.x - q.x) * (p.x - q.x) + (p.y - q.y) * (p.y - q.y)
Within(p, q, metres) == SquaredDistance(p, q) <= metres * metres

-----------------------------------------------------------------------------
\* Labels from the calls of a regional overlay.

\* The calls of the base timetable by their place in the trip, and by how often the trip has
\* been at the stop before.
CallOrdinal(stopTimes, r) ==
    Cardinality({q \in stopTimes : q.trip = r.trip /\ q.seq <= r.seq})
StopOccurrence(stopTimes, r) ==
    Cardinality({q \in stopTimes : q.trip = r.trip /\ q.stop = r.stop /\ q.seq < r.seq})

\* Faulty variant: the number of a call is its stop_sequence.
BaseCallsBySequence(stopTimes) ==
    {[trip |-> r.trip, ordinal |-> r.seq, stop |-> r.stop,
      occurrence |-> StopOccurrence(stopTimes, r)] : r \in stopTimes}

BaseCalls(stopTimes) ==
    {[trip |-> r.trip, ordinal |-> CallOrdinal(stopTimes, r), stop |-> r.stop,
      occurrence |-> StopOccurrence(stopTimes, r)] : r \in stopTimes}

\* The source calls placed on the trips of the base timetable that were bound without an edit.
SourceCallsOnBase(callMaps, tripMaps, sourceStops, source) ==
    LET trips == {t \in tripMaps : t.source = source /\ t.base # None /\ t.edits = 0}
        known == {c \in callMaps : c.source = source /\ c.post \in DOMAIN sourceStops}
        joined == {j \in known \X trips :
                     j[1].sourceTrip = j[2].sourceTrip /\ j[1].output = j[2].output}
    IN  {[trip |-> j[2].base, ordinal |-> j[1].ordinal, post |-> j[1].post] : j \in joined}

ContextSourcePosts(sourceCalls, baseCalls, contextCalls) ==
    LET placed == {p \in sourceCalls \X baseCalls :
                     p[1].trip = p[2].trip /\ p[1].ordinal = p[2].ordinal}
        joined == {j \in placed \X contextCalls :
                     /\ j[1][2].trip = j[2].trip
                     /\ j[1][2].stop = j[2].stop
                     /\ j[1][2].occurrence = j[2].occurrence}
    IN  {[context |-> j[2].context, stop |-> j[2].stop, post |-> j[1][1].post,
          trip |-> j[2].trip, ordinal |-> j[1][1].ordinal] : j \in joined}

\* The source post with the most calls of each context; the first of equals.
CallsAt(posts, context, post) ==
    Cardinality({p \in posts : p.context = context /\ p.post = post})
MajorityOf(posts, context) ==
    LET served == {p.post : p \in {q \in posts : q.context = context}}
    IN  CHOOSE p \in served : \A q \in served \ {p} :
            \/ CallsAt(posts, context, p) > CallsAt(posts, context, q)
            \/ CallsAt(posts, context, p) = CallsAt(posts, context, q) /\ p < q
MajorityPosts(posts) ==
    {[context |-> c, stop |-> (CHOOSE p \in posts : p.context = c).stop, post |-> MajorityOf(posts, c),
      calls |-> CallsAt(posts, c, MajorityOf(posts, c)),
      total |-> Cardinality({p \in posts : p.context = c})] : c \in {p.context : p \in posts}}

Agreeing(m) == MinimumShare[2] * m.calls >= MinimumShare[1] * m.total /\ m.total >= MinimumCalls

\* attach_labels for one context: the nearest route point of its stop decides.
NearestPoint(at, stop, routePoints) ==
    LET points == {r \in routePoints : r.stop = stop}
    IN  IF points = {} THEN None
        ELSE CHOOSE r \in points : \A s \in points \ {r} :
                \/ SquaredDistance(at, r) < SquaredDistance(at, s)
                \/ SquaredDistance(at, r) = SquaredDistance(at, s) /\ r.id < s.id
Suspect(at, nearest) == nearest = None \/ ~Within(at, nearest, Guard)

Label(at, nearest) ==
    IF nearest = None THEN None
    ELSE IF Within(at, nearest, Tolerance) THEN nearest.id
    ELSE IF ~Within(at, nearest, NoCandidate) THEN NoCorrect ELSE None

AttachLabels(majorities, routePoints, sourceStops) ==
    {[context |-> m.context, at |-> sourceStops[m.post],
      suspect |-> Suspect(sourceStops[m.post], NearestPoint(sourceStops[m.post], m.stop, routePoints)),
      label |-> Label(sourceStops[m.post], NearestPoint(sourceStops[m.post], m.stop, routePoints))] :
     m \in majorities}

\* What build_labels keeps of the attached labels, and its report.
KeptLabels(attached) ==
    {[context |-> a.context, label |-> a.label, at |-> a.at] :
     a \in {b \in attached : ~b.suspect /\ b.label # None}}
LabelReport(majorities, inEvidence, attached) ==
    [contexts_with_source_posts |-> Cardinality(majorities),
     evidence_contexts_with_posts |-> Cardinality(inEvidence),
     dropped_disagreeing |-> Cardinality(inEvidence) - Cardinality(attached),
     dropped_alignment_suspect |-> Cardinality({a \in attached : a.suspect}),
     dropped_ambiguous_distance |-> Cardinality({a \in attached : ~a.suspect /\ a.label = None}),
     labelled_candidate |->
        Cardinality(KeptLabels(attached)) - Cardinality({l \in KeptLabels(attached) : l.label = NoCorrect}),
     labelled_no_correct_candidate |-> Cardinality({l \in KeptLabels(attached) : l.label = NoCorrect})]

-----------------------------------------------------------------------------
\* Labels from authored post numbers, and from corrections of the review map.

\* A context with an authored number is labelled if one hypothesis of its stop has a member with
\* that local_ref.
NumberedHypotheses(hypotheses, observations, stop, number) ==
    {h \in DOMAIN hypotheses : hypotheses[h].stop = stop /\
        \E o \in Range(hypotheses[h].members) \cap DOMAIN observations : observations[o].ref = number}
AuthoredLabels(contexts, hypotheses, observations) ==
    LET numbered(c) == NumberedHypotheses(hypotheses, observations, contexts[c].stop, contexts[c].authored)
        exact == {c \in DOMAIN contexts :
                    contexts[c].authored # None /\ Cardinality(numbered(c)) = 1}
    IN  {[context |-> c, at |-> None,
          label |-> hypotheses[CHOOSE h \in numbered(c) : TRUE].representative] : c \in exact}

Movement(r) == <<r.stop, r.line, r.direction, r.previous, r.next>>

\* Faulty variant: any one of them is kept.
AnyCorrections(corrections) ==
    {kept \in SUBSET corrections :
        /\ \A c \in corrections : \E k \in kept : Movement(k) = Movement(c)
        /\ \A k, l \in kept : Movement(k) = Movement(l) => k = l}

\* The corrections that can be left after all but the last of each movement are dropped: of
\* several recorded at once, which the sort leaves last is not specified.
LatestCorrections(corrections) ==
    {kept \in SUBSET corrections :
        /\ \A c \in corrections : \E k \in kept : Movement(k) = Movement(c)
        /\ \A k, l \in kept : Movement(k) = Movement(l) => k = l
        /\ \A k \in kept : \A c \in corrections : Movement(c) = Movement(k) => c.recorded <= k.recorded}

CorrectionLabels(reviewed, contexts) ==
    LET joined == {j \in (DOMAIN contexts) \X reviewed : Movement(contexts[j[1]]) = Movement(j[2])}
    IN  {[context |-> j[1], at |-> j[2].at,
          label |-> IF j[2].verdict = "none" THEN NoCorrect ELSE Reviewed] : j \in joined}

-----------------------------------------------------------------------------
\* Traffic weights: the departures a context stands for.

\* The days of the window on which a service runs. Weekday reads the day of the week of a date.
ActiveDays(calendar, exceptions, window, weekday, service) ==
    LET regular == {d \in window : \E c \in calendar : /\ c.service = service
                                                       /\ c.from <= d /\ d <= c.to
                                                       /\ weekday[d] \in c.days}
        excepted(kind) == {d \in window : [service |-> service, date |-> d, kind |-> kind] \in exceptions}
    IN  (regular \cup excepted("added")) \ excepted("removed")

ContextTrips(contextCalls, context) == {r.trip : r \in {q \in contextCalls : q.context = context}}

\* Faulty variant: a trip counts once for every call it makes in the context.
DeparturesPerCall(contextCalls, trips, days, context) ==
    MapThenSumSet(LAMBDA r : IF r.trip \in DOMAIN trips THEN Cardinality(days[trips[r.trip]]) ELSE 0,
                  {r \in contextCalls : r.context = context})

Departures(contextCalls, trips, days, context) ==
    MapThenSumSet(LAMBDA t : IF t \in DOMAIN trips THEN Cardinality(days[trips[t]]) ELSE 0,
                  ContextTrips(contextCalls, context))

ContextWeights(contextCalls, trips, days) ==
    [c \in {r.context : r \in contextCalls} |-> Departures(contextCalls, trips, days, c)]
=============================================================================
