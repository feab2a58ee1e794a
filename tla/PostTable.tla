------------------------------- MODULE PostTable -------------------------------
(***************************************************************************)
(* The candidate table of the post scorer: labels from one of three        *)
(* sources, the facts about the candidates of an evidence pack, physical   *)
(* posts and areas, the rows a context may choose from, the rows marked as *)
(* correct, and the traffic weights                                        *)
(* (scripts/post-scorer/post_scorer/{labels,corrections,features,          *)
(* weights}.py, each a command of its own).                                *)
(*                                                                         *)
(* A pack is everything the commands read: the evidence pack, the exported *)
(* hypotheses and scores, the mappings of the overlay, the corrections and *)
(* the calendar of the base timetable. Beside its tables it carries what   *)
(* they were written from (patterns, numbers, contextAt and bindings),     *)
(* which only the properties read.                                         *)
(***************************************************************************)
EXTENDS PostClusters

CONSTANTS
    Packs,          \* the evidence packs
    Source,         \* --source-id
    Window,         \* the dates of --start and --days
    Weekday         \* the day of the week of each date

\* Tables are finite. Hypotheses and source posts are numbered and lie on the plane, as do the
\* places that corrections may name.
ASSUME PacksAssumption ==
    \A p \in Packs :
        /\ IsFiniteSet(DOMAIN p.hypotheses) /\ IsFiniteSet(p.callMaps) /\ IsFiniteSet(p.tripMaps)
        /\ IsFiniteSet(p.stopTimes) /\ IsFiniteSet(p.contextCalls)
        /\ DOMAIN p.hypotheses \in SUBSET Int /\ DOMAIN p.sourceStops \in SUBSET Int
        /\ \A h \in DOMAIN p.hypotheses : p.hypotheses[h].x \in Int /\ p.hypotheses[h].y \in Int
        /\ \A s \in DOMAIN p.sourceStops : p.sourceStops[s].x \in Int /\ p.sourceStops[s].y \in Int
        /\ \A c \in p.corrections : c.at # None => c.at.x \in Int /\ c.at.y \in Int

\* A null is not a label, and the window is a set of dates.
ASSUME TableAssumption == None # NoCorrect /\ IsFiniteSet(Window) /\ Window \subseteq Int

VARIABLES
    stage,          \* the next step
    pack,           \* what the commands read
    labels,         \* labels.parquet: at most one label per context
    report,         \* label-report.json, if the labels are from an overlay
    facts,          \* candidate_facts
    posts,          \* the physical posts
    areas,          \* the areas, sets of posts
    rows,           \* the rows of the table before labels
    table,          \* the table
    departures      \* context_weights.parquet

tableVars == <<stage, pack, labels, report, facts, posts, areas, rows, table, departures>>

TableInit ==
    /\ pack \in Packs
    /\ stage = "labels"
    /\ labels = {} /\ report = None
    /\ facts = <<>> /\ posts = {} /\ areas = {}
    /\ rows = {} /\ table = {} /\ departures = <<>>

-----------------------------------------------------------------------------
\* build_labels.
LabelFromOverlay ==
    /\ stage = "labels" /\ pack.labelling = "overlay"
    /\ \E calls \in {SourceCallsOnBase(pack.callMaps, pack.tripMaps, pack.sourceStops, Source)} :
       \E observed \in {ContextSourcePosts(calls, BaseCalls(pack.stopTimes), pack.contextCalls)} :
       \E majorities \in {MajorityPosts(observed)} :
       \E inEvidence \in {{m \in majorities : m.context \in DOMAIN pack.contexts}} :
       \E attached \in {AttachLabels({m \in inEvidence : Agreeing(m)}, pack.routePoints, pack.sourceStops)} :
            /\ labels' = KeptLabels(attached)
            /\ report' = LabelReport(majorities, inEvidence, attached)
    /\ stage' = "facts"
    /\ UNCHANGED <<pack, facts, posts, areas, rows, table, departures>>

\* corrections_to_labels.
LabelFromCorrections ==
    /\ stage = "labels" /\ pack.labelling = "corrections"
    /\ \E reviewed \in LatestCorrections(pack.corrections) :
            labels' = CorrectionLabels(reviewed, pack.contexts)
    /\ stage' = "facts"
    /\ UNCHANGED <<pack, report, facts, posts, areas, rows, table, departures>>

\* --authored-labels.
LabelFromAuthored ==
    /\ stage = "labels" /\ pack.labelling = "authored"
    /\ labels' = AuthoredLabels(pack.contexts, pack.hypotheses, pack.observations)
    /\ stage' = "facts"
    /\ UNCHANGED <<pack, report, facts, posts, areas, rows, table, departures>>

\* The candidates that are posts, each a post of its own to begin with.
BuildFacts ==
    /\ stage = "facts"
    /\ facts' = CandidateFacts(pack.hypotheses, pack.observations, StopLevelSources(pack.observations))
    /\ posts' = {{h} : h \in DOMAIN facts'}
    /\ stage' = "posts"
    /\ UNCHANGED <<pack, labels, report, areas, rows, table, departures>>

\* The closest pair is joined. The code goes stop by stop, and no pair spans two stops.
MergePosts ==
    /\ stage = "posts"
    /\ \E p \in PostPairs(facts, posts) :
            /\ \A q \in PostPairs(facts, posts) \ {p} : PostPairBefore(facts, p, q)
            /\ posts' = Joined(posts, p)
    /\ UNCHANGED <<stage, pack, labels, report, facts, areas, rows, table, departures>>

PostsSettled ==
    /\ stage = "posts"
    /\ PostPairs(facts, posts) = {}
    /\ areas' = {{p} : p \in posts}
    /\ stage' = "areas"
    /\ UNCHANGED <<pack, labels, report, facts, posts, rows, table, departures>>

\* post_areas: the class of every post, by the modes of all its members.
Classes ==
    [p \in posts |-> ModeClass(PostModes(pack.hypotheses, pack.observations, pack.pointModes, p))]

MergeAreas ==
    /\ stage = "areas"
    /\ \E p \in AreaPairs(facts, Classes, areas) :
            /\ \A q \in AreaPairs(facts, Classes, areas) \ {p} : AreaPairBefore(facts, p, q)
            /\ areas' = Joined(areas, p)
    /\ UNCHANGED <<stage, pack, labels, report, facts, posts, rows, table, departures>>

AreasSettled ==
    /\ stage = "areas"
    /\ AreaPairs(facts, Classes, areas) = {}
    /\ stage' = "rows"
    /\ UNCHANGED <<pack, labels, report, facts, posts, areas, rows, table, departures>>

-----------------------------------------------------------------------------
\* build_candidate_table.

PostOf(h) == CHOOSE p \in posts : h \in p

\* A candidate without known modes is open to all; otherwise one of them must serve the context.
ServingModes(mode) ==
    CASE mode = "A" -> {"BUS", "ROAD", "SHARED"}
      [] mode = "E" -> {"TRAM", "SHARED"}
      [] mode = "T" -> {"TROLLEYBUS", "BUS", "ROAD", "SHARED"}
ModeCompatible(mode, modes) ==
    modes = {} \/ mode \notin {"A", "E", "T"} \/ modes \cap ServingModes(mode) # {}

Choosable(context, h) ==
    /\ h \in DOMAIN facts
    /\ context \in DOMAIN pack.contexts
    /\ ModeCompatible(pack.contexts[context].mode,
                      PostModes(pack.hypotheses, pack.observations, pack.pointModes, PostOf(h)))

SelectRows ==
    /\ stage = "rows"
    /\ rows' = {[context |-> s.context, hypothesis |-> s.hypothesis] :
                  s \in {t \in pack.scores : /\ t.variant = 0 /\ ~t.incompatible
                                             /\ Choosable(t.context, t.hypothesis)}}
    /\ stage' = "positives"
    /\ UNCHANGED <<pack, labels, report, facts, posts, areas, table, departures>>

\* Bays, by station or by number; a bay's duplicates are bays. Support of a post, and what it
\* lacks to the best supported of its stop.
AtStop(stop) == {h \in DOMAIN facts : facts[h].stop = stop}
Numbered(h) == facts[h].ref # None /\ facts[h].platform
PointIsBay(h) ==
    \/ facts[h].station
    \/ Numbered(h) /\ Cardinality({g \in AtStop(facts[h].stop) : Numbered(g)}) >= MinimumNumberedBays
IsBay(h) == \E g \in PostOf(h) : PointIsBay(g)

Support(h) == Cardinality(SourcesOf(facts, PostOf(h)))
SupportDeficit(h) == Max({Support(g) : g \in AtStop(facts[h].stop)}) - Support(h)
StopPostCount(h) == Cardinality({PostOf(g) : g \in AtStop(facts[h].stop)})

ChoicesOf(context) == {r.hypothesis : r \in {s \in rows : s.context = context}}

\* The correct candidates: the one nearest the labelled place, within the tolerance, and its
\* duplicates; without a place, those that contain the labelled route point.
NearestChoices(label) ==
    LET near == {h \in ChoicesOf(label.context) : Within(facts[h], label.at, Tolerance)}
    IN  {h \in near : \A g \in near \ {h} :
            \/ SquaredDistance(facts[h], label.at) < SquaredDistance(facts[g], label.at)
            \/ SquaredDistance(facts[h], label.at) = SquaredDistance(facts[g], label.at) /\ h < g}
ContainedPoints(h) ==
    LET members == pack.hypotheses[h].members
    IN  {pack.observations[members[i]].point : i \in DOMAIN members}

\* Faulty variant: the nearest choice is correct without its duplicates.
CorrectNearestOnly(label) ==
    IF label.label = NoCorrect \/ label.at = None THEN {} ELSE NearestChoices(label)

Correct(label) ==
    IF label.label = NoCorrect \/ (label.at = None /\ pack.labelling # "authored") THEN {}
    ELSE IF label.at = None
         THEN {h \in ChoicesOf(label.context) : label.label \in ContainedPoints(h)}
         ELSE {h \in ChoicesOf(label.context) : \E g \in NearestChoices(label) : PostOf(h) = PostOf(g)}

MarkPositives ==
    /\ stage = "positives"
    /\ \E correct \in {[l \in labels |-> Correct(l)]} :
        table' = {[context |-> r.context, hypothesis |-> r.hypothesis,
                   bay |-> IsBay(r.hypothesis), support |-> Support(r.hypothesis),
                   deficit |-> SupportDeficit(r.hypothesis), postCount |-> StopPostCount(r.hypothesis),
                   labelled |-> \E l \in labels : l.context = r.context,
                   noCorrect |-> \E l \in labels : l.context = r.context /\ l.label = NoCorrect,
                   y |-> \E l \in labels : l.context = r.context /\ r.hypothesis \in correct[l]] : r \in rows}
    /\ stage' = "weights"
    /\ UNCHANGED <<pack, labels, report, facts, posts, areas, rows, departures>>

\* weights.py.
CountDepartures ==
    /\ stage = "weights"
    /\ \E days \in {[s \in Range(pack.trips) |->
                        ActiveDays(pack.calendar, pack.exceptions, Window, Weekday, s)]} :
            departures' = ContextWeights(pack.contextCalls, pack.trips, days)
    /\ stage' = "done"
    /\ UNCHANGED <<pack, labels, report, facts, posts, areas, rows, table>>

Complete == stage = "done" /\ UNCHANGED tableVars

TableNext ==
    \/ LabelFromOverlay \/ LabelFromCorrections \/ LabelFromAuthored
    \/ BuildFacts \/ MergePosts \/ PostsSettled \/ MergeAreas \/ AreasSettled
    \/ SelectRows \/ MarkPositives \/ CountDepartures \/ Complete

TableSpec == TableInit /\ [][TableNext]_tableVars

-----------------------------------------------------------------------------
\* Properties.

After(s) == CASE s = "posts" -> stage \in {"areas", "rows", "positives", "weights", "done"}
              [] s = "areas" -> stage \in {"rows", "positives", "weights", "done"}
              [] s = "positives" -> stage \in {"weights", "done"}

\* Two different candidates that may not share a post.
Apart(g, h) ==
    \/ facts[g].stop # facts[h].stop
    \/ facts[g].sources \cap facts[h].sources # {}
    \/ facts[g].ref # None /\ facts[h].ref # None /\ facts[g].ref # facts[h].ref
    \/ ~Within(facts[g], facts[h], PostDiameter)

\* At every moment of the clustering the posts are a partition of the candidates, and no two
\* candidates of a post are of different stops, of one source, of different numbers or further
\* apart than the diameter (features.py:74-117, whatever the order of the merges).
PostsAreSound ==
    /\ UNION posts = DOMAIN facts
    /\ {} \notin posts
    /\ \A p, q \in posts : p # q => p \cap q = {}
    /\ \A p \in posts : \A g, h \in p : g # h => ~Apart(g, h)

\* Two candidates that are each other's nearest possible partner are one post in the end: merges
\* run closest first, so nothing further away comes between them (features.py:79-82).
NearestShareAPost ==
    After("posts") => \A g, h \in DOMAIN facts :
        (/\ g # h /\ ~Apart(g, h)
         /\ \A k \in DOMAIN facts \ {g, h} :
                /\ ~Apart(g, k) => SquaredDistance(facts[g], facts[h]) < SquaredDistance(facts[g], facts[k])
                /\ ~Apart(h, k) => SquaredDistance(facts[g], facts[h]) < SquaredDistance(facts[h], facts[k]))
        => PostOf(g) = PostOf(h)

\* Areas are made of whole posts of one stop, each in one area, with centres within the diameter
\* and never of trams and roads together; a post without modes is kept out of an area only by a
\* post out of reach or by the other class (features.py:246-304).
AreasAreSound ==
    After("areas") =>
        /\ UNION areas = posts
        /\ \A a, b \in areas : a # b => a \cap b = {}
        /\ \A a \in areas : \A p, q \in a : p # q =>
                /\ \A g \in p, h \in q : facts[g].stop = facts[h].stop
                /\ Within(Centre(facts, p), Centre(facts, q), Resolution * AreaDiameter)
                /\ ~(Classes[p] = {"road"} /\ Classes[q] = {"tram"})
        /\ \A p, q \in posts :
                (p # q /\ {p} \in areas /\ {q} \in areas /\ (\A g \in p, h \in q : facts[g].stop = facts[h].stop))
                => \/ ~Within(Centre(facts, p), Centre(facts, q), Resolution * AreaDiameter)
                   \/ {Classes[p], Classes[q]} = {{"road"}, {"tram"}}

Positives(context) == {r.hypothesis : r \in {t \in table : t.context = context /\ t.y}}

\* The choices of a context that lie within the tolerance of its labelled place.
NearChoices(label) == {h \in ChoicesOf(label.context) : Within(facts[h], label.at, Tolerance)}

\* A context labelled with a place has a correct candidate exactly if it has a choice within the
\* tolerance, and a nearest one is correct; and a physical post mapped more than once is never
\* taught both ways: of its candidates in one context all are correct or none (features.py:499-521).
PositivesAreWholePosts ==
    After("positives") => \A l \in labels : (l.at # None /\ l.label # NoCorrect) =>
        /\ NearChoices(l) = {} => Positives(l.context) = {}
        /\ NearChoices(l) # {} => \E h \in Positives(l.context) \cap NearChoices(l) : \A g \in NearChoices(l) :
                                        SquaredDistance(facts[h], l.at) <= SquaredDistance(facts[g], l.at)
        /\ \A g, h \in ChoicesOf(l.context) :
                PostOf(g) = PostOf(h) => (g \in Positives(l.context) <=> h \in Positives(l.context))

\* The bindings whose calls are those of a trip of the base timetable.
Unedited(p) == {b \in p.bindings : b.source = Source /\ b.edits = 0 /\ b.base # None}

\* The source calls that really were at a context, each counted once for each post: call i of trip
\* t is that of context contextAt[t][i], and an unedited binding has its posts by call.
Served(context) ==
    {c \in UNION {{<<b.base, i, b.posts[i]>> : i \in DOMAIN b.posts} : b \in Unedited(pack)} :
        c[3] \in DOMAIN pack.sourceStops /\ pack.contextAt[c[1]][c[2]] = context}

\* The tables of a timetable: every call has a row under its stop_sequence and, unless it has no
\* context (trips of other modes, stops outside the region), one in the context export.
CallsOf(p) == UNION {{<<t, i>> : i \in DOMAIN p.patterns[t]} : t \in DOMAIN p.patterns}
StopOf(p, c) == p.patterns[c[1]][c[2]]
ContextOf(p, c) == p.contextAt[c[1]][c[2]]
Before(p, c) == Cardinality({j \in 1 .. (c[2] - 1) : p.patterns[c[1]][j] = StopOf(p, c)})
StopTimeRow(p, c) == [trip |-> c[1], seq |-> p.numbers[c[1]][c[2]], stop |-> StopOf(p, c)]
ContextRow(p, c) == [context |-> ContextOf(p, c), trip |-> c[1], stop |-> StopOf(p, c), occurrence |-> Before(p, c)]
IsTimetable(p) ==
    /\ DOMAIN p.trips \subseteq DOMAIN p.patterns
    /\ \A t \in DOMAIN p.patterns :
          /\ Len(p.patterns[t]) \in Nat /\ DOMAIN p.patterns[t] = 1 .. Len(p.patterns[t])
          /\ \A i \in DOMAIN p.patterns[t] :
                /\ p.numbers[t][i] \in Int
                /\ \A j \in DOMAIN p.patterns[t] : i < j => p.numbers[t][i] < p.numbers[t][j]
                /\ p.contextAt[t][i] \in DOMAIN p.contexts => p.contexts[p.contextAt[t][i]].stop = p.patterns[t][i]
    /\ p.stopTimes = {StopTimeRow(p, c) : c \in CallsOf(p)}
    /\ p.contextCalls = {ContextRow(p, c) : c \in {d \in CallsOf(p) : ContextOf(p, d) # None}}
    /\ \A k \in p.calendar : k.from \in Int /\ k.to \in Int

\* The mappings of an overlay: an output trip has one selection, and so its bindings to a source
\* trip have the same posts.
IsOverlay(p) ==
    /\ p.callMaps = UNION {{[source |-> b.source, sourceTrip |-> b.sourceTrip, output |-> b.output,
                             ordinal |-> i, post |-> b.posts[i]] : i \in DOMAIN b.posts} : b \in p.bindings}
    /\ p.tripMaps = {[source |-> b.source, sourceTrip |-> b.sourceTrip, output |-> b.output, base |-> b.base,
                      edits |-> b.edits] : b \in p.bindings}
    /\ \A d \in Unedited(p) : d.base \in DOMAIN p.patterns /\ DOMAIN d.posts \subseteq DOMAIN p.patterns[d.base]
    /\ \A b \in p.bindings, d \in Unedited(p) :
          b.source = Source /\ b.sourceTrip = d.sourceTrip /\ b.output = d.output => b.posts = d.posts

\* Every route point has an id of its own, which is no other label, and the null is neither
\* a context nor a point.
IsEvidence(p) ==
    /\ None \notin DOMAIN p.contexts /\ None \notin p.routePoints
    /\ IsFiniteSet(p.routePoints)
    /\ \A r \in p.routePoints : /\ r.id \in Int /\ r.x \in Int /\ r.y \in Int
                                /\ r.id # None /\ r.id # NoCorrect
                                /\ \A s \in p.routePoints : r.id = s.id => r = s

PacksAreWritten == \A p \in Packs : IsTimetable(p) /\ IsOverlay(p) /\ IsEvidence(p)

\* A context is labelled by the overlay exactly if one source post has four fifths of the calls
\* really made there and its nearest route point is clearly the post or clearly another; and the
\* label says which. Trips that come back to a stop, call numbers with gaps and trips cut into
\* several outputs must not shift a call to another context (labels.py:63-248).
LabelsFollowTheCalls ==
    (pack.labelling = "overlay" /\ stage # "labels") => \A c \in DOMAIN pack.contexts :
        LET at(p) == {s \in Served(c) : s[3] = p}
            main == {p \in DOMAIN pack.sourceStops :
                        5 * Cardinality(at(p)) >= 4 * Cardinality(Served(c)) /\ at(p) # {}}
            points == {r \in pack.routePoints : r.stop = pack.contexts[c].stop}
            gaps(p) == {SquaredDistance(pack.sourceStops[p], r) : r \in points}
            good == {p \in main : points # {} /\ Min(gaps(p)) <= 400}
            away == {p \in main : points # {} /\ Min(gaps(p)) > 1225 /\ Min(gaps(p)) <= 90000}
            mine == {l \in labels : l.context = c}
        IN  /\ mine # {} <=> good \cup away # {}
            /\ \A l \in mine :
                 /\ l.at \in {pack.sourceStops[p] : p \in good \cup away}
                 /\ l.label = NoCorrect <=> good = {}
                 /\ good # {} => \E r \in points : /\ l.label = r.id
                                                   /\ SquaredDistance(l.at, r) = Min(gaps(CHOOSE p \in good : TRUE))

\* A context's reviewed label is that of a correction of exactly its movement which no later
\* correction of the movement replaces, and every corrected movement labels all its contexts
\* (corrections.py:27-54).
LatestCorrectionWins ==
    (pack.labelling = "corrections" /\ stage # "labels") => \A c \in DOMAIN pack.contexts :
        LET about == {k \in pack.corrections : Movement(k) = Movement(pack.contexts[c])}
            latest == {k \in about : \A j \in about : j.recorded <= k.recorded}
        IN  {l \in labels : l.context = c} \in
                IF about = {} THEN {{}}
                ELSE {{[context |-> c, at |-> k.at,
                        label |-> IF k.verdict = "none" THEN NoCorrect ELSE Reviewed]} : k \in latest}

\* A service runs on a date that is added, or that its week has and that is not removed.
Runs(service, date) ==
    /\ [service |-> service, date |-> date, kind |-> "removed"] \notin pack.exceptions
    /\ \/ [service |-> service, date |-> date, kind |-> "added"] \in pack.exceptions
       \/ \E k \in pack.calendar : k.service = service /\ date \in k.from .. k.to /\ Weekday[date] \in k.days

\* The weight of a context is the number of departures there in the window: each trip once a day
\* on which it runs, however often it calls (weights.py:26-60).
DeparturesCounted ==
    stage = "done" => \A c \in DOMAIN departures :
        departures[c] = Cardinality({r \in (DOMAIN pack.trips) \X Window :
            /\ Runs(pack.trips[r[1]], r[2])
            /\ \E i \in DOMAIN pack.patterns[r[1]] : pack.contextAt[r[1]][i] = c})

\* What is known of a context was seen in that context: its label is that of the calls made there
\* or of the corrections of its movement, and its weight counts the departures from it.
EvidenceIsOfTheContext == LabelsFollowTheCalls /\ LatestCorrectionWins /\ DeparturesCounted

=============================================================================
