----------------------------- MODULE PostClusters -----------------------------
(***************************************************************************)
(* What the candidates of a stop have to do with each other: which sources *)
(* list posts at all, the facts about each candidate, and the two          *)
(* clusterings, of candidates into physical posts and of posts into areas  *)
(* (scripts/post-scorer/post_scorer/features.py).                          *)
(*                                                                         *)
(* A hypothesis is a number (its order breaks ties). observations maps an  *)
(* observation to its stop, route point, source, local_ref and whether it  *)
(* is an OSM platform; pointModes maps a route point to its explicit       *)
(* modes. A post is the set of its candidates and an area the set of its   *)
(* posts; the code's cluster indices, which are ordered by the least       *)
(* member, are the least members.                                          *)
(* The code sorts an area's posts by their ids as text, which is the       *)
(* order of the least members for up to ten posts of a stop.               *)
(***************************************************************************)
EXTENDS PostLabels, Sequences

CONSTANT MinimumStops       \* STOP_LEVEL_MINIMUM_STOPS: 20

\* STOP_LEVEL_MAXIMUM_SHARE as a ratio, MINIMUM_NUMBERED_BAYS, and the two diameters in metres.
MaximumShare == <<1, 2>>
MinimumNumberedBays == 3
PostDiameter == 25
AreaDiameter == 40

-----------------------------------------------------------------------------
\* source_granularity: sources that give one point at stops where OSM has several.

PointsAt(observations, stop, source) ==
    {observations[o].point : o \in {q \in DOMAIN observations :
        observations[q].stop = stop /\ observations[q].source = source}}
MultiPostStops(observations) ==
    {s \in {observations[o].stop : o \in DOMAIN observations} :
        Cardinality(PointsAt(observations, s, "osm")) >= 2}

StopLevelSources(observations) ==
    LET stops(source) == {s \in MultiPostStops(observations) : PointsAt(observations, s, source) # {}}
        several(source) == {s \in stops(source) : Cardinality(PointsAt(observations, s, source)) >= 2}
    IN  {source \in {observations[o].source : o \in DOMAIN observations} :
            /\ Cardinality(stops(source)) >= MinimumStops
            /\ MaximumShare[2] * Cardinality(several(source)) < MaximumShare[1] * Cardinality(stops(source))}

-----------------------------------------------------------------------------
\* candidate_facts: candidates only stop-level sources know are dropped, and nothing of such a
\* source counts for the others.

PostMembers(hypothesis, observations, stopLevel) ==
    {i \in DOMAIN hypothesis.members :
        hypothesis.members[i] \in DOMAIN observations
        /\ observations[hypothesis.members[i]].source \notin stopLevel}
FirstRef(hypothesis, observations, members) ==
    LET numbered == {i \in members : observations[hypothesis.members[i]].ref # None}
    IN  IF numbered = {} THEN None ELSE observations[hypothesis.members[Min(numbered)]].ref

CandidateFacts(hypotheses, observations, stopLevel) ==
    LET members(h) == PostMembers(hypotheses[h], observations, stopLevel)
        sources(h) == {observations[hypotheses[h].members[i]].source : i \in members(h)}
    IN  [h \in {k \in DOMAIN hypotheses : members(k) # {}} |->
            [stop |-> hypotheses[h].stop, x |-> hypotheses[h].x, y |-> hypotheses[h].y,
             station |-> hypotheses[h].station, sources |-> sources(h),
             ref |-> FirstRef(hypotheses[h], observations, members(h)),
             platform |-> \E i \in members(h) : observations[hypotheses[h].members[i]].platform]]

-----------------------------------------------------------------------------
\* _cluster_stop: closest-first complete linkage of one stop's candidates.

SourcesOf(facts, post) == UNION {facts[h].sources : h \in post}
RefsOf(facts, post) == {facts[h].ref : h \in post} \ {None}
CandidatesWithin(facts, a, b) == \A g \in a, h \in b : Within(facts[g], facts[h], PostDiameter)

\* Faulty variant: by the nearest instead of the farthest members.
PostsMergeableBySingleLink(facts, a, b) ==
    /\ \A g \in a, h \in b : facts[g].stop = facts[h].stop
    /\ SourcesOf(facts, a) \cap SourcesOf(facts, b) = {}
    /\ \A r, s \in RefsOf(facts, a \cup b) : r = s
    /\ \E g \in a, h \in b : Within(facts[g], facts[h], PostDiameter)

PostsMergeable(facts, a, b) ==
    /\ \A g \in a, h \in b : facts[g].stop = facts[h].stop
    /\ SourcesOf(facts, a) \cap SourcesOf(facts, b) = {}
    /\ \A r, s \in RefsOf(facts, a \cup b) : r = s
    /\ CandidatesWithin(facts, a, b)

PostPairs(facts, posts) ==
    {p \in posts \X posts : Min(p[1]) < Min(p[2]) /\ PostsMergeable(facts, p[1], p[2])}
PostGap(facts, p) == Max({SquaredDistance(facts[g], facts[h]) : g \in p[1], h \in p[2]})

\* Faulty variant: pairs are merged as they come.
PostPairFirst(facts, p, q) ==
    \/ Min(p[1]) < Min(q[1])
    \/ Min(p[1]) = Min(q[1]) /\ Min(p[2]) < Min(q[2])

\* The key of a merge: the diameter, then the least member, then the position of the other.
PostPairBefore(facts, p, q) ==
    \/ PostGap(facts, p) < PostGap(facts, q)
    \/ /\ PostGap(facts, p) = PostGap(facts, q)
       /\ \/ Min(p[1]) < Min(q[1])
          \/ Min(p[1]) = Min(q[1]) /\ Min(p[2]) < Min(q[2])

Joined(clusters, p) == (clusters \ {p[1], p[2]}) \cup {p[1] \cup p[2]}

-----------------------------------------------------------------------------
\* post_modes and _cluster_areas: the modes of a post, and posts near each other.

RouteModes(hypotheses, observations, pointModes, h) ==
    LET members == hypotheses[h].members
    IN  UNION {pointModes[observations[members[i]].point] : i \in DOMAIN members}
PostModes(hypotheses, observations, pointModes, post) ==
    UNION {RouteModes(hypotheses, observations, pointModes, h) : h \in post}
RoadModes == {"ROAD", "BUS", "TROLLEYBUS", "SHARED"}

\* The classes an area may not mix: none for a post without modes.
ModeClass(modes) ==
    IF modes = {} THEN {} ELSE IF modes \cap RoadModes # {} THEN {"road"} ELSE {"tram"}

\* The mean place of a post, in twelfths of a metre (exact for up to four members).
Resolution == 12
Centre(facts, post) ==
    [x |-> (Resolution * MapThenSumSet(LAMBDA h : facts[h].x, post)) \div Cardinality(post),
     y |-> (Resolution * MapThenSumSet(LAMBDA h : facts[h].y, post)) \div Cardinality(post)]
PostsWithin(facts, a, b) ==
    \A p \in a, q \in b : Within(Centre(facts, p), Centre(facts, q), Resolution * AreaDiameter)

\* Faulty variant: the classes of the parts are not looked at.
AreasMergeableAnyMode(facts, class, a, b) ==
    /\ \A p \in a, q \in b : \A g \in p, h \in q : facts[g].stop = facts[h].stop
    /\ PostsWithin(facts, a, b)

AreasMergeable(facts, class, a, b) ==
    /\ \A p \in a, q \in b : \A g \in p, h \in q : facts[g].stop = facts[h].stop
    /\ \A c, d \in UNION {class[p] : p \in a \cup b} : c = d
    /\ PostsWithin(facts, a, b)

LeastOf(area) == Min({Min(p) : p \in area})
AreaPairs(facts, class, areas) ==
    {p \in areas \X areas : LeastOf(p[1]) < LeastOf(p[2]) /\ AreasMergeable(facts, class, p[1], p[2])}
AreaGap(facts, p) ==
    Max({SquaredDistance(Centre(facts, a), Centre(facts, b)) : a \in p[1], b \in p[2]})
AreaPairBefore(facts, p, q) ==
    \/ AreaGap(facts, p) < AreaGap(facts, q)
    \/ /\ AreaGap(facts, p) = AreaGap(facts, q)
       /\ \/ LeastOf(p[1]) < LeastOf(q[1])
          \/ LeastOf(p[1]) = LeastOf(q[1]) /\ LeastOf(p[2]) < LeastOf(q[2])
=============================================================================
