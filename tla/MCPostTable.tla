------------------------------ MODULE MCPostTable ------------------------------
(***************************************************************************)
(* Evidence packs of two stops: one set for the labels an overlay gives,   *)
(* one for the clusterings and the correct rows under corrections, one for *)
(* authored numbers and one for the calendar.                              *)
(***************************************************************************)
EXTENDS PostTable, TLC

MCMinimumStops == 2
MCSource == "pid"
MCWindow == 2 .. 5
MCWeekday == [d \in 1 .. 7 |-> d % 3]

At(x) == [x |-> x, y |-> 0]

\* The function itself. (TLC computes an operand of @@ in full, once.)
Tabulated(f) == f @@ <<>>

-----------------------------------------------------------------------------
\* The timetable: five trips, the first of which comes back to stop 1.
Patterns == [t \in 1 .. 5 |-> IF t = 1 THEN <<1, 2, 1>> ELSE <<1, 2>>]
ContextsAt(return) == [t \in 1 .. 5 |-> IF t = 1 THEN <<11, 12, return>> ELSE <<11, 12>>]
Elsewhere == Tabulated(ContextsAt(13))
\* Trip 4 is of a mode without contexts.
Again == Tabulated([ContextsAt(11) EXCEPT ![4] = <<None, None>>])
Calls == UNION {{<<t, i>> : i \in DOMAIN Patterns[t]} : t \in DOMAIN Patterns}

Numbers == [t \in DOMAIN Patterns |-> [i \in DOMAIN Patterns[t] |-> 3 + 2 * i]]
StopTimes == {[trip |-> c[1], seq |-> Numbers[c[1]][c[2]], stop |-> Patterns[c[1]][c[2]]] : c \in Calls}
ContextCalls(contextAt) ==
    {[context |-> contextAt[c[1]][c[2]], trip |-> c[1], stop |-> Patterns[c[1]][c[2]],
      occurrence |-> Cardinality({j \in 1 .. (c[2] - 1) : Patterns[c[1]][j] = Patterns[c[1]][c[2]]})] :
     c \in {d \in Calls : contextAt[d[1]][d[2]] # None}}
CallsElsewhere == ContextCalls(Elsewhere)
CallsAgain == ContextCalls(Again)

\* The mappings an overlay writes for its bindings.
CallMaps(bindings) ==
    UNION {{[source |-> b.source, sourceTrip |-> b.sourceTrip, output |-> b.output, ordinal |-> i,
             post |-> b.posts[i]] : i \in DOMAIN b.posts} : b \in bindings}
TripMaps(bindings) ==
    {[source |-> b.source, sourceTrip |-> b.sourceTrip, output |-> b.output, base |-> b.base,
      edits |-> b.edits] : b \in bindings}

\* Source posts at, beside, away from and far off the route point of stop 1; stop 2 has its own.
SourceStops == [p \in 1 .. 5 |-> CASE p = 1 -> At(10) [] p = 2 -> At(28) [] p = 3 -> At(50)
                                   [] p = 4 -> At(500) [] p = 5 -> At(1004)]
RoutePoints == {[id |-> 1, stop |-> 1, x |-> 0, y |-> 0], [id |-> 2, stop |-> 1, x |-> -4, y |-> 0],
                [id |-> 3, stop |-> 2, x |-> 1000, y |-> 0]}

Bind(source, trip, output, edits, served) ==
    [source |-> source, sourceTrip |-> <<source, trip, output>>, output |-> <<trip, output>>, base |-> trip,
     edits |-> edits, posts |-> served]
PostsOf(trip, first, last) == IF trip = 1 THEN <<first, 5, last>> ELSE <<first, 5>>

\* The first k trips serve post a at stop 1 and the others post b; one of them is bound with an
\* edit, one is bound twice (on other dates, to post d), and another source serves post 4.
Bindings(a, b, k, d, edited) ==
    {Bind("pid", t, 1, IF t = edited THEN 1 ELSE 0, PostsOf(t, IF t <= k THEN a ELSE b, 3)) : t \in 1 .. 5}
    \cup {Bind("pid", 2, 2, 0, PostsOf(2, d, 3)), Bind("jmk", 5, 1, 0, PostsOf(5, 4, 4))}

-----------------------------------------------------------------------------
\* The evidence: candidates of stop 1 (1 to 5) and of stop 2 (6 to 8).

\* Observations: OSM nodes 1, 2, 6, 7 and 9, and points of two catalogues, the second of which has
\* one point at stop 1 (tenth = 4) or two. Else the point of an observation has its number.
Observation(o, refs, tenth) ==
    [stop |-> IF o \in 6 .. 8 THEN 2 ELSE 1, point |-> IF o = 10 THEN tenth ELSE o,
     source |-> CASE o \in {1, 2, 6, 7, 9} -> "osm" [] o \in {3, 5} -> "external:a" [] OTHER -> "external:b",
     ref |-> IF o \in DOMAIN refs THEN refs[o] ELSE None,
     platform |-> o \in {1, 2, 6, 7, 9}]
Hypothesis(h, x, members) ==
    [stop |-> IF h \in 6 .. 8 THEN 2 ELSE 1, x |-> x, y |-> IF h = 5 THEN 6 ELSE 0,
     station |-> h = 3, members |-> members, representative |-> members[Len(members)]]

Context(stop, mode, authored) ==
    [stop |-> stop, line |-> "1", direction |-> 1, previous |-> None, next |-> 2, mode |-> mode,
     authored |-> authored]

PlainContexts ==
    (11 :> Context(1, "A", None)) @@ (12 :> Context(2, "A", None)) @@ (13 :> Context(1, "E", 2))

Scores ==
    {[context |-> c, hypothesis |-> h, variant |-> 0, incompatible |-> FALSE] : c \in {11, 13}, h \in 1 .. 5}
    \cup {[context |-> 12, hypothesis |-> h, variant |-> 0, incompatible |-> h = 8] : h \in 6 .. 8}
    \cup {[context |-> c, hypothesis |-> 1, variant |-> 1, incompatible |-> FALSE] : c \in {11, 12, 13}}

Services == Tabulated([t \in 1 .. 4 |-> IF t < 3 THEN "daily" ELSE "rare"])
Calendar == {[service |-> "daily", from |-> 1, to |-> 4, days |-> {0, 1}]}

Pack(labelling, bindings, again, observations, hypotheses, modes, corrections, exceptions) ==
    [labelling |-> labelling, patterns |-> Patterns, numbers |-> Numbers, contextAt |-> IF again THEN Again ELSE Elsewhere,
     bindings |-> bindings, stopTimes |-> StopTimes,
     contextCalls |-> IF again THEN CallsAgain ELSE CallsElsewhere, callMaps |-> CallMaps(bindings),
     tripMaps |-> TripMaps(bindings), sourceStops |-> SourceStops, routePoints |-> RoutePoints,
     contexts |-> PlainContexts, observations |-> observations, hypotheses |-> hypotheses,
     pointModes |-> modes, scores |-> Scores, corrections |-> corrections,
     calendar |-> Calendar, exceptions |-> exceptions, trips |-> Services]

Observations(refs, tenth) == Tabulated([o \in 1 .. 10 |-> Observation(o, refs, tenth)])
\* Hypothesis 2 has two nodes; hypothesis 5 has a point of each catalogue.
Members(h) == CASE h = 2 -> <<9, 2>> [] h = 5 -> <<10, 5>> [] OTHER -> <<h>>
Hypotheses(xs) == Tabulated([h \in 1 .. 8 |-> Hypothesis(h, xs[h], Members(h))])
Modes(m) == Tabulated([p \in 1 .. 10 |-> CASE p = 1 -> m[1] [] p = 2 -> m[2] [] OTHER -> {}])

-----------------------------------------------------------------------------
\* The packs, numbered by the choices that make them.

LabelNumbers == {<<1, a, b, k, d, e>> : a \in 1 .. 4, b \in {1, 3}, k \in 2 .. 4, d \in 1 .. 4, e \in {0, 1, 4}}
LabelPack(n) ==
    Pack("overlay", Bindings(n[2], n[3], n[4], n[5], n[6]), FALSE, Observations(<<>>, 4),
         Hypotheses(<<0, 26, 9, 22, 60, 1000, 1018, 1009>>), Modes(<<{}, {}>>), {}, {})

Correction(context, recorded, verdict, at) ==
    [stop |-> context.stop, line |-> context.line, direction |-> context.direction,
     previous |-> context.previous, next |-> context.next, recorded |-> recorded,
     verdict |-> verdict, at |-> at]
Corrections(r, x) ==
    {Correction(PlainContexts[11], 1, "none", None), Correction(PlainContexts[11], r, "post", At(x)),
     Correction(PlainContexts[11], 2, "post", At(20)),
     [Correction(PlainContexts[12], 3, "post", At(1000)) EXCEPT !.direction = 2]}

PlaceNumbers ==
    {<<2, x2, x3, x4, refs, m, r, x, tenth>> : x2 \in {4, 26, 34}, x3 \in {9, 18, 30}, x4 \in {2, 22, 44},
                                        refs \in {0, 2}, m \in 1 .. 3, r \in 1 .. 3, x \in {3, 70},
                                               tenth \in {4, 10}}
ModeChoices == <<<<{}, {}>>, <<{"TRAM"}, {}>>, <<{"TRAM"}, {"BUS"}>>>>
PlacePack(n) ==
    Pack("corrections", {}, FALSE, Observations([o \in 1 .. n[5] |-> o], n[9]),
         Hypotheses(<<0, n[2], n[3], n[4], 40, 1000, 1018, 1009>>), Modes(ModeChoices[n[6]]),
         Corrections(n[7], n[8]), {})

AuthoredNumbers == {<<3, x2, refs>> : x2 \in {4, 26}, refs \in 1 .. 3}
AuthoredPack(n) ==
    Pack("authored", {}, FALSE, Observations(<<<<1, 2>>, <<2, 2>>, <<1, 3>>>>[n[3]], 4),
         Hypotheses(<<0, n[2], 9, 22, 40, 1000, 1018, 1009>>), Modes(<<{}, {}>>), {}, {})

Exception(date, kind) == [service |-> IF date < 5 THEN "daily" ELSE "rare", date |-> date, kind |-> kind]
ExceptionChoices == <<Exception(3, "removed"), Exception(4, "added"), Exception(4, "removed"),
                      Exception(5, "added"), Exception(6, "added")>>
CalendarNumbers == {<<4, again>> \o bits : again \in {0, 1}, bits \in [1 .. 5 -> 0 .. 1]}
CalendarPack(n) ==
    Pack("authored", {}, n[2] = 1, Observations(<<>>, 4),
         Hypotheses(<<0, 26, 9, 22, 40, 1000, 1018, 1009>>), Modes(<<{}, {}>>), {},
         {ExceptionChoices[i] : i \in {j \in 1 .. 5 : n[j + 2] = 1}})

MCPacks ==
    {LabelPack(n) : n \in LabelNumbers} \cup {PlacePack(n) : n \in PlaceNumbers}
    \cup {AuthoredPack(n) : n \in AuthoredNumbers} \cup {CalendarPack(n) : n \in CalendarNumbers}

\* The packs are such as the theorems about labels and weights are about.
ASSUME AllAreWritten == PacksAreWritten
=============================================================================
