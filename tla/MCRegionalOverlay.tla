------------------------- MODULE MCRegionalOverlay -------------------------
(***************************************************************************)
(* Instances of the regional overlay: two dates of 24 hours, a bus line    *)
(* with a regular and a detour route, a tram line of the same integrated   *)
(* system that the sources leave out, and two sources, one that imports    *)
(* what it cannot match (as PID does) and one that does not (as IDS JMK).  *)
(***************************************************************************)
EXTENDS RegionalOverlay

MCDates == 1 .. 2
MCTiers == <<"full_signature", "pattern_endpoints", "pattern_first", "pattern_nearest",
             "pattern_edit_nearest">>
MCMinimumTier == [schedules |-> "pattern_nearest", call_boarding_points |-> "pattern_edit_nearest",
                  shapes |-> "pattern_edit_nearest"]

BusRoute(detour) ==
    [line |-> "1", mode |-> "bus", label |-> "one", detour |-> detour, systems |-> {"ids"}]
MCBaseRoute ==
    ("regular" :> BusRoute(FALSE)) @@ ("detour" :> BusRoute(TRUE))
    @@ ("tram" :> [line |-> "2", mode |-> "tram", label |-> "two", detour |-> FALSE, systems |-> {"ids"}])
MCSourceRoute ==
    ("bus" :> [mode |-> "bus", label |-> "one"]) @@ ("trolley" :> [mode |-> "trolleybus", label |-> "one"])
    @@ ("variant" :> [mode |-> "bus", label |-> "uno"]) @@ ("blank" :> [mode |-> "bus", label |-> NoLabel])
MCLabelVariants == {{"one", "uno"}}
MCAuthorityModes == [pid |-> {"bus", "trolleybus", "tram"}, jmk |-> {"bus", "trolleybus"}]
MCNativeModes == [pid |-> {"bus", "trolleybus", "tram"}, jmk |-> {"ferry"}]
MCScopes == <<[system |-> "ids", modes |-> {"bus", "tram"}, excluded |-> {}, window |-> {1},
               maximumSilenced |-> 1]>>

\* National call tables: three calls an hour apart, from the given hour.
National(places, hour) ==
    [i \in DOMAIN places |-> [place |-> places[i], arr |-> hour + i, dep |-> hour + i]]
Early == National(<<"x", "y", "z">>, 7)
Late == National(<<"x", "y", "z">>, 9)
Night == National(<<"x", "y", "z">>, 0)

\* Source call tables: the posts of a source at the places, at the given hours; the place of an
\* unmatched stop is the stop itself.
Regional(owner, places, hours) ==
    [i \in DOMAIN places |->
        [place |-> places[i], stop |-> <<owner, places[i]>>,
         platform |-> IF places[i] = "x" THEN "1" ELSE NoPlatform,
         mapped |-> places[i] # "?", arr |-> hours[i], dep |-> hours[i]]]
Xyz == <<"x", "y", "z">>
PidEarly == Regional("pid", Xyz, <<8, 9, 10>>)
PidMiddle == Regional("pid", Xyz, <<9, 10, 11>>)
PidShort == Regional("pid", <<"x", "z">>, <<8, 10>>)
PidNight == Regional("pid", Xyz, <<25, 26, 27>>)
JmkEarly == Regional("jmk", Xyz, <<8, 9, 10>>)
JmkMiddle == Regional("jmk", Xyz, <<9, 10, 11>>)
JmkShort == Regional("jmk", <<"x", "z">>, <<8, 10>>)
JmkUnmatched == Regional("jmk", <<"x", "?">>, <<8, 9>>)

BaseTrip(route, dates, calls) == [route |-> route, dates |-> dates, calls |-> calls]
TramTrip == BaseTrip("tram", {1, 2}, Late)
FirstBase == {BaseTrip("regular", {1, 2}, Early), BaseTrip("detour", {1, 2}, Early), BaseTrip("regular", {2}, Night)}
SecondBase == {BaseTrip("regular", {1, 2}, Early), BaseTrip("regular", {1, 2}, Late),
               BaseTrip("regular", {2}, Late), BaseTrip("detour", {1}, Early)}
MCBaseTimetables == {<<a, b, TramTrip>> : a \in FirstBase, b \in SecondBase}

SourceTrip(owner, route, cis, dates, calls, revision) ==
    [source |-> owner, route |-> route, cis |-> cis, dates |-> dates, calls |-> calls,
     shape |-> NoShape, revision |-> revision]
FirstSource == {SourceTrip("pid", "bus", "1", {1, 2}, PidEarly, 1),
                SourceTrip("pid", "bus", "1", {1}, PidMiddle, 1),
                SourceTrip("pid", "bus", "1", {1, 2}, PidShort, 1),
                SourceTrip("pid", "bus", NoLine, {1, 2}, PidNight, 1),
                SourceTrip("pid", "trolley", "1", {1, 2}, PidEarly, 1)}
SecondSource == {SourceTrip("pid", "bus", "1", {1, 2}, PidEarly, 1),
                 SourceTrip("pid", "bus", "1", {2}, PidMiddle, 2),
                 SourceTrip("pid", "bus", NoLine, {1, 2}, PidShort, 2),
                 SourceTrip("pid", "trolley", NoLine, {1}, PidEarly, 1),
                 SourceTrip("pid", "variant", NoLine, {1}, PidEarly, 1)}
ThirdSource == {SourceTrip("jmk", "bus", "1", {1}, JmkEarly, 1),
                SourceTrip("jmk", "bus", NoLine, {1, 2}, JmkMiddle, 1),
                SourceTrip("jmk", "trolley", "1", {2}, JmkShort, 1),
                SourceTrip("jmk", "bus", "1", {1}, JmkUnmatched, 1),
                SourceTrip("jmk", "blank", NoLine, {1}, JmkEarly, 1),
                SourceTrip("jmk", "bus", NoLine, {2}, <<>>, 1)}
MCSourceTimetables == {<<a, b, c>> : a \in FirstSource, b \in SecondSource, c \in ThirdSource}
=============================================================================
