---------------------------- MODULE MCLicenceMerge ----------------------------
(***************************************************************************)
(* Instances of LicenceMerge.  Dates are 1 .. LastDate; a day is of any    *)
(* kind.                                                                   *)
(***************************************************************************)
EXTENDS TripVersionKeys

CONSTANT LastDate

MCDays == [dow : 1 .. 7, holiday : BOOLEAN, evenWeek : BOOLEAN]
Wednesdays == {d \in MCDays : d.dow = 3}

\* Trips of the codes in use, and of every type of note.
Trip(codes, types) == [codes |-> codes, notes |-> {[type |-> t, dates |-> Wednesdays] : t \in types}]
MCTrips ==
  {Trip({Weekdays}, {}), Trip({HolidaysSundays}, {}), Trip({DayOfWeek(6)}, {}),
   Trip({DayOfWeek(3), DayOfWeek(9)}, {}), Trip({}, {"service"}),
   Trip({Weekdays}, {"also", "no"}), Trip({DayOfWeek(6)}, {"only", "oddWeeks", "evenWeeks"})}

Ranges == {g \in [from : 1 .. LastDate, to : 1 .. LastDate] : g.from <= g.to}

Version(no, batch, g, detour, trips) ==
  [no |-> no, batch |-> batch, from |-> g.from, to |-> g.to, detour |-> detour,
   trips |-> trips, source |-> NoSource]

EveryDay == {Trip({}, {})}

\* Any three versions that run every day, each in a batch of its own, of two dates.
EveryDayBatches(no) ==
  {<<Version(no, batch, g, detour, EveryDay)>> :
     batch \in 1 .. 2, g \in Ranges, detour \in BOOLEAN}

\* The first of them starts on one of the first two dates.
MCThreeVersions ==
  {<<a, b, c>> : a \in {v \in EveryDayBatches(1) : v[1].from <= 2},
                 b \in EveryDayBatches(2), c \in EveryDayBatches(3)}

\* Three versions of one date and trips on days of their own, over two ranges.
DayClassBatches(no) ==
  {<<Version(no, 1, g, detour, trips)>> :
     g \in {[from |-> 1, to |-> LastDate], [from |-> 2, to |-> 2]}, detour \in BOOLEAN,
     trips \in {{Trip({Weekdays}, {})}, {Trip({DayOfWeek(6)}, {})}, EveryDay}}

MCSideBySide ==
  {<<a, b, c>> : a \in DayClassBatches(1), b \in DayClassBatches(2), c \in DayClassBatches(3)}

\* Two versions of one date and range, each of any two trips or fewer.
TwoTripsOrFewer == {trips \in SUBSET MCTrips : Cardinality(trips) <= 2}
AnyTripsBatches(no) ==
  {<<Version(no, 1, [from |-> 1, to |-> LastDate], FALSE, trips)>> : trips \in TwoTripsOrFewer}

MCTwoTimetables == {<<a, b>> : a \in AnyTripsBatches(1), b \in AnyTripsBatches(2)}

\* A merged timetable as the input: one batch that holds two versions, the second
\* what is left of an open-ended one.
MCMergedInput ==
  {<< <<[Version(1, 2, [from |-> 1, to |-> 2], FALSE, EveryDay)
           EXCEPT !.source = [from |-> 1, to |-> 2, created |-> 1]],
        [Version(2, 2, [from |-> 3, to |-> LastDate], FALSE, EveryDay)
           EXCEPT !.source = [from |-> 1, to |-> LastDate, created |-> 1]]>> >>}

MCRegistry == MCThreeVersions \cup MCSideBySide \cup MCTwoTimetables

\* The inputs of the passing run are such as the theorems are about.
ASSUME InputsAreRegistry == \A batches \in MCRegistry : IsRegistry(batches)
================================================================================
