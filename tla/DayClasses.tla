------------------------------ MODULE DayClasses ------------------------------
(***************************************************************************)
(* Two readings of when a trip runs.  JdfCalendar.tripDateBitmap decides   *)
(* it date by date and makes the calendars of the output; the merger's     *)
(* dayClassMask, written apart from it, only says on which classes of days *)
(* a version's trips can run, and keeps two versions of one validity side  *)
(* by side when these are disjoint.                                        *)
(*                                                                         *)
(* A day is [dow, holiday, evenWeek], dow 1 (Monday) .. 7.  A trip is      *)
(* [codes, notes]: those of its attributes that are date codes, and its    *)
(* service notes [type, dates].                                            *)
(***************************************************************************)
EXTENDS Integers

Weekdays == [code |-> "weekday"]
HolidaysSundays == [code |-> "holidaySunday"]
DayOfWeek(d) == [code |-> "day", day |-> d]

--------------------------------------------------------------------------------
\* What the calendar does, codes first and then the notes that override them.
RunsByCodes(trip, date) ==
  \/ HolidaysSundays \in trip.codes /\ (date.holiday \/ date.dow = 7)
  \/ Weekdays \in trip.codes /\ ~date.holiday /\ date.dow \notin {6, 7}
  \/ DayOfWeek(date.dow) \in trip.codes
  \/ trip.codes = {}

HasNote(trip, type) == \E n \in trip.notes : n.type = type
Applies(trip, type, date) == \E n \in trip.notes : n.type = type /\ date \in n.dates

RunsOn(trip, date) ==
  \/ Applies(trip, "only", date)
  \/ /\ ~HasNote(trip, "only")
     /\ ~Applies(trip, "no", date)
     /\ \/ Applies(trip, "also", date)
        \/ /\ ~(Applies(trip, "oddWeeks", date) /\ date.evenWeek)
           /\ ~(Applies(trip, "evenWeeks", date) /\ ~date.evenWeek)
           /\ HasNote(trip, "service") => Applies(trip, "service", date)
           /\ RunsByCodes(trip, date)

--------------------------------------------------------------------------------
\* Bits 0 .. 6 are Monday .. Sunday on ordinary days, bit 7 is a public holiday.
EveryClass == 0 .. 7

ClassOf(date) == IF date.holiday THEN 7 ELSE date.dow - 1

\* Faulty variant: a day of the week is taken not to be a holiday.
OrdinaryCodeMask(trip) ==
  (IF Weekdays \in trip.codes THEN 0 .. 4 ELSE {})
    \cup (IF HolidaysSundays \in trip.codes THEN {6, 7} ELSE {})
    \cup {d - 1 : d \in {e \in 1 .. 7 : DayOfWeek(e) \in trip.codes}}

CodeMask(trip) ==
  (IF Weekdays \in trip.codes THEN 0 .. 4 ELSE {})
    \cup (IF HolidaysSundays \in trip.codes THEN {6, 7} ELSE {})
    \cup UNION {{d - 1, 7} : d \in {e \in 1 .. 7 : DayOfWeek(e) \in trip.codes}}

Dated(trip) == HasNote(trip, "also") \/ HasNote(trip, "only")

TripMask(trip) == IF Dated(trip) \/ CodeMask(trip) = {} THEN EveryClass ELSE CodeMask(trip)

\* dayClassMask of a version.
DayClassMask(trips) == UNION {TripMask(t) : t \in trips}
================================================================================
