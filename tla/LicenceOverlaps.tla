---------------------------- MODULE LicenceOverlaps ----------------------------
(***************************************************************************)
(* How JdfMerger.resolveLicenceOverlaps decides which version of one       *)
(* licence (a bus line) runs on which dates.  The versions compared here   *)
(* are records                                                             *)
(*   [dist, from, to, detour, pubFrom, pubTo, created, days]               *)
(* with the distinction, the validity range, the detour flag, the validity *)
(* as published, the date of the batch (0: None) and the day classes the   *)
(* trips can run on.  Dates are integers.                                  *)
(***************************************************************************)
EXTENDS Integers, Sequences, SequencesExt

\* A detour published with the same end as a variant that starts later has no
\* priority over it.
DetourPriority(v, w) == v.detour /\ ~(v.pubTo = w.pubTo /\ v.pubFrom < w.pubFrom)

HasPriority(v, w) ==
  \/ DetourPriority(v, w) /\ (~DetourPriority(w, v) \/ w.created < v.created)
  \/ ~DetourPriority(w, v) /\ w.created < v.created

Beats(v, w) ==
  \/ HasPriority(v, w)
  \/ /\ ~HasPriority(w, v)
     /\ \/ v.from > w.from
        \/ v.from = w.from /\ v.to < w.to
        \/ v.from = w.from /\ v.to = w.to /\ v.dist < w.dist

\* The condition under which a version joins a unit of side-by-side versions.
SideBySide(v, w) ==
  /\ v.from = w.from
  /\ v.to = w.to
  /\ v.detour = w.detour
  /\ v.created = w.created

\* Faulty variant: the day classes of the first member stand for the unit.
UnitDaysOfHead(unit) == unit[1].days

UnitDays(unit) == UNION {unit[i].days : i \in DOMAIN unit}

\* A unit is a sequence of versions; each version joins the first unit it fits.
JoinUnits(units, v) ==
  LET partners == {i \in DOMAIN units : /\ SideBySide(units[i][1], v)
                                        /\ UnitDays(units[i]) \cap v.days = {}}
  IN IF partners = {} THEN Append(units, <<v>>)
     ELSE [units EXCEPT ![CHOOSE i \in partners : \A j \in partners : i <= j] = Append(@, v)]

Units(versions) == FoldLeft(JoinUnits, <<>>, versions)

ValidOn(v, date) == v.from <= date /\ date <= v.to

\* Faulty variant: only priority replaces the best so far.
WinnerByPriority(units, date) ==
  FoldLeftDomain(LAMBDA best, u :
                   IF /\ ValidOn(units[u][1], date)
                      /\ best = 0 \/ HasPriority(units[u][1], units[best][1])
                   THEN u ELSE best,
                 0, units)

\* The unit that wins a date, 0 if none is valid on it: the first unit, unless
\* the head of a later one beats the best so far.
Winner(units, date) ==
  FoldLeftDomain(LAMBDA best, u :
                   IF /\ ValidOn(units[u][1], date)
                      /\ best = 0 \/ Beats(units[u][1], units[best][1])
                   THEN u ELSE best,
                 0, units)

\* The dates on which a version starts, or no longer runs.
Boundaries(units) ==
  {units[u][1].from : u \in DOMAIN units} \cup {units[u][1].to + 1 : u \in DOMAIN units}

\* The ranges unit u wins: runs of neighbouring segments, as long as possible,
\* whose first dates it wins.
WonRanges(units, u) ==
  LET bounds == Boundaries(units)
      won == {b \in bounds : Winner(units, b) = u}
      Preceding(b) == {c \in bounds : c < b /\ \A d \in bounds : d < b => d <= c}
      runs == {p \in won \X (bounds \ won) :
                 /\ p[1] < p[2]
                 /\ \A c \in bounds : p[1] < c /\ c < p[2] => c \in won
                 /\ Preceding(p[1]) \cap won = {}}
  IN {[from |-> p[1], to |-> p[2] - 1] : p \in runs}
================================================================================
