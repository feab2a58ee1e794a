----------------------------- MODULE LicenceMerge -----------------------------
(***************************************************************************)
(* JdfMerger over the versions of one licence: the batches of the national *)
(* timetable are added in order, each with its version of the licence,     *)
(* then overlapping versions are resolved date by date and the rest is     *)
(* bounded to the timetable year (merge-jdf calls the three in this order). *)
(* The version's rows live in tables keyed by the distinction the merger   *)
(* assigns; the trip stops, the largest table, live in a file on disk.     *)
(***************************************************************************)
EXTENDS LicenceOverlaps, DayClasses, FiniteSets, Functions

CONSTANTS
  Inputs,     \* the inputs considered: sequences of batches
  Days,       \* the kinds of day a date may be
  Reference,  \* --reference-date
  GvdStart,   \* bounds of the timetable year
  GvdEnd

\* mergeJdf refuses a reference date outside the timetable year.
ASSUME BoundsAssumption ==
  /\ Reference \in Int /\ GvdStart \in Int /\ GvdEnd \in Int
  /\ GvdStart <= Reference /\ Reference <= GvdEnd

(***************************************************************************)
(* A batch is a sequence of versions, normally of one.  A version is       *)
(* [no, batch, from, to, detour, trips, source]: a name of its own, the    *)
(* creation date of its batch, the validity, the detour flag, its trips    *)
(* (DayClasses), and the published validity and batch date a merged        *)
(* timetable records for it, NoSource in any other timetable.              *)
(***************************************************************************)
NoSource == [none |-> TRUE]

VARIABLES
  input,      \* the batches to merge
  added,      \* how many of them have been added
  phase,
  routes,     \* routesByLicNum of the licence: [dist, from, to, of]
  rows,       \* the tables by key: distinction -> rows, each the version it describes
  created,    \* batchDateByRoute
  published,  \* originalValidityByRoute
  spool,      \* TripStopSpool.routes: distinction -> [stored, rows]
  todo        \* versions the current pass has not handled: route -> its won ranges

vars == <<input, added, phase, routes, rows, created, published, spool, todo>>

Phases == {"add", "resolve", "bound", "done"}

Dists == {r.dist : r \in routes}

TypeOK ==
  /\ phase \in Phases
  /\ added \in 0 .. Len(input)
  /\ \A r \in routes : r.dist \in Nat /\ r.from \in Int /\ r.to \in Int
  /\ \A d \in DOMAIN spool : spool[d].stored \in Nat
  /\ DOMAIN todo \subseteq routes

Init ==
  /\ input \in Inputs
  /\ added = 0
  /\ phase = "add"
  /\ routes = {}
  /\ rows = <<>> /\ created = <<>> /\ published = <<>> /\ spool = <<>>
  /\ todo = <<>>

(***************************************************************************)
(* Adding a batch.  The new distinction is computed for every version of   *)
(* the batch before any of them is listed.                                 *)
(***************************************************************************)
NewDistinction == Cardinality(routes) + 1

PublishedOf(v) ==
  IF v.source = NoSource THEN [from |-> v.from, to |-> v.to]
  ELSE [from |-> v.source.from, to |-> v.source.to]

CreatedOf(v) == IF v.source = NoSource THEN v.batch ELSE v.source.created

Put(f, d, e) == [k \in DOMAIN f \cup {d} |-> IF k = d THEN e ELSE f[k]]

\* A row of the trip-stop file carries the distinction it was written with.
SpoolRows(d, versions) == {[dist |-> d, of |-> v] : v \in versions}

Add ==
  /\ phase = "add"
  /\ added < Len(input)
  /\ LET batch == input[added + 1]
         versions == ToSet(batch)
         last == batch[Len(batch)]
         d == NewDistinction
         old == IF d \in DOMAIN spool THEN spool[d] ELSE [stored |-> d, rows |-> {}]
     IN /\ routes' = routes \cup
                       {[dist |-> d, from |-> v.from, to |-> v.to, of |-> v] : v \in versions}
        /\ rows' = Put(rows, d, versions)
        /\ created' = Put(created, d, CreatedOf(last))
        /\ published' = Put(published, d, PublishedOf(last))
        /\ spool' = Put(spool, d, [old EXCEPT !.rows = @ \cup SpoolRows(d, versions)])
  /\ added' = added + 1
  /\ UNCHANGED <<input, phase, todo>>

(***************************************************************************)
(* Resolving overlaps.  The winners of all dates are decided first, then   *)
(* the versions are deleted, cut and copied one after another.             *)
(***************************************************************************)
\* dayClassMask of the trips under a distinction.
DistinctionMask(d) == UNION {DayClassMask(v.trips) : v \in rows[d]}

Described(r) ==
  [dist |-> r.dist, from |-> r.from, to |-> r.to, detour |-> r.of.detour,
   pubFrom |-> published[r.dist].from, pubTo |-> published[r.dist].to,
   created |-> created[r.dist], days |-> DistinctionMask(r.dist), route |-> r]

VersionsByDistinction ==
  CHOOSE versions \in SetToSeqs({Described(r) : r \in routes}) :
    \A i, j \in DOMAIN versions : i < j => versions[i].dist <= versions[j].dist

Decide ==
  /\ phase = "add"
  /\ added = Len(input)
  /\ phase' = "resolve"
  /\ todo' = IF Cardinality(routes) <= 1 THEN <<>>
             ELSE LET units == Units(VersionsByDistinction)
                      UnitOf(r) == CHOOSE u \in DOMAIN units :
                                     \E i \in DOMAIN units[u] : units[u][i].route = r
                  IN [r \in routes |-> [unit |-> UnitOf(r), ranges |-> WonRanges(units, UnitOf(r))]]
  /\ UNCHANGED <<input, added, routes, rows, created, published, spool>>

Without(f, d) == Restrict(f, DOMAIN f \ {d})

\* deleteRoute: the version and everything kept under its key.
DeleteRoute(r) ==
  /\ routes' = {q \in routes : q.dist # r.dist}
  /\ rows' = Without(rows, r.dist)
  /\ created' = Without(created, r.dist)
  /\ published' = Without(published, r.dist)
  /\ spool' = Without(spool, r.dist)

\* The keys of the copies under number, all with the value of the original.
Copied(f, d, number) ==
  [k \in DOMAIN f \cup Range(number) |-> IF k \in Range(number) THEN f[d] ELSE f[k]]

\* Faulty variant: the copy's entry claims the copy's distinction for the stored rows.
SpoolCopiedRestored(d, number) ==
  [k \in DOMAIN spool \cup Range(number) |->
     IF k \in Range(number) THEN [spool[d] EXCEPT !.stored = k] ELSE spool[k]]

\* TripStopSpool.Copy: the copy shares the original's entry.
SpoolCopied(d, number) == Copied(spool, d, number)

\* The later ranges in order, numbered on from the highest distinction.
Numberings(ranges, top) ==
  {number \in Injection(ranges, top + 1 .. top + Cardinality(ranges)) :
     \A g, h \in ranges : g.from < h.from => number[g] < number[h]}

Cut(r, g, d) == [dist |-> d, from |-> g.from, to |-> g.to, of |-> r.of]

\* The version is cut to its first range; copyRoute gives every later one a
\* distinction and rows of its own.
CutAndCopy(r, ranges) ==
  \E first \in ranges, top \in Dists :
    /\ \A g \in ranges : first.from <= g.from
    /\ \A d \in Dists : d <= top
    /\ \E number \in Numberings(ranges \ {first}, top) :
         /\ routes' = (routes \ {r}) \cup {Cut(r, first, r.dist)}
                        \cup {Cut(r, g, number[g]) : g \in ranges \ {first}}
         /\ rows' = Copied(rows, r.dist, number)
         /\ created' = Copied(created, r.dist, number)
         /\ published' = Copied(published, r.dist, number)
         /\ spool' = SpoolCopied(r.dist, number)

\* Versions are handled unit by unit, the members of a unit in order.
IsNext(r) ==
  \A q \in DOMAIN todo : \/ todo[r].unit < todo[q].unit
                         \/ todo[r].unit = todo[q].unit /\ r.dist <= q.dist

ResolveVersion(r) ==
  /\ phase = "resolve"
  /\ r \in DOMAIN todo
  /\ IsNext(r)
  /\ IF todo[r].ranges = {} THEN DeleteRoute(r) ELSE CutAndCopy(r, todo[r].ranges)
  /\ todo' = Without(todo, r)
  /\ UNCHANGED <<input, added, phase>>

(***************************************************************************)
(* Bounding the versions to the timetable year: a snapshot of the list is  *)
(* walked; what a version becomes does not depend on the others.           *)
(***************************************************************************)
StartBounding ==
  /\ phase = "resolve"
  /\ todo = <<>>
  /\ phase' = "bound"
  /\ todo' = [r \in routes |-> {}]
  /\ UNCHANGED <<input, added, routes, rows, created, published, spool>>

\* Faulty variant: a version ending on the reference date is dropped.
ExpiredOnReference(r, reference) == r.to <= reference \/ r.to < GvdStart

Expired(r, reference) == r.to < reference \/ r.to < GvdStart
NextGvd(r) == r.from > GvdEnd

Clamped(r) == [r EXCEPT !.from = IF @ < GvdStart THEN GvdStart ELSE @,
                        !.to = IF @ > GvdEnd THEN GvdEnd ELSE @]

BoundVersion(r) ==
  /\ phase = "bound"
  /\ r \in DOMAIN todo
  /\ \/ /\ Expired(r, Reference) \/ NextGvd(r)
        /\ DeleteRoute(r)
     \/ /\ ~Expired(r, Reference) /\ ~NextGvd(r)
        /\ routes' = (routes \ {r}) \cup {Clamped(r)}
        /\ UNCHANGED <<rows, created, published, spool>>
  /\ todo' = Without(todo, r)
  /\ UNCHANGED <<input, added, phase>>

Write ==
  /\ phase = "bound"
  /\ todo = <<>>
  /\ phase' = "done"
  /\ UNCHANGED <<input, added, routes, rows, created, published, spool, todo>>

Done == phase = "done" /\ UNCHANGED vars

Next ==
  \/ Add \/ Decide \/ StartBounding \/ Write \/ Done
  \/ \E r \in DOMAIN todo : ResolveVersion(r) \/ BoundVersion(r)

Spec == Init /\ [][Next]_vars
--------------------------------------------------------------------------------
(***************************************************************************)
(* Properties.                                                             *)
(***************************************************************************)
\* What the timetables of the registry are like: one version of a licence a batch.
OneVersionPerBatch ==
  \A batches \in Inputs :
    Len(batches) \in Nat /\ \A i \in 1 .. Len(batches) : \E v : batches[i] = <<v>>

\* The batches of the registry: none is the output of a merge, every date is known,
\* and every version has a name of its own.
IsRegistry(batches) ==
  /\ Len(batches) \in Nat /\ DOMAIN batches = 1 .. Len(batches)
  /\ \A i \in DOMAIN batches :
       LET v == batches[i][1]
       IN /\ batches[i] = <<v>> /\ v.source = NoSource
          /\ v.from \in Int /\ v.to \in Int /\ v.batch \in Int
  /\ \A i, j \in DOMAIN batches : batches[i][1] = batches[j][1] => i = j

RegistryInput == \A batches \in Inputs : IsRegistry(batches)

AllVersions == UNION {ToSet(input[i]) : i \in DOMAIN input}

\* Every version kept has a distinction of its own, and the tables, the spool, the
\* batch date and the published validity under it are those of its source: after
\* every deletion and copy of the resolution, nothing is orphaned or mixed up.
KeysAgree ==
  /\ \A r, q \in routes : r.dist = q.dist => r = q
  /\ \A keys \in {DOMAIN rows, DOMAIN created, DOMAIN published, DOMAIN spool} : keys = Dists
  /\ \A r \in routes : /\ rows[r.dist] = {r.of}
                        /\ created[r.dist] = CreatedOf(r.of)
                        /\ published[r.dist] = PublishedOf(r.of)

\* What WriteTo writes for a key: rows stored under another distinction have it
\* rewritten, a row that does not carry the stored one is left as it is.
WrittenRows(d) ==
  {[dist |-> IF x.dist = spool[d].stored THEN d ELSE x.dist, of |-> x.of] : x \in spool[d].rows}

\* The trip-stop file written from the spool is the table that would have been
\* kept in memory, under the same keys.
SpoolIsTheTable ==
  /\ DOMAIN spool = DOMAIN rows
  /\ \A d \in DOMAIN rows : WrittenRows(d) = SpoolRows(d, rows[d])

\* What the merge keeps for a version is its own, in memory and after a spill alike.
TableKept == KeysAgree /\ SpoolIsTheTable

Resolved == phase \in {"bound", "done"}
CurrentDates == Reference .. GvdEnd

\* A current date on which some version was published still has a version after
\* overlaps are resolved, and keeps it when the year's bounds are applied.
NoDateLost ==
  Resolved => \A date \in CurrentDates :
                (\E v \in AllVersions : ValidOn(v, date)) => \E r \in routes : ValidOn(r, date)

\* Two versions are kept on one date only side by side, on disjoint day classes,
\* and a version is never kept on a date it was not published for.
OneVersionPerDate ==
  Resolved => \A r \in routes : \A date \in r.from .. r.to :
    /\ ValidOn(r.of, date)
    /\ \A q \in routes \ {r} : ValidOn(q, date) => /\ r.of # q.of
                                                     /\ r.of.detour = q.of.detour
                                                     /\ PublishedOf(r.of) = PublishedOf(q.of)
                                                     /\ DayClassMask(r.of.trips) \cap DayClassMask(q.of.trips) = {}

\* The doc comment of dayClassMask: "two masks are disjoint only when the versions
\* never run on the same date".  Of the versions kept on one date, no two run a trip
\* on it, whatever kind of day it is: the merger's day classes, the calendar made of
\* each trip afterwards and the resolution of the overlaps agree.
TripsNeverMeet ==
  Resolved => \A r \in routes : \A q \in routes \ {r} :
    (\E date \in r.from .. r.to : ValidOn(q, date)) =>
      \A day \in Days, t \in r.of.trips, u \in q.of.trips : ~ (RunsOn(t, day) /\ RunsOn(u, day))

\* The version of the i-th batch as it stood when the overlaps were resolved.
AsAdded(i) ==
  LET v == input[i][1]
  IN [dist |-> i, from |-> v.from, to |-> v.to, detour |-> v.detour, created |-> CreatedOf(v),
      pubFrom |-> PublishedOf(v).from, pubTo |-> PublishedOf(v).to]

\* A version that has priority on a current date over every other version valid on
\* it is the one kept on that date.
PriorityWins ==
  Resolved => \A date \in CurrentDates, i \in DOMAIN input :
    LET Rivals == {j \in DOMAIN input \ {i} : ValidOn(input[j][1], date)}
    IN ValidOn(input[i][1], date) /\ (\A j \in Rivals : Beats(AsAdded(i), AsAdded(j)))
         => \E r \in routes : r.of = input[i][1] /\ ValidOn(r, date)

\* The comment on Route.idDistinction: it "forms a 2-field primary key with id".
DistinctionsAreKeys == \A r, q \in routes : r.dist = q.dist => r = q
================================================================================
