---------------------------- MODULE TripVersionKeys ----------------------------
(***************************************************************************)
(* The trip ids of a merged licence: JdfGtfsRules.buildTripVersionKeys     *)
(* names every kept version by its published schedule, from the route      *)
(* version records the merger writes.  A key is the published start and    *)
(* the detour flag, a hash where several schedules share them (modelled as *)
(* what is hashed), and the number of the date chunk.                      *)
(***************************************************************************)
EXTENDS LicenceMerge

SourceOf(r) ==
  [from |-> published[r.dist].from, to |-> published[r.dist].to, created |-> created[r.dist]]

\* Faulty variant: the versions of a licence are not told apart by their start.
StartingAnywhere(r, kept) == {q \in kept : q.of.detour = r.of.detour}

\* The versions of kept that share the base key of r.
Starting(r, kept) ==
  {q \in kept : SourceOf(q).from = SourceOf(r).from /\ q.of.detour = r.of.detour}

EndsBefore(s, t) == s.to < t.to \/ (s.to = t.to /\ s.created < t.created)

SourceIndex(r, kept) ==
  Cardinality({s \in {SourceOf(q) : q \in Starting(r, kept)} : EndsBefore(s, SourceOf(r))})

ChunkBefore(q, r) == q.from < r.from \/ (q.from = r.from /\ q.dist < r.dist)

Part(r, kept) ==
  Cardinality({q \in Starting(r, kept) : SourceOf(q) = SourceOf(r) /\ ChunkBefore(q, r)})

NoHash == [none |-> TRUE]

TripVersionKey(r, kept) ==
  [from |-> SourceOf(r).from, detour |-> r.of.detour, part |-> Part(r, kept),
   hash |-> IF SourceIndex(r, kept) = 0 THEN NoHash ELSE SourceOf(r)]

\* What boundValidity keeps of the resolved versions on a reference date.
KeptOn(reference) == {r \in routes : ~Expired(r, reference) /\ ~NextGvd(r)}

\* Consumers compare trip ids across runs (README.md: they "stay the same between runs").
\* Two runs over the same batches, on two reference dates of the year, name a version
\* that is current on both by the same key, unless by the later run another version of
\* its published start has expired that came before it: another schedule, whose plain
\* key it then takes over, or an earlier chunk of its own, whose number it takes.
TripIdsChangeByExpiry ==
  phase = "bound" /\ DOMAIN todo = routes =>
    \A reference \in CurrentDates : \A r \in KeptOn(Reference) \cap KeptOn(reference) :
      \/ TripVersionKey(r, KeptOn(Reference)) = TripVersionKey(r, KeptOn(reference))
      \/ \E q \in KeptOn(Reference) \ KeptOn(reference) :
           /\ q.of.detour = r.of.detour /\ SourceOf(q).from = SourceOf(r).from
           /\ EndsBefore(SourceOf(q), SourceOf(r)) \/ (SourceOf(q) = SourceOf(r) /\ ChunkBefore(q, r))
================================================================================
