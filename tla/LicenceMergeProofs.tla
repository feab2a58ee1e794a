-------------------------- MODULE LicenceMergeProofs --------------------------
(***************************************************************************)
(* For every sequence of batches that hold one version of a licence each:  *)
(* the tables and the spool of LicenceMerge follow its versions.  For the  *)
(* batches of the registry: every current date with a version published    *)
(* on it keeps one, the one with priority over the others, and two only    *)
(* side by side.  The day classes by which versions are kept side by side  *)
(* are safe: a trip runs only on days of a class its mask holds            *)
(* (DayClasses).  Trip keys change between runs only by expiry.            *)
(***************************************************************************)
EXTENDS TripVersionKeys, FiniteSetTheorems, SequenceTheorems, WellFoundedInduction, TLAPS

\* Every version in the list is a record.
RoutesAreRecords ==
  \A r \in routes : /\ r = [dist |-> r.dist, from |-> r.from, to |-> r.to, of |-> r.of]
                    /\ r.dist \in Nat

\* The stored rows of a key are those of its table, and carry the distinction
\* under which they were stored.
StoredAt(k) ==
  /\ {x.of : x \in spool[k].rows} = rows[k]
  /\ \A x \in spool[k].rows : x = [dist |-> spool[k].stored, of |-> x.of]

SpoolHoldsTheRows == \A k \in Dists : StoredAt(k)

\* While batches are added, the count bounds the distinctions given out.
CountIsFresh ==
  phase = "add" => /\ IsFiniteSet(routes)
                   /\ \A r \in routes : r.dist <= Cardinality(routes)
                   /\ todo = <<>>

InputIsKnown ==
  added \in Nat /\ Len(input) \in Nat /\ \A i \in 1 .. Len(input) : \E v : input[i] = <<v>>

IInv ==
  /\ InputIsKnown
  /\ RoutesAreRecords
  /\ KeysAgree
  /\ SpoolHoldsTheRows
  /\ CountIsFresh
  /\ DOMAIN todo \subseteq routes

--------------------------------------------------------------------------------
\* KeysAgree, one map at a time.
LEMMA KeysAreDists ==
  ASSUME KeysAgree
  PROVE  DOMAIN rows = Dists /\ DOMAIN created = Dists /\ DOMAIN published = Dists /\ DOMAIN spool = Dists
  BY DEF KeysAgree

--------------------------------------------------------------------------------
LEMMA InitKeeps == OneVersionPerBatch /\ Init => IInv
<1> SUFFICES ASSUME OneVersionPerBatch, Init PROVE IInv
  OBVIOUS
<1>1. InputIsKnown
  BY DEF OneVersionPerBatch, Init, InputIsKnown
<1>2. RoutesAreRecords /\ KeysAgree /\ SpoolHoldsTheRows
  BY DEF Init, RoutesAreRecords, KeysAgree, SpoolHoldsTheRows, Dists
<1>3. CountIsFresh /\ DOMAIN todo \subseteq routes
  BY FS_EmptySet DEF Init, CountIsFresh
<1> QED BY <1>1, <1>2, <1>3 DEF IInv

\* One version is listed under a distinction no version has.
LEMMA PutKeeps ==
  ASSUME NEW v, NEW d \in Nat, NEW new,
         new = [dist |-> d, from |-> v.from, to |-> v.to, of |-> v],
         RoutesAreRecords, KeysAgree, SpoolHoldsTheRows, d \notin Dists,
         routes' = routes \cup {new},
         rows' = Put(rows, d, {v}),
         created' = Put(created, d, CreatedOf(v)),
         published' = Put(published, d, PublishedOf(v)),
         spool' = Put(spool, d, [stored |-> d, rows |-> SpoolRows(d, {v})])
  PROVE  RoutesAreRecords' /\ KeysAgree' /\ SpoolHoldsTheRows'
<1>1. DOMAIN rows = Dists /\ DOMAIN created = Dists /\ DOMAIN published = Dists /\ DOMAIN spool = Dists
  BY KeysAreDists
<1>2. new.dist = d /\ new.of = v /\ \A r \in routes : r.dist # d
  BY DEF Dists
<1>3. Dists' = Dists \cup {d}
  BY <1>2 DEF Dists
<1>4. DOMAIN rows' = Dists' /\ rows'[d] = {v} /\ \A k \in Dists : rows'[k] = rows[k]
  BY <1>1, <1>3 DEF Put
<1>5. DOMAIN created' = Dists' /\ created'[d] = CreatedOf(v) /\ \A k \in Dists : created'[k] = created[k]
  BY <1>1, <1>3 DEF Put
<1>6. /\ DOMAIN published' = Dists' /\ published'[d] = PublishedOf(v)
      /\ \A k \in Dists : published'[k] = published[k]
  BY <1>1, <1>3 DEF Put
<1>7. /\ DOMAIN spool' = Dists'
      /\ spool'[d].stored = d /\ spool'[d].rows = {[dist |-> d, of |-> v]}
      /\ \A k \in Dists : spool'[k] = spool[k]
  BY <1>1, <1>3 DEF Put, SpoolRows
<1>8. KeysAgree'
  <2>1. \A r, q \in routes' : r.dist = q.dist => r = q
    BY <1>2 DEF KeysAgree
  <2>2. ASSUME NEW r \in routes
        PROVE  /\ rows'[r.dist] = {r.of}
               /\ created'[r.dist] = CreatedOf(r.of)
               /\ published'[r.dist] = PublishedOf(r.of)
    BY <1>4, <1>5, <1>6 DEF Dists, KeysAgree
  <2>3. rows'[new.dist] = {new.of} /\ created'[new.dist] = CreatedOf(new.of)
          /\ published'[new.dist] = PublishedOf(new.of)
    BY <1>2, <1>4, <1>5, <1>6
  <2> QED BY <1>4, <1>5, <1>6, <1>7, <2>1, <2>2, <2>3 DEF KeysAgree
<1>9. SpoolHoldsTheRows'
  <2>1. ASSUME NEW k \in Dists PROVE StoredAt(k)'
    BY <1>4, <1>7 DEF SpoolHoldsTheRows, StoredAt
  <2>2. StoredAt(d)'
    <3>1. PICK row : row = [dist |-> d, of |-> v]
      OBVIOUS
    <3>2. row.of = v /\ spool'[d].rows = {row} /\ row = [dist |-> spool'[d].stored, of |-> row.of]
      BY <1>7, <3>1
    <3>3. {x.of : x \in {row}} = {row.of}
      OBVIOUS
    <3> QED BY <1>4, <3>2, <3>3 DEF StoredAt
  <2> QED BY <1>3, <2>1, <2>2 DEF SpoolHoldsTheRows
<1>10. RoutesAreRecords'
  BY DEF RoutesAreRecords
<1> QED BY <1>8, <1>9, <1>10

\* A batch brings one version; the count is a distinction not yet given out.
LEMMA AddKeeps == IInv /\ Add => IInv'
<1> SUFFICES ASSUME IInv, Add PROVE IInv'
  OBVIOUS
<1>1. PICK v : input[added + 1] = <<v>>
  BY DEF Add, IInv, InputIsKnown
<1>2. ToSet(<<v>>) = {v} /\ Len(<<v>>) = 1 /\ <<v>>[1] = v
  BY DEF ToSet
<1>3. /\ IsFiniteSet(routes) /\ todo = <<>> /\ phase = "add"
      /\ \A r \in routes : r.dist <= Cardinality(routes)
  BY DEF Add, IInv, CountIsFresh
<1>4. Cardinality(routes) \in Nat
  BY <1>3, FS_CardinalityType
<1>5. PICK d \in Nat : d = Cardinality(routes) + 1
  BY <1>4
<1>6. d \notin Dists /\ d \notin DOMAIN spool
  BY <1>3, <1>4, <1>5 DEF Dists, IInv, RoutesAreRecords, KeysAgree
<1>7. PICK new : new = [dist |-> d, from |-> v.from, to |-> v.to, of |-> v]
  OBVIOUS
<1>8. /\ routes' = routes \cup {new}
      /\ rows' = Put(rows, d, {v})
      /\ created' = Put(created, d, CreatedOf(v))
      /\ published' = Put(published, d, PublishedOf(v))
      /\ spool' = Put(spool, d, [stored |-> d, rows |-> SpoolRows(d, {v})])
  <2>1. \A S : [[stored |-> d, rows |-> {}] EXCEPT !.rows = @ \cup S] = [stored |-> d, rows |-> S]
    OBVIOUS
  <2>2. NewDistinction = d
    BY <1>5 DEF NewDistinction
  <2>3. routes' = routes \cup {new}
    BY <1>1, <1>2, <1>7, <2>2 DEF Add
  <2>4. rows' = Put(rows, d, {v}) /\ created' = Put(created, d, CreatedOf(v))
    BY <1>1, <1>2, <2>2 DEF Add
  <2>5. published' = Put(published, d, PublishedOf(v))
    BY <1>1, <1>2, <2>2 DEF Add
  <2>6. spool' = Put(spool, d, [[stored |-> d, rows |-> {}] EXCEPT !.rows = @ \cup SpoolRows(d, {v})])
    BY <1>1, <1>2, <1>6, <2>2 DEF Add
  <2> QED BY <2>1, <2>3, <2>4, <2>5, <2>6
<1>9. RoutesAreRecords' /\ KeysAgree' /\ SpoolHoldsTheRows'
  BY <1>6, <1>7, <1>8, PutKeeps DEF IInv
<1>10. UNCHANGED <<input, phase, todo>> /\ added' = added + 1
  BY DEF Add
<1>11. CountIsFresh'
  <2>1. new \notin routes
    BY <1>6, <1>7 DEF Dists
  <2>2. IsFiniteSet(routes') /\ Cardinality(routes') = Cardinality(routes) + 1
    BY <1>3, <1>8, <2>1, FS_AddElement
  <2>3. \A r \in routes' : r.dist <= Cardinality(routes')
    BY <1>3, <1>4, <1>5, <1>7, <1>8, <2>2 DEF IInv, RoutesAreRecords
  <2> QED BY <1>3, <1>10, <2>2, <2>3 DEF CountIsFresh
<1>12. InputIsKnown' /\ DOMAIN todo' \subseteq routes'
  BY <1>3, <1>8, <1>10 DEF IInv, InputIsKnown
<1> QED BY <1>9, <1>11, <1>12 DEF IInv

\* Deleting a version takes its key, and no other, from every map.
LEMMA DeleteKeeps ==
  ASSUME NEW r \in routes, RoutesAreRecords, KeysAgree, SpoolHoldsTheRows, DeleteRoute(r)
  PROVE  /\ RoutesAreRecords' /\ KeysAgree' /\ SpoolHoldsTheRows'
         /\ routes' = routes \ {r}
<1>1. DOMAIN rows = Dists /\ DOMAIN created = Dists /\ DOMAIN published = Dists /\ DOMAIN spool = Dists
  BY KeysAreDists
<1>2. routes' = {q \in routes : q.dist # r.dist}
  BY DEF DeleteRoute
<1>3. routes' = routes \ {r}
  BY <1>2 DEF KeysAgree
<1>4. Dists' = Dists \ {r.dist}
  BY <1>2 DEF Dists
<1>5. DOMAIN rows' = Dists' /\ \A k \in Dists' : rows'[k] = rows[k]
  BY <1>1, <1>4 DEF DeleteRoute, Without, Restrict
<1>6. DOMAIN created' = Dists' /\ \A k \in Dists' : created'[k] = created[k]
  BY <1>1, <1>4 DEF DeleteRoute, Without, Restrict
<1>7. DOMAIN published' = Dists' /\ \A k \in Dists' : published'[k] = published[k]
  BY <1>1, <1>4 DEF DeleteRoute, Without, Restrict
<1>8. DOMAIN spool' = Dists' /\ \A k \in Dists' : spool'[k] = spool[k]
  BY <1>1, <1>4 DEF DeleteRoute, Without, Restrict
<1>9. KeysAgree'
  <2>1. ASSUME NEW q \in routes'
        PROVE  /\ rows'[q.dist] = {q.of}
               /\ created'[q.dist] = CreatedOf(q.of)
               /\ published'[q.dist] = PublishedOf(q.of)
    <3>1. q \in routes /\ q.dist \in Dists'
      BY <1>2 DEF Dists
    <3> QED BY <3>1, <1>5, <1>6, <1>7 DEF KeysAgree
  <2>2. \A p, q \in routes' : p.dist = q.dist => p = q
    BY <1>3 DEF KeysAgree
  <2> QED BY <1>5, <1>6, <1>7, <1>8, <2>1, <2>2 DEF KeysAgree
<1>10. SpoolHoldsTheRows'
  BY <1>4, <1>5, <1>8 DEF SpoolHoldsTheRows, StoredAt
<1>11. RoutesAreRecords'
  BY <1>3 DEF RoutesAreRecords
<1> QED BY <1>3, <1>9, <1>10, <1>11

\* Cutting a version and copying it leaves every key with the rows of its source.
LEMMA CutKeeps ==
  ASSUME NEW r \in routes, NEW ranges, RoutesAreRecords, KeysAgree, SpoolHoldsTheRows,
         CutAndCopy(r, ranges)
  PROVE  /\ RoutesAreRecords' /\ KeysAgree' /\ SpoolHoldsTheRows'
         /\ routes \ {r} \subseteq routes'
<1>1. PICK first \in ranges, top \in Dists :
        /\ \A d \in Dists : d <= top
        /\ \E number \in Numberings(ranges \ {first}, top) :
             /\ routes' = (routes \ {r}) \cup {Cut(r, first, r.dist)}
                            \cup {Cut(r, g, number[g]) : g \in ranges \ {first}}
             /\ rows' = Copied(rows, r.dist, number)
             /\ created' = Copied(created, r.dist, number)
             /\ published' = Copied(published, r.dist, number)
             /\ spool' = SpoolCopied(r.dist, number)
  BY DEF CutAndCopy
<1> DEFINE rest == ranges \ {first}
<1>2. PICK number \in Numberings(rest, top) :
             /\ routes' = (routes \ {r}) \cup {Cut(r, first, r.dist)}
                            \cup {Cut(r, g, number[g]) : g \in rest}
             /\ rows' = Copied(rows, r.dist, number)
             /\ created' = Copied(created, r.dist, number)
             /\ published' = Copied(published, r.dist, number)
             /\ spool' = Copied(spool, r.dist, number)
  BY <1>1 DEF SpoolCopied
<1>3. PICK S : S = Range(number)
  OBVIOUS
<1>4. /\ DOMAIN number = rest
      /\ \A g \in rest : number[g] \in top + 1 .. top + Cardinality(rest)
      /\ \A g, h \in rest : number[g] = number[h] => g = h
      /\ S = {number[g] : g \in rest}
  BY <1>3 DEF Numberings, Injection, IsInjective, Range
<1>5. \A d \in Dists : d \in Nat
  BY DEF Dists, RoutesAreRecords
<1>6. \A g \in rest : number[g] \in Nat /\ number[g] \notin Dists
  BY <1>1, <1>4, <1>5
<1>7. S \cap Dists = {}
  BY <1>4, <1>6
<1>8. DOMAIN rows = Dists /\ DOMAIN created = Dists /\ DOMAIN published = Dists /\ DOMAIN spool = Dists
  BY KeysAreDists
<1>9. r.dist \in Dists
  BY DEF Dists
<1>10. \A d, g : /\ Cut(r, g, d).dist = d /\ Cut(r, g, d).of = r.of
                 /\ Cut(r, g, d) = [dist |-> Cut(r, g, d).dist, from |-> Cut(r, g, d).from,
                                   to |-> Cut(r, g, d).to, of |-> Cut(r, g, d).of]
  BY DEF Cut
<1>11. Dists' = Dists \cup S
  <2>1. Dists' = {q.dist : q \in routes \ {r}} \cup {Cut(r, first, r.dist).dist}
                   \cup {Cut(r, g, number[g]).dist : g \in rest}
    BY <1>2 DEF Dists
  <2>2. {Cut(r, g, number[g]).dist : g \in rest} = S
    BY <1>4, <1>10
  <2>3. {q.dist : q \in routes \ {r}} \cup {r.dist} = Dists
    BY DEF Dists
  <2> QED BY <1>10, <2>1, <2>2, <2>3
<1>12. DOMAIN rows' = Dists' /\ (\A k \in Dists : rows'[k] = rows[k]) /\ \A k \in S : rows'[k] = rows[r.dist]
  BY <1>2, <1>3, <1>7, <1>8, <1>9, <1>11 DEF Copied
<1>13. /\ DOMAIN created' = Dists'
       /\ \A k \in Dists : created'[k] = created[k]
       /\ \A k \in S : created'[k] = created[r.dist]
  BY <1>2, <1>3, <1>7, <1>8, <1>9, <1>11 DEF Copied
<1>14. /\ DOMAIN published' = Dists'
       /\ \A k \in Dists : published'[k] = published[k]
       /\ \A k \in S : published'[k] = published[r.dist]
  BY <1>2, <1>3, <1>7, <1>8, <1>9, <1>11 DEF Copied
<1>15. DOMAIN spool' = Dists' /\ (\A k \in Dists : spool'[k] = spool[k]) /\ \A k \in S : spool'[k] = spool[r.dist]
  BY <1>2, <1>3, <1>7, <1>8, <1>9, <1>11 DEF Copied
<1>16. ASSUME NEW q \in routes'
       PROVE  \/ q \in routes \ {r}
              \/ q = Cut(r, first, r.dist)
              \/ \E g \in rest : q = Cut(r, g, number[g])
  BY <1>2
<1>17. RoutesAreRecords'
  BY <1>6, <1>10, <1>16 DEF RoutesAreRecords
<1>18. KeysAgree'
  <2>1. ASSUME NEW q \in routes'
        PROVE  /\ rows'[q.dist] = {q.of}
               /\ created'[q.dist] = CreatedOf(q.of)
               /\ published'[q.dist] = PublishedOf(q.of)
    <3>1. CASE q \in routes \ {r}
      BY <3>1, <1>12, <1>13, <1>14 DEF Dists, KeysAgree
    <3>2. CASE q = Cut(r, first, r.dist)
      BY <3>2, <1>9, <1>10, <1>12, <1>13, <1>14 DEF KeysAgree
    <3>3. CASE \E g \in rest : q = Cut(r, g, number[g])
      BY <3>3, <1>4, <1>10, <1>12, <1>13, <1>14 DEF KeysAgree
    <3> QED BY <1>16, <3>1, <3>2, <3>3
  <2>2. ASSUME NEW p \in routes', NEW q \in routes', p.dist = q.dist
        PROVE  p = q
    <3>1. ASSUME NEW x \in routes', x.dist \in Dists
          PROVE  x \in routes \ {r} \/ x = Cut(r, first, r.dist)
      BY <3>1, <1>6, <1>10, <1>16
    <3>2. ASSUME NEW x \in routes', x.dist \notin Dists
          PROVE  \E g \in rest : x = Cut(r, g, number[g]) /\ x.dist = number[g]
      BY <3>2, <1>9, <1>10, <1>16 DEF Dists
    <3>3. CASE p.dist \in Dists
      <4>1. \A x \in routes \ {r} : x.dist # r.dist
        BY DEF KeysAgree
      <4> QED BY <2>2, <3>1, <3>3, <4>1, <1>10 DEF KeysAgree
    <3>4. CASE p.dist \notin Dists
      BY <2>2, <3>2, <3>4, <1>4
    <3> QED BY <3>3, <3>4
  <2> QED BY <1>12, <1>13, <1>14, <1>15, <2>1, <2>2 DEF KeysAgree
<1>19. SpoolHoldsTheRows'
  BY <1>9, <1>11, <1>12, <1>15 DEF SpoolHoldsTheRows, StoredAt
<1> QED BY <1>2, <1>17, <1>18, <1>19

\* Clamping changes the validity of a version, not what it is.
LEMMA ClampKeeps ==
  ASSUME NEW r \in routes, RoutesAreRecords, KeysAgree, SpoolHoldsTheRows,
         routes' = (routes \ {r}) \cup {Clamped(r)},
         UNCHANGED <<rows, created, published, spool>>
  PROVE  RoutesAreRecords' /\ KeysAgree' /\ SpoolHoldsTheRows'
<1>1. PICK c : c = Clamped(r)
  OBVIOUS
<1>2. c.dist = r.dist /\ c.of = r.of /\ c = [dist |-> c.dist, from |-> c.from, to |-> c.to, of |-> c.of]
  <2>1. PICK d, f, t, v : r = [dist |-> d, from |-> f, to |-> t, of |-> v]
    BY DEF RoutesAreRecords
  <2>2. PICK lo, hi : c = [r EXCEPT !.from = lo, !.to = hi]
    BY <1>1 DEF Clamped
  <2>3. c = [dist |-> d, from |-> lo, to |-> hi, of |-> v]
    BY <2>1, <2>2
  <2> QED BY <2>1, <2>3
<1>3. Dists' = Dists
  BY <1>1, <1>2 DEF Dists
<1>4. RoutesAreRecords'
  BY <1>1, <1>2 DEF RoutesAreRecords
<1>5. KeysAgree'
  <2>1. \A p, q \in routes' : p.dist = q.dist => p = q
    BY <1>1, <1>2 DEF KeysAgree
  <2>2. \A q \in routes' : /\ rows'[q.dist] = {q.of}
                          /\ created'[q.dist] = CreatedOf(q.of)
                          /\ published'[q.dist] = PublishedOf(q.of)
    BY <1>1, <1>2 DEF KeysAgree
  <2> QED BY <1>3, <2>1, <2>2 DEF KeysAgree
<1>6. SpoolHoldsTheRows'
  BY <1>3 DEF SpoolHoldsTheRows, StoredAt
<1> QED BY <1>4, <1>5, <1>6

\* After batches are added, the parts of the invariant about them are settled.
LEMMA LaterPhases ==
  ASSUME IInv, UNCHANGED <<input, added>>, phase' # "add",
         RoutesAreRecords' /\ KeysAgree' /\ SpoolHoldsTheRows', DOMAIN todo' \subseteq routes'
  PROVE  IInv'
  BY DEF IInv, InputIsKnown, CountIsFresh

LEMMA ResolveKeeps ==
  ASSUME IInv, NEW r \in DOMAIN todo, ResolveVersion(r)
  PROVE  IInv'
<1>1. r \in routes /\ RoutesAreRecords /\ KeysAgree /\ SpoolHoldsTheRows
  BY DEF IInv
<1>2. UNCHANGED <<input, added>> /\ phase' # "add" /\ DOMAIN todo' = DOMAIN todo \ {r}
  BY DEF ResolveVersion, Without, Restrict
<1>3. RoutesAreRecords' /\ KeysAgree' /\ SpoolHoldsTheRows' /\ routes \ {r} \subseteq routes'
  <2>1. CASE DeleteRoute(r)
    BY <1>1, <2>1, DeleteKeeps
  <2>2. CASE CutAndCopy(r, todo[r].ranges)
    BY <1>1, <2>2, CutKeeps
  <2> QED BY <2>1, <2>2 DEF ResolveVersion
<1> QED BY <1>2, <1>3, LaterPhases DEF IInv

LEMMA BoundKeeps ==
  ASSUME IInv, NEW r \in DOMAIN todo, BoundVersion(r)
  PROVE  IInv'
<1>1. r \in routes /\ RoutesAreRecords /\ KeysAgree /\ SpoolHoldsTheRows
  BY DEF IInv
<1>2. UNCHANGED <<input, added>> /\ phase' # "add" /\ DOMAIN todo' = DOMAIN todo \ {r}
  BY DEF BoundVersion, Without, Restrict
<1>3. RoutesAreRecords' /\ KeysAgree' /\ SpoolHoldsTheRows' /\ routes \ {r} \subseteq routes'
  <2>1. CASE DeleteRoute(r)
    BY <1>1, <2>1, DeleteKeeps
  <2>2. CASE routes' = (routes \ {r}) \cup {Clamped(r)} /\ UNCHANGED <<rows, created, published, spool>>
    BY <1>1, <2>2, ClampKeeps
  <2> QED BY <2>1, <2>2 DEF BoundVersion
<1> QED BY <1>2, <1>3, LaterPhases DEF IInv

LEMMA NextKeeps == IInv /\ [Next]_vars => IInv'
<1> SUFFICES ASSUME IInv, [Next]_vars PROVE IInv'
  OBVIOUS
<1>1. CASE Add
  BY <1>1, AddKeeps
<1>2. CASE Decide \/ StartBounding \/ Write
  <2>1. UNCHANGED <<input, added, routes, rows, created, published, spool>> /\ phase' # "add"
    BY <1>2 DEF Decide, StartBounding, Write
  <2>2. RoutesAreRecords' /\ KeysAgree' /\ SpoolHoldsTheRows'
    BY <2>1 DEF IInv, RoutesAreRecords, KeysAgree, SpoolHoldsTheRows, StoredAt, Dists
  <2>3. DOMAIN todo' \subseteq routes'
    <3>1. CASE Decide
      <4>1. todo' = <<>> \/ DOMAIN todo' = routes
        BY <3>1 DEF Decide
      <4> QED BY <2>1, <4>1
    <3>2. CASE StartBounding
      BY <2>1, <3>2 DEF StartBounding
    <3>3. CASE Write
      BY <2>1, <3>3 DEF Write, IInv
    <3> QED BY <1>2, <3>1, <3>2, <3>3
  <2> QED BY <2>1, <2>2, <2>3, LaterPhases
<1>3. ASSUME NEW r \in DOMAIN todo, ResolveVersion(r) PROVE IInv'
  BY <1>3, ResolveKeeps
<1>4. ASSUME NEW r \in DOMAIN todo, BoundVersion(r) PROVE IInv'
  BY <1>4, BoundKeeps
<1>5. CASE UNCHANGED vars
  BY <1>5 DEF vars, IInv, InputIsKnown, RoutesAreRecords, KeysAgree, SpoolHoldsTheRows, StoredAt, CountIsFresh, Dists
<1> QED BY <1>1, <1>2, <1>3, <1>4, <1>5 DEF Next, Done

--------------------------------------------------------------------------------
\* Whatever is cut, copied, deleted or clamped, every version kept has a key of its
\* own under which exactly its source's rows, batch date and published validity lie.
THEOREM EveryVersionKeepsItsRows == OneVersionPerBatch => (Spec => []KeysAgree)
<1>1. IInv => KeysAgree
  BY DEF IInv
<1> QED BY <1>1, InitKeeps, NextKeeps, PTL DEF Spec

\* What is stored under another distinction is rewritten to its own key.
LEMMA WrittenIsTheTable == IInv => SpoolIsTheTable
<1> SUFFICES ASSUME IInv PROVE SpoolIsTheTable
  OBVIOUS
<1>1. DOMAIN spool = Dists /\ DOMAIN rows = Dists
  BY KeysAreDists DEF IInv
<1>2. ASSUME NEW d \in Dists PROVE WrittenRows(d) = SpoolRows(d, rows[d])
  <2>1. StoredAt(d)
    BY DEF IInv, SpoolHoldsTheRows
  <2>2. \A x \in spool[d].rows : x.dist = spool[d].stored
    BY <2>1 DEF StoredAt
  <2>3. WrittenRows(d) = {[dist |-> d, of |-> x.of] : x \in spool[d].rows}
    BY <2>2 DEF WrittenRows
  <2>4. SpoolRows(d, rows[d]) = {[dist |-> d, of |-> v] : v \in {x.of : x \in spool[d].rows}}
    BY <2>1 DEF SpoolRows, StoredAt
  <2> QED BY <2>3, <2>4
<1> QED BY <1>1, <1>2 DEF SpoolIsTheTable

\* Spilling the trip stops to disk changes nothing of what is written.
THEOREM SpillIsInvisible == OneVersionPerBatch => (Spec => []SpoolIsTheTable)
BY InitKeeps, NextKeeps, WrittenIsTheTable, PTL DEF Spec

\* Whatever is merged and whenever it is spilled, every version kept has its own rows.
THEOREM TableIsKept == OneVersionPerBatch => (Spec => []TableKept)
<1>1. KeysAgree /\ SpoolIsTheTable => TableKept
  BY DEF TableKept
<1> QED BY <1>1, EveryVersionKeepsItsRows, SpillIsInvisible, PTL

--------------------------------------------------------------------------------
(***************************************************************************)
(* Induction over numbers and finite sets, by a least counterexample.      *)
(***************************************************************************)
\* A set of naturals has a least member.
LEMMA LeastNat ==
  ASSUME NEW S, S \subseteq Nat, S # {}
  PROVE  \E n \in S : \A m \in S : n <= m
<1>1. IsWellFoundedOn(OpToRel(<, Nat), Nat)
  BY NatLessThanWellFounded
<1>2. PICK n \in S : \A m \in S : <<m, n>> \notin OpToRel(<, Nat)
  BY <1>1, WFMin
<1>3. \A m \in S : ~(m < n)
  BY <1>2 DEF OpToRel
<1>4. n \in Nat /\ \A m \in S : m \in Nat
  OBVIOUS
<1> QED BY <1>3, <1>4

\* What holds of 0, and of k + 1 whenever of k, holds up to n.
LEMMA UpTo ==
  ASSUME NEW n \in Nat, NEW S, 0 \in S, \A k \in 0 .. (n - 1) : k \in S => k + 1 \in S
  PROVE  \A k \in 0 .. n : k \in S
<1> DEFINE Bad == {k \in 0 .. n : k \notin S}
<1>1. SUFFICES ASSUME Bad # {} PROVE FALSE
  OBVIOUS
<1>2. PICK k \in Bad : \A m \in Bad : k <= m
  <2>1. Bad \subseteq Nat
    OBVIOUS
  <2> HIDE DEF Bad
  <2> QED BY <1>1, <2>1, LeastNat
<1>3. k # 0
  BY <1>2
<1>4. k - 1 \in 0 .. (n - 1) /\ k - 1 \notin Bad /\ (k - 1) + 1 = k
  BY <1>2, <1>3
<1> QED BY <1>2, <1>4

\* A member of sets with no other of them inside it.
Smallest(T, sets) == T \in sets /\ \A U \in sets : ~(U \subseteq T /\ U # T)

\* Among subsets of a finite set one has no other inside it.
LEMMA SmallestExists ==
  ASSUME NEW S, NEW sets, sets \subseteq SUBSET S, sets # {}, IsFiniteSet(S)
  PROVE  \E T : Smallest(T, sets)
<1> DEFINE sizes == {Cardinality(T) : T \in sets}
<1>1. \A T \in sets : IsFiniteSet(T) /\ Cardinality(T) \in Nat
  BY FS_Subset, FS_CardinalityType
<1>2. PICK n \in sizes : \A m \in sizes : n <= m
  <2>1. sizes \subseteq Nat /\ sizes # {}
    BY <1>1
  <2> HIDE DEF sizes
  <2> QED BY <2>1, LeastNat
<1>3. PICK T \in sets : Cardinality(T) = n
  BY <1>2
<1>4. ASSUME NEW U \in sets, U \subseteq T, U # T PROVE FALSE
  <2>1. Cardinality(U) < Cardinality(T)
    BY <1>1, <1>4, FS_Subset
  <2>2. n <= Cardinality(U)
    BY <1>2
  <2> QED BY <1>1, <1>3, <2>1, <2>2
<1> QED BY <1>4 DEF Smallest

\* The community modules' Max of a finite set of integers is its greatest member.
LEMMA MaxIsGreatest ==
  ASSUME NEW S, S \subseteq Int, IsFiniteSet(S), S # {}
  PROVE  Max(S) \in S /\ \A x \in S : Max(S) >= x
<1> DEFINE Bad == {T \in SUBSET S : T # {} /\ ~\E x \in T : \A y \in T : x >= y}
<1>1. Bad = {}
  <2>1. SUFFICES ASSUME Bad # {} PROVE FALSE
    OBVIOUS
  <2>2. PICK T : Smallest(T, Bad)
    <3>1. Bad \subseteq SUBSET S
      OBVIOUS
    <3> HIDE DEF Bad
    <3> QED BY <2>1, <3>1, SmallestExists
  <2>3. PICK x \in T : TRUE
    BY <2>2 DEF Smallest
  <2>4. T \ {x} \notin Bad
    BY <2>2, <2>3 DEF Smallest
  <2>5. T \subseteq S /\ ~\E y \in T : \A z \in T : y >= z
    BY <2>2 DEF Smallest
  <2>6. T \ {x} # {}
    BY <2>3, <2>5
  <2>7. PICK z \in T \ {x} : \A y \in T \ {x} : z >= y
    BY <2>4, <2>5, <2>6
  <2>8. x \in Int /\ z \in Int /\ \A y \in T : y \in Int
    BY <2>3, <2>5, <2>7
  <2>9. CASE x >= z
    BY <2>3, <2>5, <2>7, <2>8, <2>9
  <2>10. CASE z >= x
    BY <2>3, <2>5, <2>7, <2>8, <2>10
  <2> QED BY <2>8, <2>9, <2>10
<1>2. S \notin Bad
  BY <1>1
<1> QED BY <1>2 DEF Max

\* The last of the first k numbers.
LEMMA MaxOfPrefix == ASSUME NEW k \in Nat, k # 0 PROVE Max(1 .. k) = k
<1>1. IsFiniteSet(1 .. k) /\ 1 .. k \subseteq Int /\ k \in 1 .. k
  BY FS_Interval
<1>2. PICK m : m = Max(1 .. k)
  OBVIOUS
<1>3. m \in 1 .. k /\ m >= k
  BY <1>1, <1>2, MaxIsGreatest
<1> QED BY <1>2, <1>3

(***************************************************************************)
(* Folds along 1 .. n: functions over subsets that take the greatest       *)
(* member last.                                                            *)
(***************************************************************************)
\* One step of a fold, the function a fold is, and the one chosen.
FoldStep(g, base, step, s) == IF s = {} THEN base ELSE step[<<g[s \ {Max(s)}], Max(s)>>]
IsFoldOn(g, base, step, T) == g = [s \in SUBSET T |-> FoldStep(g, base, step, s)]
FoldOn(base, step, T) == CHOOSE g : IsFoldOn(g, base, step, T)

\* A fold at one subset.
LEMMA FoldAt ==
  ASSUME NEW g, NEW base, NEW step, NEW T, IsFoldOn(g, base, step, T), NEW s \in SUBSET T
  PROVE  g[s] = FoldStep(g, base, step, s)
BY DEF IsFoldOn

\* The last member of a subset is one of its members.
LEMMA MaxWithin ==
  ASSUME NEW T, IsFiniteSet(T), T \subseteq Int, NEW s \in SUBSET T, s # {}
  PROVE  Max(s) \in s
<1>1. IsFiniteSet(s) /\ s \subseteq Int
  BY FS_Subset
<1> QED BY <1>1, MaxIsGreatest

\* What folds run over, and when two of them agree.
FiniteInts(T) == IsFiniteSet(T) /\ T \subseteq Int
AgreeOn(g, h, T) == \A s \in SUBSET T : g[s] = h[s]

\* Two folds of the same step agree wherever both are defined.
LEMMA FoldUnique ==
  ASSUME NEW base, NEW step, NEW T, NEW U, FiniteInts(T), T \subseteq U,
         NEW g, NEW h, IsFoldOn(g, base, step, T), IsFoldOn(h, base, step, U)
  PROVE  AgreeOn(g, h, T)
<1> DEFINE Bad == {s \in SUBSET T : g[s] # h[s]}
<1>1. SUFFICES ASSUME Bad # {} PROVE FALSE
  BY DEF AgreeOn
<1> USE DEF FiniteInts
<1>2. PICK s : Smallest(s, Bad)
  <2>1. Bad \subseteq SUBSET T
    OBVIOUS
  <2> HIDE DEF Bad
  <2> QED BY <1>1, <2>1, SmallestExists
<1>3. s \in SUBSET T /\ s \in SUBSET U /\ g[s] # h[s]
  BY <1>2 DEF Smallest
<1>4. g[s] = FoldStep(g, base, step, s) /\ h[s] = FoldStep(h, base, step, s)
  BY <1>3, FoldAt
<1>5. s # {}
  BY <1>3, <1>4 DEF FoldStep
<1>6. Max(s) \in s
  BY <1>3, <1>5, MaxWithin
<1>7. g[s \ {Max(s)}] = h[s \ {Max(s)}]
  BY <1>2, <1>6 DEF Smallest
<1> QED BY <1>3, <1>4, <1>5, <1>7 DEF FoldStep

\* There is a fold over every finite set of integers.
LEMMA FoldExists ==
  ASSUME NEW base, NEW step, NEW S, IsFiniteSet(S), S \subseteq Int
  PROVE  IsFoldOn(FoldOn(base, step, S), base, step, S)
<1> DEFINE Bad == {T \in SUBSET S : ~\E g : IsFoldOn(g, base, step, T)}
<1>1. SUFFICES ASSUME Bad # {} PROVE FALSE
  BY DEF FoldOn
<1>2. PICK T : Smallest(T, Bad)
  <2>1. Bad \subseteq SUBSET S
    OBVIOUS
  <2> HIDE DEF Bad
  <2> QED BY <1>1, <2>1, SmallestExists
<1>3. T \in SUBSET S /\ ~\E g : IsFoldOn(g, base, step, T)
  BY <1>2 DEF Smallest
<1>4. \A U \in SUBSET T : U # T => IsFoldOn(FoldOn(base, step, U), base, step, U)
  BY <1>2 DEF Smallest, FoldOn
<1>5. \A s \in SUBSET T : IsFiniteSet(s) /\ s \subseteq Int /\ (s # {} => Max(s) \in s)
  <2>1. IsFiniteSet(T) /\ T \subseteq Int
    BY <1>3, FS_Subset
  <2> QED BY <2>1, FS_Subset, MaxWithin
<1> HIDE DEF Bad
<1> DEFINE Less(s) == s \ {Max(s)}
           h == [s \in SUBSET T |->
                   IF s = {} THEN base ELSE step[<<FoldOn(base, step, Less(s))[Less(s)], Max(s)>>]]
<1>6. ASSUME NEW u \in SUBSET T, u # T, u # {}
      PROVE  FoldOn(base, step, u)[Less(u)] = FoldOn(base, step, Less(u))[Less(u)]
  <2>1. PICK w : w = Less(u)
    OBVIOUS
  <2>2. w \subseteq u /\ w \in SUBSET T /\ w # T
    BY <1>6, <2>1, <1>5
  <2>3. IsFoldOn(FoldOn(base, step, w), base, step, w) /\ IsFoldOn(FoldOn(base, step, u), base, step, u)
    BY <1>4, <1>6, <2>2
  <2>4. FiniteInts(w)
    BY <1>5, <2>2 DEF FiniteInts
  <2>5. PICK f, g : f = FoldOn(base, step, w) /\ g = FoldOn(base, step, u)
    OBVIOUS
  <2>6. AgreeOn(f, g, w)
    BY <2>2, <2>3, <2>4, <2>5, FoldUnique
  <2> QED BY <2>1, <2>5, <2>6 DEF AgreeOn
<1>7. ASSUME NEW s \in SUBSET T, s # {} PROVE h[Less(s)] = FoldOn(base, step, Less(s))[Less(s)]
  <2>1. PICK u : u = Less(s)
    OBVIOUS
  <2>2. u \in SUBSET T /\ u # T
    BY <1>5, <1>7, <2>1
  <2>3. FoldOn(base, step, u)[u] = FoldStep(FoldOn(base, step, u), base, step, u)
    <3>1. u \in SUBSET u /\ IsFoldOn(FoldOn(base, step, u), base, step, u)
      BY <1>4, <2>2
    <3> QED BY <3>1, FoldAt
  <2>4. u # {} => FoldOn(base, step, u)[u] = step[<<FoldOn(base, step, u)[Less(u)], Max(u)>>]
    BY <2>3 DEF FoldStep
  <2>5. u = {} => FoldOn(base, step, u)[u] = base
    BY <2>3 DEF FoldStep
  <2>6. h[u] = FoldOn(base, step, u)[u]
    BY <1>6, <2>2, <2>4, <2>5
  <2> QED BY <2>1, <2>6
<1>8. IsFoldOn(h, base, step, T)
  <2>1. ASSUME NEW s \in SUBSET T PROVE h[s] = FoldStep(h, base, step, s)
    <3>1. CASE s = {}
      BY <3>1 DEF FoldStep
    <3>2. CASE s # {}
      <4>1. h[s] = step[<<FoldOn(base, step, Less(s))[Less(s)], Max(s)>>]
        BY <3>2
      <4> HIDE DEF h
      <4> QED BY <1>7, <3>2, <4>1 DEF FoldStep
    <3> QED BY <3>1, <3>2
  <2>2. h = [s \in SUBSET T |-> h[s]]
    OBVIOUS
  <2> HIDE DEF h
  <2> QED BY <2>1, <2>2 DEF IsFoldOn
<1> QED BY <1>3, <1>8

\* A fold of steps within V stays in V.
LEMMA FoldTyped ==
  ASSUME NEW V, NEW n \in Nat, NEW base \in V, NEW step, step \in [V \X (1 .. n) -> V]
  PROVE  /\ IsFoldOn(FoldOn(base, step, 1 .. n), base, step, 1 .. n)
         /\ FoldOn(base, step, 1 .. n) \in [SUBSET (1 .. n) -> V]
<1> DEFINE g == FoldOn(base, step, 1 .. n)
           Bad == {s \in SUBSET (1 .. n) : g[s] \notin V}
<1>1. IsFiniteSet(1 .. n) /\ 1 .. n \subseteq Int
  BY FS_Interval
<1>2. IsFoldOn(g, base, step, 1 .. n)
  BY <1>1, FoldExists
<1>3. Bad = {}
  <2>1. SUFFICES ASSUME Bad # {} PROVE FALSE
    OBVIOUS
  <2> HIDE DEF g
  <2>2. PICK s : Smallest(s, Bad)
    <3>1. Bad \subseteq SUBSET (1 .. n)
      OBVIOUS
    <3> HIDE DEF Bad
    <3> QED BY <1>1, <2>1, <3>1, SmallestExists
  <2>3. s \in SUBSET (1 .. n) /\ g[s] \notin V
    BY <2>2 DEF Smallest
  <2>4. g[s] = FoldStep(g, base, step, s)
    BY <1>2, <2>3, FoldAt
  <2>5. s # {}
    BY <2>3, <2>4 DEF FoldStep
  <2>6. Max(s) \in s
    BY <1>1, <2>3, <2>5, MaxWithin
  <2>7. g[s \ {Max(s)}] \in V /\ Max(s) \in 1 .. n
    BY <2>2, <2>3, <2>6 DEF Smallest
  <2> QED BY <2>3, <2>4, <2>5, <2>7 DEF FoldStep
<1>4. g = [s \in SUBSET (1 .. n) |-> g[s]]
  <2> HIDE DEF g
  <2> QED BY <1>2 DEF IsFoldOn
<1>5. \A s \in SUBSET (1 .. n) : g[s] \in V
  BY <1>3
<1> HIDE DEF g
<1> QED BY <1>2, <1>4, <1>5 DEF g

--------------------------------------------------------------------------------
(***************************************************************************)
(* The winner of a date, one unit at a time.                               *)
(***************************************************************************)
Better(units, day, best, u) ==
  ValidOn(units[u][1], day) /\ (best = 0 \/ Beats(units[u][1], units[best][1]))

\* w[k]: the best of the first k units.
IsContest(w, units, day, n) ==
  /\ w \in [0 .. n -> 0 .. n]
  /\ w[0] = 0
  /\ w[n] = Winner(units, day)
  /\ \A k \in 1 .. n : w[k] = IF Better(units, day, w[k - 1], k) THEN k ELSE w[k - 1]

\* Winner, a fold of the community modules, is the last of a contest.
LEMMA WinnerIsOfContest ==
  ASSUME NEW units, NEW n \in Nat, DOMAIN units = 1 .. n, NEW day
  PROVE  \E w : IsContest(w, units, day, n)
<1> DEFINE numbers == [i \in DOMAIN units |-> i]
           Stepped(g, s) == IF s = {} THEN 0
                         ELSE IF Better(units, day, g[s \ {Max(s)}], Max(s)) THEN Max(s) ELSE g[s \ {Max(s)}]
           Raw(g, s) == IF s = {} THEN 0
                        ELSE IF /\ ValidOn(units[numbers[Max(s)]][1], day)
                                /\ g[s \ {Max(s)}] = 0 \/ Beats(units[numbers[Max(s)]][1], units[g[s \ {Max(s)}]][1])
                             THEN numbers[Max(s)] ELSE g[s \ {Max(s)}]
           It == CHOOSE g : g = [s \in SUBSET DOMAIN numbers |-> Raw(g, s)]
           step == [p \in (0 .. n) \X (1 .. n) |-> IF Better(units, day, p[1], p[2]) THEN p[2] ELSE p[1]]
           h == FoldOn(0, step, 1 .. n)
<1>1. Winner(units, day) = It[DOMAIN numbers]
  BY DEF Winner, FoldLeftDomain, FoldLeft, MapThenFoldSet
<1>2. FiniteInts(1 .. n)
  BY FS_Interval DEF FiniteInts
<1>3. \A s \in SUBSET (1 .. n) : s # {} => Max(s) \in 1 .. n /\ Max(s) \in s
  BY <1>2, MaxWithin DEF FiniteInts
<1>4. \A g : \A s \in SUBSET (1 .. n) : Raw(g, s) = Stepped(g, s)
  BY <1>3 DEF Better
<1>5. DOMAIN numbers = 1 .. n
  OBVIOUS
<1>6. \A g : [s \in SUBSET DOMAIN numbers |-> Raw(g, s)] = [s \in SUBSET (1 .. n) |-> Stepped(g, s)]
  <2> HIDE DEF Raw, Stepped, numbers
  <2> QED BY <1>4, <1>5
<1>7. IsFoldOn(h, 0, step, 1 .. n) /\ h \in [SUBSET (1 .. n) -> 0 .. n]
  <2>1. step \in [(0 .. n) \X (1 .. n) -> 0 .. n] /\ 0 \in 0 .. n
    OBVIOUS
  <2> HIDE DEF step
  <2> QED BY <2>1, FoldTyped
<1>8. \A s \in SUBSET (1 .. n) : h[s] = Stepped(h, s)
  <2> HIDE DEF h
  <2>1. ASSUME NEW s \in SUBSET (1 .. n), s # {}
        PROVE  h[s] = IF Better(units, day, h[s \ {Max(s)}], Max(s)) THEN Max(s) ELSE h[s \ {Max(s)}]
    <3>1. h[s] = step[<<h[s \ {Max(s)}], Max(s)>>]
      <4>1. h[s] = FoldStep(h, 0, step, s)
        <5> HIDE DEF step
        <5> QED BY <1>7, FoldAt
      <4> HIDE DEF step
      <4> QED BY <2>1, <4>1 DEF FoldStep
    <3>2. h[s \ {Max(s)}] \in 0 .. n /\ Max(s) \in 1 .. n
      BY <1>3, <1>7, <2>1
    <3> QED BY <3>1, <3>2
  <2>2. h[{}] = 0
    BY <1>7, FoldAt DEF FoldStep
  <2> QED BY <2>1, <2>2
<1>9. h = [s \in SUBSET (1 .. n) |-> Stepped(h, s)]
  <2>1. h = [s \in SUBSET (1 .. n) |-> h[s]]
    <3> HIDE DEF h
    <3> QED BY <1>7
  <2> HIDE DEF h, Stepped
  <2> QED BY <1>8, <2>1
<1>10. It = [s \in SUBSET (1 .. n) |-> Stepped(It, s)]
  <2>1. h = [s \in SUBSET DOMAIN numbers |-> Raw(h, s)]
    <3> HIDE DEF h, Stepped, Raw, numbers
    <3> QED BY <1>6, <1>9
  <2>2. It = [s \in SUBSET DOMAIN numbers |-> Raw(It, s)]
    <3> HIDE DEF h, Raw, numbers
    <3> QED BY <2>1
  <2> HIDE DEF It, Raw, Stepped, numbers
  <2> QED BY <1>6, <2>2
<1>11. PICK g : g = It
  OBVIOUS
<1> HIDE DEF It, h, step, Raw
<1>12. ASSUME NEW k \in 1 .. n
       PROVE  g[1 .. k] = IF Better(units, day, g[1 .. (k - 1)], k) THEN k ELSE g[1 .. (k - 1)]
  <2>0. k \in Nat /\ k # 0 /\ 1 .. k # {} /\ 1 .. k \in SUBSET (1 .. n) /\ (1 .. k) \ {k} = 1 .. (k - 1)
    OBVIOUS
  <2>1. Max(1 .. k) = k
    <3> HIDE DEF Stepped
    <3> QED BY <2>0, MaxOfPrefix
  <2>2. g[1 .. k] = Stepped(g, 1 .. k)
    <3> HIDE DEF Stepped
    <3> QED BY <1>10, <1>11, <2>0
  <2> QED BY <2>0, <2>1, <2>2
<1>13. g[1 .. 0] = 0
  <2>1. 1 .. 0 = {} /\ 1 .. 0 \in SUBSET (1 .. n)
    OBVIOUS
  <2>2. g[{}] = Stepped(g, {})
    <3> HIDE DEF Stepped
    <3> QED BY <1>10, <1>11, <2>1
  <2> QED BY <2>1, <2>2
<1> DEFINE w == [k \in 0 .. n |-> g[1 .. k]]
<1> DEFINE S == {k \in 0 .. n : w[k] \in 0 .. n}
<1>14. \A k \in 0 .. n : k \in S
  <2>1. 0 \in S
    BY <1>13
  <2>2. ASSUME NEW k \in 0 .. (n - 1), k \in S PROVE k + 1 \in S
    <3>1. k + 1 \in 1 .. n /\ k + 1 \in 0 .. n /\ (k + 1) - 1 = k /\ w[k] \in 0 .. n
      BY <2>2
    <3>2. g[1 .. (k + 1)] = IF Better(units, day, g[1 .. k], k + 1) THEN k + 1 ELSE g[1 .. k]
      <4> HIDE DEF w, S
      <4> QED BY <1>12, <3>1
    <3>3. w[k] = g[1 .. k] /\ w[k + 1] = g[1 .. (k + 1)]
      BY <3>1
    <3>4. w[k + 1] = w[k] \/ w[k + 1] = k + 1
      <4> HIDE DEF w, S
      <4> QED BY <3>2, <3>3
    <3> QED BY <3>1, <3>4
  <2> HIDE DEF S
  <2> QED BY <2>1, <2>2, UpTo
<1>15. w[n] = Winner(units, day)
  BY <1>1, <1>5, <1>11
<1>16. \A k \in 1 .. n : w[k] = IF Better(units, day, w[k - 1], k) THEN k ELSE w[k - 1]
  BY <1>12
<1>17. w \in [0 .. n -> 0 .. n] /\ w[0] = 0
  BY <1>13, <1>14
<1> HIDE DEF w
<1> QED BY <1>15, <1>16, <1>17 DEF IsContest

\* The winner is the number of a unit valid on the date, and 0 only if there is none.
LEMMA WinnerIsValid ==
  ASSUME NEW units, NEW n \in Nat, DOMAIN units = 1 .. n, NEW day
  PROVE  \/ Winner(units, day) = 0 /\ \A u \in 1 .. n : ~ValidOn(units[u][1], day)
         \/ Winner(units, day) \in 1 .. n /\ ValidOn(units[Winner(units, day)][1], day)
<1>1. PICK w : IsContest(w, units, day, n)
  BY WinnerIsOfContest
<1> DEFINE S == {k \in 0 .. n : \/ w[k] = 0 /\ \A u \in 1 .. k : ~ValidOn(units[u][1], day)
                                \/ w[k] \in 1 .. k /\ ValidOn(units[w[k]][1], day)}
<1>2. 0 \in S
  BY <1>1 DEF IsContest
<1>3. ASSUME NEW k \in 0 .. (n - 1), k \in S PROVE k + 1 \in S
  <2>1. k + 1 \in 1 .. n /\ (k + 1) - 1 = k /\ 1 .. (k + 1) = (1 .. k) \cup {k + 1}
    OBVIOUS
  <2>2. w[k + 1] = IF Better(units, day, w[k], k + 1) THEN k + 1 ELSE w[k]
    BY <1>1, <2>1 DEF IsContest
  <2>3. CASE Better(units, day, w[k], k + 1)
    BY <2>1, <2>2, <2>3 DEF Better
  <2>4. CASE ~Better(units, day, w[k], k + 1)
    BY <1>3, <2>1, <2>2, <2>4 DEF Better
  <2> QED BY <2>3, <2>4
<1>4. n \in S
  <2> HIDE DEF S
  <2>1. \A k \in 0 .. n : k \in S
    BY <1>2, <1>3, UpTo
  <2> QED BY <2>1
<1> QED BY <1>1, <1>4 DEF IsContest

\* The winner depends only on which units are valid.
LEMMA WinnerOfTheValid ==
  ASSUME NEW units, NEW n \in Nat, DOMAIN units = 1 .. n, NEW day, NEW instead,
         \A u \in 1 .. n : ValidOn(units[u][1], day) <=> ValidOn(units[u][1], instead)
  PROVE  Winner(units, day) = Winner(units, instead)
<1>1. PICK w : IsContest(w, units, day, n)
  BY WinnerIsOfContest
<1>2. PICK x : IsContest(x, units, instead, n)
  BY WinnerIsOfContest
<1> DEFINE S == {k \in 0 .. n : w[k] = x[k]}
<1>3. 0 \in S
  BY <1>1, <1>2 DEF IsContest
<1>4. ASSUME NEW k \in 0 .. (n - 1), k \in S PROVE k + 1 \in S
  <2>1. k + 1 \in 1 .. n /\ (k + 1) - 1 = k
    OBVIOUS
  <2>2. /\ w[k + 1] = IF Better(units, day, w[k], k + 1) THEN k + 1 ELSE w[k]
        /\ x[k + 1] = IF Better(units, instead, x[k], k + 1) THEN k + 1 ELSE x[k]
    BY <1>1, <1>2, <2>1 DEF IsContest
  <2>3. Better(units, day, w[k], k + 1) <=> Better(units, instead, x[k], k + 1)
    BY <1>4, <2>1 DEF Better
  <2> QED BY <1>4, <2>2, <2>3
<1>5. n \in S
  <2> HIDE DEF S
  <2>1. \A k \in 0 .. n : k \in S
    BY <1>3, <1>4, UpTo
  <2> QED BY <2>1
<1> QED BY <1>1, <1>2, <1>5 DEF IsContest

\* The fields by which two versions are compared are numbers.
Comparable(v) == v.from \in Int /\ v.to \in Int /\ v.created \in Int /\ v.dist \in Int

\* Of two versions at most one beats the other.
LEMMA BeatsIsAsymmetric ==
  ASSUME NEW v, NEW w, Comparable(v), Comparable(w), Beats(v, w)
  PROVE  ~Beats(w, v)
<1>1. ~(HasPriority(v, w) /\ HasPriority(w, v))
  BY DEF HasPriority, Comparable
<1>2. CASE HasPriority(v, w)
  BY <1>1, <1>2 DEF Beats
<1>3. CASE ~HasPriority(v, w)
  BY <1>3 DEF Beats, Comparable
<1> QED BY <1>2, <1>3

\* A unit whose head beats all others valid on the date wins it.
LEMMA BestWins ==
  ASSUME NEW units, NEW n \in Nat, DOMAIN units = 1 .. n, NEW day,
         \A v \in 1 .. n : Comparable(units[v][1]),
         NEW u \in 1 .. n, ValidOn(units[u][1], day),
         \A v \in (1 .. n) \ {u} : ValidOn(units[v][1], day) => Beats(units[u][1], units[v][1])
  PROVE  Winner(units, day) = u
<1>1. PICK w : IsContest(w, units, day, n)
  BY WinnerIsOfContest
<1> DEFINE S == {k \in 0 .. n : /\ w[k] = 0 \/ (w[k] \in 1 .. k /\ ValidOn(units[w[k]][1], day))
                                /\ u <= k => w[k] = u}
<1>2. 0 \in S
  <2>1. w[0] = 0 /\ ~(u <= 0)
    BY <1>1 DEF IsContest
  <2> QED BY <2>1
<1>3. ASSUME NEW k \in 0 .. (n - 1), k \in S PROVE k + 1 \in S
  <2>1. k + 1 \in 1 .. n /\ (k + 1) - 1 = k /\ 1 .. (k + 1) = (1 .. k) \cup {k + 1}
    OBVIOUS
  <2>2. w[k + 1] = IF Better(units, day, w[k], k + 1) THEN k + 1 ELSE w[k]
    BY <1>1, <2>1 DEF IsContest
  <2>3. w[k] = 0 \/ (w[k] \in 1 .. k /\ ValidOn(units[w[k]][1], day))
    BY <1>3
  <2>4. w[k + 1] = 0 \/ (w[k + 1] \in 1 .. (k + 1) /\ ValidOn(units[w[k + 1]][1], day))
    BY <2>1, <2>2, <2>3 DEF Better
  <2>5. CASE u = k + 1
    <3>1. Better(units, day, w[k], k + 1)
      <4>1. ASSUME w[k] # 0 PROVE w[k] \in (1 .. n) \ {u}
        BY <2>1, <2>3, <2>5, <4>1
      <4> QED BY <2>3, <2>5, <4>1 DEF Better
    <3> QED BY <2>1, <2>2, <2>4, <2>5, <3>1
  <2>6. CASE u <= k
    <3>1. w[k] = u /\ u # 0
      BY <1>3, <2>6
    <3>2. k + 1 \in (1 .. n) \ {u}
      BY <2>1, <2>6
    <3>3. ~Better(units, day, w[k], k + 1)
      BY <3>1, <3>2, BeatsIsAsymmetric DEF Better
    <3> QED BY <2>1, <2>2, <2>4, <3>1, <3>3
  <2>7. CASE u > k + 1
    BY <2>1, <2>4, <2>7
  <2> QED BY <2>5, <2>6, <2>7
<1>4. n \in S
  <2> HIDE DEF S
  <2>1. \A k \in 0 .. n : k \in S
    BY <1>2, <1>3, UpTo
  <2> QED BY <2>1
<1> QED BY <1>1, <1>4 DEF IsContest

--------------------------------------------------------------------------------
\* A finite set of integers has a least member, ...
LEMMA LeastInt ==
  ASSUME NEW S, FiniteInts(S), S # {}
  PROVE  \E x \in S : \A y \in S : x <= y
<1> DEFINE Bad == {T \in SUBSET S : T # {} /\ ~\E x \in T : \A y \in T : x <= y}
<1>1. Bad = {}
  <2>1. SUFFICES ASSUME Bad # {} PROVE FALSE
    OBVIOUS
  <2>2. PICK T : Smallest(T, Bad)
    <3>1. Bad \subseteq SUBSET S
      OBVIOUS
    <3> HIDE DEF Bad
    <3> QED BY <2>1, <3>1, SmallestExists DEF FiniteInts
  <2>3. PICK x \in T : TRUE
    BY <2>2 DEF Smallest
  <2>4. T \ {x} \notin Bad
    BY <2>2, <2>3 DEF Smallest
  <2>5. T \subseteq S /\ ~\E y \in T : \A z \in T : y <= z
    BY <2>2 DEF Smallest
  <2>6. T \ {x} # {}
    <3>1. x \in Int
      BY <2>3, <2>5 DEF FiniteInts
    <3> QED BY <2>3, <2>5, <3>1
  <2>7. PICK z \in T \ {x} : \A y \in T \ {x} : z <= y
    BY <2>4, <2>5, <2>6
  <2>8. x \in Int /\ z \in Int /\ \A y \in T : y \in Int
    BY <2>3, <2>5, <2>7 DEF FiniteInts
  <2>9. CASE x <= z
    BY <2>3, <2>5, <2>7, <2>8, <2>9
  <2>10. CASE z <= x
    BY <2>3, <2>5, <2>7, <2>8, <2>10
  <2> QED BY <2>8, <2>9, <2>10
<1> QED BY <1>1

\* ... and a greatest.
LEMMA GreatestInt ==
  ASSUME NEW S, FiniteInts(S), S # {}
  PROVE  \E x \in S : \A y \in S : y <= x
<1>1. Max(S) \in S /\ \A x \in S : Max(S) >= x
  BY MaxIsGreatest DEF FiniteInts
<1> QED BY <1>1 DEF FiniteInts

\* A part of a finite set of integers is one.
LEMMA FewerInts ==
  ASSUME NEW S, FiniteInts(S), NEW T, T \subseteq S
  PROVE  FiniteInts(T)
BY FS_Subset DEF FiniteInts

(***************************************************************************)
(* The ranges a unit wins.                                                 *)
(***************************************************************************)
HeadsDated(units, n) ==
  /\ DOMAIN units = 1 .. n
  /\ \A u \in 1 .. n : units[u][1].from \in Int /\ units[u][1].to \in Int

\* The boundaries a unit wins.
Won(units, u) == {b \in Boundaries(units) : Winner(units, b) = u}

\* A run of won boundaries from a up to the boundary z, that cannot be begun earlier.
IsRun(units, u, a, z) ==
  /\ a \in Won(units, u) /\ z \in Boundaries(units) \ Won(units, u) /\ a < z
  /\ \A c \in Boundaries(units) : a < c /\ c < z => c \in Won(units, u)
  /\ \A c \in Won(units, u) : ~(c < a /\ \A d \in Boundaries(units) : d < a => d <= c)

\* The ranges are the runs.
LEMMA RangesAreRuns ==
  ASSUME NEW units, NEW u, NEW g
  PROVE  g \in WonRanges(units, u) <=> \E a, z : IsRun(units, u, a, z) /\ g = [from |-> a, to |-> z - 1]
<1> DEFINE bounds == Boundaries(units)
           won == Won(units, u)
           Preceding(b) == {c \in bounds : c < b /\ \A d \in bounds : d < b => d <= c}
           runs == {p \in won \X (bounds \ won) :
                      /\ p[1] < p[2]
                      /\ \A c \in bounds : p[1] < c /\ c < p[2] => c \in won
                      /\ Preceding(p[1]) \cap won = {}}
<1>1. WonRanges(units, u) = {[from |-> p[1], to |-> p[2] - 1] : p \in runs}
  BY DEF WonRanges, Won
<1>2. \A a, z : <<a, z>> \in runs <=> IsRun(units, u, a, z)
  <2>1. won \subseteq bounds
    BY DEF Won
  <2> HIDE DEF won, bounds
  <2>2. ASSUME NEW a, NEW z
        PROVE  <<a, z>> \in runs <=> /\ a \in won /\ z \in bounds \ won /\ a < z
                                     /\ \A c \in bounds : a < c /\ c < z => c \in won
                                     /\ \A c \in won : ~(c < a /\ \A d \in bounds : d < a => d <= c)
    BY <2>1
  <2> QED BY <2>2 DEF IsRun, won, bounds
<1>3. \A p \in runs : p = <<p[1], p[2]>>
  OBVIOUS
<1> HIDE DEF runs
<1>4. ASSUME NEW p \in runs, g = [from |-> p[1], to |-> p[2] - 1]
      PROVE  \E a, z : IsRun(units, u, a, z) /\ g = [from |-> a, to |-> z - 1]
  BY <1>2, <1>3, <1>4
<1>5. ASSUME NEW a, NEW z, IsRun(units, u, a, z), g = [from |-> a, to |-> z - 1]
      PROVE  \E p \in runs : g = [from |-> p[1], to |-> p[2] - 1]
  <2>1. <<a, z>> \in runs /\ g = [from |-> <<a, z>>[1], to |-> <<a, z>>[2] - 1]
    BY <1>2, <1>5
  <2> QED BY <2>1, Zenon
<1> QED BY <1>1, <1>4, <1>5

\* There are finitely many boundaries, ...
LEMMA BoundariesAreInts ==
  ASSUME NEW units, NEW n \in Nat, HeadsDated(units, n)
  PROVE  FiniteInts(Boundaries(units))
<1> DEFINE starts == {units[u][1].from : u \in 1 .. n}
           ends == {units[u][1].to + 1 : u \in 1 .. n}
<1>1. Boundaries(units) = starts \cup ends
  BY DEF Boundaries, HeadsDated
<1>2. IsFiniteSet(1 .. n)
  BY FS_Interval
<1> DEFINE fs == [u \in 1 .. n |-> units[u][1].from]
           fe == [u \in 1 .. n |-> units[u][1].to + 1]
<1>3. IsFiniteSet(starts)
  <2>1. fs \in Surjection(1 .. n, starts)
    BY DEF Surjection
  <2> HIDE DEF fs, starts
  <2> QED BY <1>2, <2>1, FS_Surjection
<1>4. IsFiniteSet(ends)
  <2>1. fe \in Surjection(1 .. n, ends)
    BY DEF Surjection
  <2> HIDE DEF fe, ends
  <2> QED BY <1>2, <2>1, FS_Surjection
<1>5. starts \subseteq Int /\ ends \subseteq Int
  BY DEF HeadsDated
<1> HIDE DEF starts, ends
<1>6. IsFiniteSet(starts \cup ends)
  BY <1>3, <1>4, FS_Union
<1> QED BY <1>1, <1>5, <1>6 DEF FiniteInts

\* ... all dates, and every unit's among them.
LEMMA BoundariesOf ==
  ASSUME NEW units, NEW n \in Nat, HeadsDated(units, n)
  PROVE  /\ \A u \in 1 .. n : units[u][1].from \in Boundaries(units) /\ units[u][1].to + 1 \in Boundaries(units)
         /\ \A b \in Boundaries(units) : b \in Int
BY DEF Boundaries, HeadsDated

\* From a boundary up to the next nothing changes.
LEMMA SegmentHasOneWinner ==
  ASSUME NEW units, NEW n \in Nat, HeadsDated(units, n), NEW day \in Int,
         NEW first \in Boundaries(units), first <= day
  PROVE  \E b \in Boundaries(units) : /\ b <= day /\ first <= b
                                      /\ \A c \in Boundaries(units) : c <= day => c <= b
                                      /\ Winner(units, b) = Winner(units, day)
<1>1. PICK b \in Boundaries(units) : b <= day /\ \A c \in Boundaries(units) : c <= day => c <= b
  <2> DEFINE S == {c \in Boundaries(units) : c <= day}
  <2>1. FiniteInts(S) /\ S # {}
    BY BoundariesAreInts, FewerInts
  <2>2. PICK b \in S : \A c \in S : c <= b
    <3> HIDE DEF S
    <3> QED BY <2>1, GreatestInt
  <2> QED BY <2>2
<1>2. ASSUME NEW u \in 1 .. n PROVE ValidOn(units[u][1], day) <=> ValidOn(units[u][1], b)
  <2>1. PICK from, to : from = units[u][1].from /\ to = units[u][1].to
    OBVIOUS
  <2>2. from \in Int /\ to \in Int /\ from \in Boundaries(units) /\ to + 1 \in Boundaries(units) /\ b \in Int
    BY <2>1, BoundariesOf DEF HeadsDated
  <2>3. from <= day <=> from <= b
    BY <1>1, <2>2
  <2>4. day <= to <=> b <= to
    BY <1>1, <2>2
  <2> QED BY <2>1, <2>3, <2>4 DEF ValidOn
<1>3. Winner(units, b) = Winner(units, day)
  BY <1>2, WinnerOfTheValid DEF HeadsDated
<1> QED BY <1>1, <1>3

\* A unit wins every date of its ranges.
LEMMA RangesAreWon ==
  ASSUME NEW units, NEW n \in Nat, HeadsDated(units, n), NEW u, NEW g \in WonRanges(units, u),
         NEW day \in Int, g.from <= day, day <= g.to
  PROVE  Winner(units, day) = u
<1>1. PICK a, z : IsRun(units, u, a, z) /\ g = [from |-> a, to |-> z - 1]
  BY RangesAreRuns
<1>2. a \in Boundaries(units) /\ a \in Int /\ z \in Int /\ a <= day /\ day < z
  BY <1>1, BoundariesOf DEF IsRun, Won
<1>3. PICK b \in Boundaries(units) : b <= day /\ a <= b /\ Winner(units, b) = Winner(units, day)
  BY <1>2, SegmentHasOneWinner
<1>4. b \in Int
  BY BoundariesOf
<1>5. b \in Won(units, u)
  BY <1>1, <1>2, <1>3, <1>4 DEF IsRun
<1> QED BY <1>3, <1>5 DEF Won

\* Every date a unit wins is in one of its ranges.
LEMMA WonIsCovered ==
  ASSUME NEW units, NEW n \in Nat, HeadsDated(units, n), NEW u \in 1 .. n, NEW day \in Int,
         Winner(units, day) = u
  PROVE  \E g \in WonRanges(units, u) : g.from <= day /\ day <= g.to
<1> DEFINE bounds == Boundaries(units)
           won == Won(units, u)
<1>1. PICK from, to : from = units[u][1].from /\ to = units[u][1].to
  OBVIOUS
<1>2. from \in Int /\ to \in Int /\ from \in bounds /\ to + 1 \in bounds
  BY <1>1, BoundariesOf DEF HeadsDated
<1>3. from <= day /\ day <= to
  BY <1>1, WinnerIsValid DEF ValidOn, HeadsDated
<1>4. PICK b \in bounds : /\ b <= day /\ \A c \in bounds : c <= day => c <= b
                          /\ Winner(units, b) = Winner(units, day)
  BY <1>2, <1>3, SegmentHasOneWinner
<1>5. b \in Int /\ b \in won /\ \A c \in bounds : c \in Int
  BY <1>4, BoundariesOf DEF Won
<1>6. to + 1 \notin won
  <2>1. ~ValidOn(units[u][1], to + 1)
    BY <1>1, <1>2 DEF ValidOn
  <2>2. Winner(units, to + 1) # u
    BY <2>1, WinnerIsValid DEF HeadsDated
  <2> QED BY <2>2 DEF Won
<1>7. PICK z \in bounds \ won : z > b /\ \A c \in bounds \ won : c > b => z <= c
  <2> DEFINE S == {c \in bounds \ won : c > b}
  <2>1. FiniteInts(S) /\ S # {}
    <3>1. to + 1 \in S
      BY <1>2, <1>3, <1>4, <1>5, <1>6
    <3>2. FiniteInts(S)
      BY BoundariesAreInts, FewerInts
    <3> QED BY <3>1, <3>2
  <2>2. PICK z \in S : \A c \in S : z <= c
    <3> HIDE DEF S
    <3> QED BY <2>1, LeastInt
  <2> QED BY <2>2
<1> DEFINE Back(c) == c <= b /\ \A d \in bounds : c <= d /\ d <= b => d \in won
<1>8. PICK a \in bounds : Back(a) /\ \A c \in bounds : Back(c) => a <= c
  <2> DEFINE S == {c \in bounds : Back(c)}
  <2>1. FiniteInts(S) /\ S # {}
    <3>1. b \in S
      BY <1>5
    <3>2. FiniteInts(S)
      BY BoundariesAreInts, FewerInts
    <3> QED BY <3>1, <3>2
  <2>2. PICK a \in S : \A c \in S : a <= c
    <3> HIDE DEF S
    <3> QED BY <2>1, LeastInt
  <2> QED BY <2>2
<1>9. a \in Int /\ z \in Int /\ a \in won /\ a <= b
  BY <1>5, <1>7, <1>8
<1>10. \A c \in bounds : a < c /\ c < z => c \in won
  BY <1>5, <1>7, <1>8, <1>9
<1>11. ASSUME NEW c \in won, c < a, \A d \in bounds : d < a => d <= c PROVE FALSE
  <2>1. c \in bounds /\ c \in Int
    BY <1>5 DEF Won
  <2>2. c <= b
    BY <1>5, <1>9, <1>11, <2>1
  <2>3. ASSUME NEW d \in bounds, c <= d, d <= b PROVE d \in won
    <3>1. CASE d < a
      <4>1. d = c
        BY <1>5, <1>11, <2>1, <2>3, <3>1
      <4> QED BY <4>1, <1>11
    <3>2. CASE a <= d
      BY <1>8, <2>3, <3>2
    <3> QED BY <1>5, <1>9, <3>1, <3>2
  <2>4. a <= c
    BY <1>8, <2>1, <2>2, <2>3
  <2> QED BY <1>9, <1>11, <2>1, <2>4
<1>12. IsRun(units, u, a, z)
  BY <1>5, <1>7, <1>9, <1>10, <1>11 DEF IsRun
<1>13. PICK g : g = [from |-> a, to |-> z - 1]
  OBVIOUS
<1>14. g \in WonRanges(units, u)
  BY <1>12, <1>13, RangesAreRuns
<1>15. a <= day /\ day < z
  BY <1>4, <1>5, <1>7, <1>9
<1> QED BY <1>9, <1>13, <1>14, <1>15

\* A run has ended where a later one begins.
LEMMA RunsApart ==
  ASSUME NEW units, NEW n \in Nat, HeadsDated(units, n), NEW u, NEW a, NEW z, NEW c, NEW e,
         IsRun(units, u, a, z), IsRun(units, u, c, e), a < c
  PROVE  z <= c
<1>1. a \in Boundaries(units) /\ c \in Boundaries(units) /\ z \in Boundaries(units)
  BY DEF IsRun, Won
<1>2. PICK d \in Boundaries(units) : d < c /\ \A f \in Boundaries(units) : f < c => f <= d
  <2> DEFINE S == {d \in Boundaries(units) : d < c}
  <2>1. FiniteInts(S) /\ S # {}
    BY <1>1, BoundariesAreInts, FewerInts
  <2>2. PICK d \in S : \A f \in S : f <= d
    <3> HIDE DEF S
    <3> QED BY <2>1, GreatestInt
  <2> QED BY <2>2
<1>3. a \in Int /\ z \in Int /\ c \in Int /\ d \in Int
  BY <1>1, BoundariesOf
<1>4. d \notin Won(units, u)
  BY <1>2 DEF IsRun
<1>5. a <= d /\ a # d
  BY <1>1, <1>2, <1>4 DEF IsRun
<1>6. ~(d < z)
  BY <1>3, <1>4, <1>5 DEF IsRun
<1> QED BY <1>2, <1>3, <1>6

\* No date is in two of them.
LEMMA RangesAreApart ==
  ASSUME NEW units, NEW n \in Nat, HeadsDated(units, n), NEW u,
         NEW g \in WonRanges(units, u), NEW h \in WonRanges(units, u),
         NEW day \in Int, g.from <= day, day <= g.to, h.from <= day, day <= h.to
  PROVE  g = h
<1>1. PICK a, z : IsRun(units, u, a, z) /\ g = [from |-> a, to |-> z - 1]
  BY RangesAreRuns
<1>2. PICK c, e : IsRun(units, u, c, e) /\ h = [from |-> c, to |-> e - 1]
  BY RangesAreRuns
<1>3. a \in Int /\ z \in Int /\ c \in Int /\ e \in Int
  BY <1>1, <1>2, BoundariesOf DEF IsRun, Won
<1>4. a <= day /\ day < z /\ c <= day /\ day < e
  BY <1>1, <1>2, <1>3
<1>5. a = c
  <2>1. a < c => z <= c
    BY <1>1, <1>2, RunsApart
  <2>2. c < a => e <= a
    BY <1>1, <1>2, RunsApart
  <2> QED BY <1>3, <1>4, <2>1, <2>2
<1>6. z = e
  <2>1. ~(z < e)
    BY <1>1, <1>2, <1>3, <1>5 DEF IsRun
  <2>2. ~(e < z)
    BY <1>1, <1>2, <1>3, <1>5 DEF IsRun
  <2> QED BY <1>3, <2>1, <2>2
<1> QED BY <1>1, <1>2, <1>5, <1>6

\* A unit has finitely many ranges, of dates.
LEMMA RangesAreFinite ==
  ASSUME NEW units, NEW n \in Nat, HeadsDated(units, n), NEW u
  PROVE  /\ IsFiniteSet(WonRanges(units, u))
         /\ \A g \in WonRanges(units, u) : g.from \in Int /\ g.to \in Int
<1> DEFINE pairs == Boundaries(units) \X Boundaries(units)
           all == {[from |-> p[1], to |-> p[2] - 1] : p \in pairs}
<1>1. IsFiniteSet(pairs)
  BY BoundariesAreInts, FS_Product DEF FiniteInts
<1> DEFINE f == [p \in pairs |-> [from |-> p[1], to |-> p[2] - 1]]
<1>2. IsFiniteSet(all)
  <2>1. f \in Surjection(pairs, all)
    <3> HIDE DEF pairs
    <3> QED BY DEF Surjection
  <2> HIDE DEF f, pairs, all
  <2> QED BY <1>1, <2>1, FS_Surjection
<1>3. ASSUME NEW g \in WonRanges(units, u) PROVE g \in all /\ g.from \in Int /\ g.to \in Int
  <2>1. PICK a, z : IsRun(units, u, a, z) /\ g = [from |-> a, to |-> z - 1]
    BY RangesAreRuns
  <2>2. a \in Boundaries(units) /\ z \in Boundaries(units) /\ a \in Int /\ z \in Int
    BY <2>1, BoundariesOf DEF IsRun, Won
  <2>3. <<a, z>> \in pairs /\ g = [from |-> <<a, z>>[1], to |-> <<a, z>>[2] - 1]
    BY <2>1, <2>2
  <2>4. g \in all
    BY <2>3
  <2> QED BY <2>1, <2>2, <2>4
<1> HIDE DEF all
<1> QED BY <1>2, <1>3, FS_Subset

--------------------------------------------------------------------------------
(***************************************************************************)
(* Units of side-by-side versions.                                         *)
(***************************************************************************)
Member(units, u, j) == u \in DOMAIN units /\ j \in DOMAIN units[u]

\* A version is put into a unit of its own or at the end of one it fits.
IsGrown(units, grown, v, u0, j0) ==
  /\ \A u, j : Member(grown, u, j) <=> Member(units, u, j) \/ (u = u0 /\ j = j0)
  /\ \A u, j : Member(units, u, j) => grown[u][j] = units[u][j]
  /\ grown[u0][j0] = v
  /\ ~Member(units, u0, j0)
  /\ \/ j0 = 1 /\ \A j : ~Member(units, u0, j)
     \/ /\ j0 # 1 /\ Member(units, u0, 1)
        /\ SideBySide(units[u0][1], v)
        /\ \A j : Member(units, u0, j) => units[u0][j].days \cap v.days = {}

\* No unit is empty; a sequence is longer by one, or differs in one place.
NoneEmpty(units) == \A u \in DOMAIN units : units[u] # <<>>

IsAppended(t, s, e) ==
  /\ t = Append(s, e)
  /\ DOMAIN t = 1 .. (Len(s) + 1) /\ t[Len(s) + 1] = e
  /\ \A i \in 1 .. Len(s) : t[i] = s[i]

IsReplaced(t, s, k, e) ==
  /\ t = [s EXCEPT ![k] = e]
  /\ DOMAIN t = 1 .. Len(s) /\ t[k] = e
  /\ \A i \in 1 .. Len(s) : i # k => t[i] = s[i]

\* Append on a sequence, and EXCEPT in one place, element by element.
LEMMA Appended ==
  ASSUME NEW S, NEW s \in Seq(S), NEW e \in S
  PROVE  \E t \in Seq(S) : IsAppended(t, s, e)
<1>1. PICK t \in Seq(S) : t = Append(s, e)
  BY AppendProperties
<1>2. /\ Len(t) = Len(s) + 1 /\ t[Len(s) + 1] = e
      /\ \A i \in 1 .. Len(s) : t[i] = s[i]
  BY <1>1, AppendProperties
<1>3. DOMAIN t = 1 .. Len(t)
  BY LenProperties
<1> QED BY <1>1, <1>2, <1>3 DEF IsAppended

LEMMA Replaced ==
  ASSUME NEW S, NEW s \in Seq(S), NEW k \in 1 .. Len(s), NEW e \in S
  PROVE  \E t \in Seq(S) : IsReplaced(t, s, k, e)
<1>1. PICK t \in Seq(S) : t = [s EXCEPT ![k] = e]
  BY ExceptSeq
<1>2. Len(t) = Len(s) /\ \A i \in 1 .. Len(s) : t[i] = IF i = k THEN e ELSE s[i]
  BY <1>1, ExceptSeq
<1>3. DOMAIN t = 1 .. Len(t)
  BY LenProperties
<1> QED BY <1>1, <1>2, <1>3 DEF IsReplaced

\* JoinUnits puts a version into the first unit it fits, or into one of its own.
LEMMA JoinGrows ==
  ASSUME NEW R, NEW S, S = Seq(R), NEW units \in Seq(S), NoneEmpty(units), NEW v \in R
  PROVE  /\ JoinUnits(units, v) \in Seq(S) /\ NoneEmpty(JoinUnits(units, v))
         /\ \E u0, j0 : IsGrown(units, JoinUnits(units, v), v, u0, j0)
<1> DEFINE partners == {i \in DOMAIN units : /\ SideBySide(units[i][1], v)
                                             /\ UnitDays(units[i]) \cap v.days = {}}
<1>n. PICK n : n = Len(units)
  OBVIOUS
<1>0. \A i \in 1 .. n : units[i] \in S
  BY <1>n
<1>1. /\ n \in Nat /\ DOMAIN units = 1 .. n
      /\ <<v>> \in Seq(R) /\ <<v>>[1] = v /\ DOMAIN <<v>> = {1} /\ <<v>> # <<>>
  BY <1>n
<1>2. CASE partners = {}
  <2>1. JoinUnits(units, v) = Append(units, <<v>>)
    BY <1>2 DEF JoinUnits
  <2>2. PICK alone \in Seq(R) : alone = <<v>> /\ alone[1] = v /\ DOMAIN alone = {1} /\ alone # <<>>
    BY <1>1
  <2>3. alone \in S
    BY <2>2
  <2>4. PICK grown \in Seq(S) : /\ grown = Append(units, alone)
                                /\ DOMAIN grown = 1 .. (n + 1) /\ grown[n + 1] = alone
                                /\ \A i \in 1 .. n : grown[i] = units[i]
    <3>1. PICK t \in Seq(S) : IsAppended(t, units, alone)
      BY <2>3, Appended
    <3> QED BY <1>n, <3>1 DEF IsAppended
  <2>5. NoneEmpty(grown)
    BY <1>1, <2>2, <2>4 DEF NoneEmpty
  <2>6. IsGrown(units, grown, v, n + 1, 1)
    <3>1. \A u, j : Member(grown, u, j) <=> Member(units, u, j) \/ (u = n + 1 /\ j = 1)
      BY <1>1, <2>2, <2>4 DEF Member
    <3>2. \A j : ~Member(units, n + 1, j)
      BY <1>1 DEF Member
    <3>3. \A u, j : Member(units, u, j) => grown[u][j] = units[u][j]
      BY <1>1, <2>4 DEF Member
    <3> QED BY <2>2, <2>4, <3>1, <3>2, <3>3 DEF IsGrown
  <2> QED BY <2>1, <2>2, <2>4, <2>5, <2>6, Zenon
<1>3. CASE partners # {}
  <2>1. PICK k : k = CHOOSE i \in partners : \A j \in partners : i <= j
    OBVIOUS
  <2>2. k \in partners
    <3>1. \E i \in partners : \A j \in partners : i <= j
      <4>1. partners \subseteq Nat
        BY <1>1
      <4> HIDE DEF partners
      <4> QED BY <1>3, <4>1, LeastNat
    <3> HIDE DEF partners
    <3> QED BY <2>1, <3>1
  <2>3. k \in 1 .. n /\ SideBySide(units[k][1], v) /\ UnitDays(units[k]) \cap v.days = {}
    BY <1>1, <2>2
  <2>4. JoinUnits(units, v) = [units EXCEPT ![k] = Append(units[k], v)]
    BY <1>3, <2>1 DEF JoinUnits
  <2>5. units[k] \in Seq(R) /\ units[k] # <<>>
    BY <1>0, <1>1, <2>3 DEF NoneEmpty
  <2>6. PICK old \in Seq(R) : old = units[k] /\ old # <<>>
    BY <2>5
  <2>7. PICK m \in Nat : m = Len(old) /\ m # 0 /\ DOMAIN old = 1 .. m
    BY <2>6
  <2>8. PICK longer \in Seq(R) : /\ longer = Append(old, v)
                                 /\ DOMAIN longer = 1 .. (m + 1) /\ longer[m + 1] = v
                                 /\ \A i \in 1 .. m : longer[i] = old[i]
    <3>1. PICK t \in Seq(R) : IsAppended(t, old, v)
      BY Appended
    <3> QED BY <2>7, <3>1 DEF IsAppended
  <2>9. longer \in S
    BY <2>8
  <2>10. PICK grown \in Seq(S) : /\ grown = [units EXCEPT ![k] = longer]
                                 /\ DOMAIN grown = 1 .. n /\ grown[k] = longer
                                 /\ \A i \in 1 .. n : i # k => grown[i] = units[i]
    <3>1. k \in 1 .. Len(units)
      BY <1>n, <2>3
    <3>2. PICK t \in Seq(S) : IsReplaced(t, units, k, longer)
      BY <3>1, <2>9, Replaced
    <3> QED BY <1>n, <3>2 DEF IsReplaced
  <2>11. NoneEmpty(grown)
    <3>1. longer # <<>>
      BY <2>7, <2>8
    <3> QED BY <1>1, <2>10, <3>1 DEF NoneEmpty
  <2>12. IsGrown(units, grown, v, k, m + 1)
    <3>1. \A u, j : Member(units, u, j) <=> u \in 1 .. n /\ j \in DOMAIN units[u]
      BY <1>1 DEF Member
    <3>2. \A u, j : Member(grown, u, j) <=> u \in 1 .. n /\ j \in DOMAIN grown[u]
      BY <2>10 DEF Member
    <3>3. m + 1 \notin 1 .. m /\ 1 \in 1 .. m /\ m + 1 # 1 /\ 1 .. (m + 1) = (1 .. m) \cup {m + 1}
      BY <2>7
    <3>4. \A u, j : Member(grown, u, j) <=> Member(units, u, j) \/ (u = k /\ j = m + 1)
      <4>1. DOMAIN grown[k] = DOMAIN units[k] \cup {m + 1}
        BY <2>6, <2>7, <2>8, <2>10, <3>3
      <4>2. \A u \in 1 .. n : u # k => DOMAIN grown[u] = DOMAIN units[u]
        BY <2>10
      <4> QED BY <2>3, <3>1, <3>2, <4>1, <4>2
    <3>5. \A u, j : Member(units, u, j) => grown[u][j] = units[u][j]
      BY <2>6, <2>7, <2>8, <2>10, <3>1
    <3>6. ~Member(units, k, m + 1) /\ Member(units, k, 1) /\ grown[k][m + 1] = v
      BY <2>3, <2>6, <2>7, <2>8, <2>10, <3>1, <3>3
    <3>7. ASSUME NEW j, Member(units, k, j) PROVE units[k][j].days \cap v.days = {}
      BY <2>3, <3>7 DEF UnitDays, Member
    <3> QED BY <2>3, <3>3, <3>4, <3>5, <3>6, <3>7 DEF IsGrown
  <2>13. JoinUnits(units, v) = grown
    BY <2>4, <2>6, <2>8, <2>10
  <2> QED BY <2>11, <2>12, <2>13
<1> QED BY <1>2, <1>3

\* Versions in the order they join.
Listing(versions, n) ==
  /\ versions \in Seq({versions[i] : i \in 1 .. n}) /\ DOMAIN versions = 1 .. n
  /\ \A i, j \in 1 .. n : i # j => versions[i] # versions[j]
  /\ \A i \in 1 .. n : versions[i].dist \in Int
  /\ \A i, j \in 1 .. n : i < j => versions[i].dist <= versions[j].dist

\* The units of the first k versions.
AreUnits(units, versions, k) ==
  /\ NoneEmpty(units)
  /\ \A i \in 1 .. k : \E u, j : Member(units, u, j) /\ units[u][j] = versions[i]
  /\ \A u, j : Member(units, u, j) => \E i \in 1 .. k : units[u][j] = versions[i]
  /\ \A u, j, x, y : Member(units, u, j) /\ Member(units, x, y) /\ units[u][j] = units[x][y] =>
       u = x /\ j = y
  /\ \A u, j : Member(units, u, j) => /\ SideBySide(units[u][1], units[u][j])
                                      /\ units[u][1].dist <= units[u][j].dist
  /\ \A u, j, y : Member(units, u, j) /\ Member(units, u, y) /\ j # y =>
       units[u][j].days \cap units[u][y].days = {}

\* What the units are like is kept when one more version joins.
LEMMA UnitsGrow ==
  ASSUME NEW n \in Nat, NEW versions, Listing(versions, n), NEW k \in 0 .. (n - 1), NEW units, NEW grown,
         AreUnits(units, versions, k), NoneEmpty(grown),
         NEW u0, NEW j0, IsGrown(units, grown, versions[k + 1], u0, j0),
         \A u \in DOMAIN grown : Member(grown, u, 1)
  PROVE  AreUnits(grown, versions, k + 1)
<1> DEFINE v == versions[k + 1]
<1>1. /\ 1 .. (k + 1) = (1 .. k) \cup {k + 1} /\ k + 1 \in 1 .. n
      /\ \A i \in 1 .. k : versions[i] # v /\ versions[i].dist <= v.dist
  BY DEF Listing
<1>2. v.dist \in Int
  BY <1>1 DEF Listing
<1> HIDE DEF v
<1>3. /\ \A u, j : Member(grown, u, j) <=> Member(units, u, j) \/ (u = u0 /\ j = j0)
      /\ \A u, j : Member(units, u, j) => grown[u][j] = units[u][j]
      /\ grown[u0][j0] = v
      /\ ~Member(units, u0, j0)
  BY DEF IsGrown, v
<1>4. \A u, j : Member(units, u, j) => /\ units[u][j] # v /\ units[u][j].dist <= v.dist
                                       /\ \E i \in 1 .. k : units[u][j] = versions[i]
  BY <1>1 DEF AreUnits
<1>5. \A i \in 1 .. (k + 1) : \E u, j : Member(grown, u, j) /\ grown[u][j] = versions[i]
  <2>1. ASSUME NEW i \in 1 .. k PROVE \E u, j : Member(grown, u, j) /\ grown[u][j] = versions[i]
    <3>1. PICK u, j : Member(units, u, j) /\ units[u][j] = versions[i]
      BY DEF AreUnits
    <3> QED BY <1>3, <3>1
  <2>2. \E u, j : Member(grown, u, j) /\ grown[u][j] = v
    BY <1>3
  <2> QED BY <1>1, <2>1, <2>2 DEF v
<1>6. \A u, j : Member(grown, u, j) => \E i \in 1 .. (k + 1) : grown[u][j] = versions[i]
  BY <1>1, <1>3, <1>4 DEF v
<1>7. ASSUME NEW u, NEW j, NEW x, NEW y, Member(grown, u, j), Member(grown, x, y), grown[u][j] = grown[x][y]
      PROVE  u = x /\ j = y
  <2>1. CASE Member(units, u, j) /\ Member(units, x, y)
    BY <1>3, <1>7, <2>1 DEF AreUnits
  <2>2. CASE ~(Member(units, u, j) /\ Member(units, x, y))
    BY <1>3, <1>4, <1>7, <2>2
  <2> QED BY <2>1, <2>2
<1>8. ASSUME NEW u, NEW j, Member(grown, u, j)
      PROVE  SideBySide(grown[u][1], grown[u][j]) /\ grown[u][1].dist <= grown[u][j].dist
  <2>1. CASE Member(units, u, j)
    <3>1. Member(units, u, 1)
      BY <1>3, <1>8, <2>1 DEF Member, IsGrown
    <3> QED BY <1>3, <2>1, <3>1 DEF AreUnits
  <2>2. CASE u = u0 /\ j = j0 /\ j0 = 1
    BY <1>2, <1>3, <2>2 DEF SideBySide
  <2>3. CASE u = u0 /\ j = j0 /\ j0 # 1
    BY <1>3, <1>4, <2>3 DEF IsGrown, v
  <2> QED BY <1>3, <1>8, <2>1, <2>2, <2>3
<1>9. ASSUME NEW u, NEW j, NEW y, Member(grown, u, j), Member(grown, u, y), j # y
      PROVE  grown[u][j].days \cap grown[u][y].days = {}
  <2>1. CASE Member(units, u, j) /\ Member(units, u, y)
    BY <1>3, <1>9, <2>1 DEF AreUnits
  <2>2. ASSUME NEW m, Member(units, u0, m) PROVE grown[u0][m].days \cap v.days = {}
    BY <1>3, <2>2 DEF IsGrown, v
  <2> QED BY <1>3, <1>9, <2>1, <2>2
<1> QED BY <1>5, <1>6, <1>7, <1>8, <1>9 DEF AreUnits

\* A unit that is not empty has a head.
LEMMA FirstMember ==
  ASSUME NEW S, NEW units \in Seq(Seq(S)), NoneEmpty(units)
  PROVE  \A u \in DOMAIN units : Member(units, u, 1)
<1>1. ASSUME NEW u \in DOMAIN units PROVE 1 \in DOMAIN units[u]
  <2>1. units[u] \in Seq(S) /\ units[u] # <<>>
    BY DEF NoneEmpty
  <2> QED BY <2>1
<1> QED BY <1>1 DEF Member

\* The units of a listing, by an induction along it.
LEMMA UnitsOfListing ==
  ASSUME NEW n \in Nat, NEW versions, Listing(versions, n)
  PROVE  /\ AreUnits(Units(versions), versions, n)
         /\ Units(versions) \in Seq(Seq({versions[i] : i \in 1 .. n}))
<1> DEFINE R == {versions[i] : i \in 1 .. n}
           V == {units \in Seq(Seq(R)) : NoneEmpty(units)}
           Stepped(g, s) == IF s = {} THEN <<>> ELSE JoinUnits(g[s \ {Max(s)}], versions[Max(s)])
           It == CHOOSE g : g = [s \in SUBSET (1 .. n) |-> Stepped(g, s)]
           step == [p \in V \X (1 .. n) |-> JoinUnits(p[1], versions[p[2]])]
           h == FoldOn(<<>>, step, 1 .. n)
<1>1. DOMAIN versions = 1 .. n /\ \A i \in 1 .. n : versions[i] \in R
  BY DEF Listing
<1>2. Units(versions) = It[1 .. n]
  <2>1. Units(versions) =
          (CHOOSE g : g = [s \in SUBSET DOMAIN versions |->
             IF s = {} THEN <<>> ELSE JoinUnits(g[s \ {Max(s)}], versions[Max(s)])])[DOMAIN versions]
    BY DEF Units, FoldLeft, MapThenFoldSet
  <2> QED BY <1>1, <2>1
<1>3. \A s \in SUBSET (1 .. n) : s # {} => Max(s) \in 1 .. n /\ Max(s) \in s
  <2>1. IsFiniteSet(1 .. n) /\ 1 .. n \subseteq Int
    BY FS_Interval
  <2> QED BY <2>1, MaxWithin
<1>4. <<>> \in V
  BY DEF NoneEmpty
<1>5. ASSUME NEW units \in V, NEW i \in 1 .. n
      PROVE  /\ JoinUnits(units, versions[i]) \in V
             /\ \E u0, j0 : IsGrown(units, JoinUnits(units, versions[i]), versions[i], u0, j0)
  <2>1. PICK v \in R : v = versions[i]
    BY <1>1
  <2>2. PICK S : S = Seq(R)
    OBVIOUS
  <2>3. units \in Seq(S) /\ NoneEmpty(units)
    BY <2>2
  <2> HIDE DEF R
  <2>4. /\ JoinUnits(units, v) \in Seq(S) /\ NoneEmpty(JoinUnits(units, v))
        /\ \E u0, j0 : IsGrown(units, JoinUnits(units, v), v, u0, j0)
    BY <2>2, <2>3, JoinGrows
  <2> QED BY <2>1, <2>2, <2>4
<1>6. IsFoldOn(h, <<>>, step, 1 .. n) /\ h \in [SUBSET (1 .. n) -> V]
  <2>1. step \in [V \X (1 .. n) -> V]
    <3> HIDE DEF V
    <3> QED BY <1>5
  <2> HIDE DEF step, V
  <2> QED BY <1>4, <2>1, FoldTyped
<1> HIDE DEF R, V
<1>7. \A s \in SUBSET (1 .. n) : h[s] = Stepped(h, s)
  <2> HIDE DEF h
  <2>1. ASSUME NEW s \in SUBSET (1 .. n), s # {}
        PROVE  h[s] = JoinUnits(h[s \ {Max(s)}], versions[Max(s)])
    <3>1. h[s] = step[<<h[s \ {Max(s)}], Max(s)>>]
      <4>1. h[s] = FoldStep(h, <<>>, step, s)
        <5> HIDE DEF step
        <5> QED BY <1>6, FoldAt
      <4> HIDE DEF step
      <4> QED BY <2>1, <4>1 DEF FoldStep
    <3>2. h[s \ {Max(s)}] \in V /\ Max(s) \in 1 .. n
      BY <1>3, <1>6, <2>1
    <3> QED BY <3>1, <3>2
  <2>2. h[{}] = <<>>
    <3>1. h[{}] = FoldStep(h, <<>>, step, {})
      <4> HIDE DEF step
      <4> QED BY <1>6, FoldAt
    <3> HIDE DEF step
    <3> QED BY <3>1 DEF FoldStep
  <2> QED BY <2>1, <2>2
<1>8. h = [s \in SUBSET (1 .. n) |-> Stepped(h, s)]
  <2>1. h = [s \in SUBSET (1 .. n) |-> h[s]]
    <3> HIDE DEF h
    <3> QED BY <1>6
  <2> HIDE DEF h, Stepped
  <2> QED BY <1>7, <2>1
<1>9. It = [s \in SUBSET (1 .. n) |-> Stepped(It, s)]
  <2> HIDE DEF h, Stepped
  <2> QED BY <1>8
<1>10. PICK g : g = It
  OBVIOUS
<1> HIDE DEF It, h, step
<1>11. ASSUME NEW k \in 1 .. n PROVE g[1 .. k] = JoinUnits(g[1 .. (k - 1)], versions[k])
  <2>0. k \in Nat /\ k # 0 /\ 1 .. k # {} /\ 1 .. k \in SUBSET (1 .. n) /\ (1 .. k) \ {k} = 1 .. (k - 1)
    OBVIOUS
  <2>1. Max(1 .. k) = k
    <3> HIDE DEF Stepped
    <3> QED BY <2>0, MaxOfPrefix
  <2>2. g[1 .. k] = Stepped(g, 1 .. k)
    <3> HIDE DEF Stepped
    <3> QED BY <1>9, <1>10, <2>0
  <2> QED BY <2>0, <2>1, <2>2
<1>12. g[1 .. 0] = <<>>
  <2>1. 1 .. 0 = {} /\ 1 .. 0 \in SUBSET (1 .. n)
    OBVIOUS
  <2>2. g[{}] = Stepped(g, {})
    <3> HIDE DEF Stepped
    <3> QED BY <1>9, <1>10, <2>1
  <2> QED BY <2>1, <2>2
<1> DEFINE S == {k \in 0 .. n : g[1 .. k] \in V /\ AreUnits(g[1 .. k], versions, k)}
<1>13. 0 \in S
  <2>1. \A u, j : ~Member(<<>>, u, j)
    BY DEF Member
  <2>2. AreUnits(<<>>, versions, 0)
    BY <2>1 DEF AreUnits, NoneEmpty
  <2> QED BY <1>4, <1>12, <2>2
<1>14. ASSUME NEW k \in 0 .. (n - 1), k \in S PROVE k + 1 \in S
  <2>1. k + 1 \in 1 .. n /\ (k + 1) - 1 = k
    OBVIOUS
  <2>2. PICK units, grown : units = g[1 .. k] /\ grown = g[1 .. (k + 1)]
    OBVIOUS
  <2>3. units \in V /\ AreUnits(units, versions, k)
    BY <1>14, <2>2
  <2>4. grown = JoinUnits(units, versions[k + 1])
    BY <1>11, <2>1, <2>2
  <2>5. grown \in V
    BY <1>5, <2>1, <2>3, <2>4
  <2>6. PICK u0, j0 : IsGrown(units, grown, versions[k + 1], u0, j0)
    BY <1>5, <2>1, <2>3, <2>4
  <2>7. NoneEmpty(grown) /\ \A u \in DOMAIN grown : Member(grown, u, 1)
    <3>1. grown \in Seq(Seq(R)) /\ NoneEmpty(grown)
      BY <2>5 DEF V
    <3> QED BY <3>1, FirstMember
  <2>8. AreUnits(grown, versions, k + 1)
    BY <2>3, <2>6, <2>7, UnitsGrow
  <2> QED BY <2>1, <2>2, <2>5, <2>8
<1>15. n \in S
  <2> HIDE DEF S
  <2>1. \A k \in 0 .. n : k \in S
    BY <1>13, <1>14, UpTo
  <2> QED BY <2>1
<1> QED BY <1>2, <1>10, <1>15 DEF V, R

--------------------------------------------------------------------------------
(***************************************************************************)
(* The division of the dates between the versions.                         *)
(***************************************************************************)
\* The batches by number, and the version of each as it was added.
Numbers == DOMAIN input
OriginalOf(i) == [dist |-> i, from |-> input[i][1].from, to |-> input[i][1].to, of |-> input[i][1]]

\* The account Decide gives of the i-th version.
Account(i) ==
  LET v == input[i][1]
  IN [dist |-> i, from |-> v.from, to |-> v.to, detour |-> v.detour,
      pubFrom |-> PublishedOf(v).from, pubTo |-> PublishedOf(v).to,
      created |-> CreatedOf(v), days |-> DayClassMask(v.trips), route |-> OriginalOf(i)]

\* All of them, by distinction.
Accounts == [i \in Numbers |-> Account(i)]

\* The versions are divided into units.
Divided(groups) ==
  /\ AreUnits(groups, Accounts, Len(input))
  /\ \E m \in Nat : HeadsDated(groups, m)
  /\ \A u \in DOMAIN groups : Member(groups, u, 1)

\* Unit u holds the i-th version.
Holds(groups, u, i) == \E j : Member(groups, u, j) /\ groups[u][j] = Account(i)

\* An account is of the version's own fields: it was published as it is valid.
LEMMA AccountFields ==
  ASSUME IsRegistry(input), NEW i \in Numbers
  PROVE  /\ Account(i).dist = i /\ i \in Int
         /\ Account(i).from = input[i][1].from /\ Account(i).from \in Int
         /\ Account(i).to = input[i][1].to /\ Account(i).to \in Int
         /\ Account(i).detour = input[i][1].detour
         /\ Account(i).pubFrom = input[i][1].from /\ Account(i).pubTo = input[i][1].to
         /\ Account(i).created = input[i][1].batch /\ Account(i).created \in Int
         /\ Account(i).days = DayClassMask(input[i][1].trips) /\ Account(i).route = OriginalOf(i)
         /\ input[i][1].source = NoSource
         /\ Accounts[i] = Account(i)
<1>1. PICK v : /\ input[i] = <<v>> /\ v.source = NoSource
               /\ v.from \in Int /\ v.to \in Int /\ v.batch \in Int
  BY DEF IsRegistry, Numbers
<1>2. input[i][1] = v
  BY <1>1
<1>3. PublishedOf(v).from = v.from /\ PublishedOf(v).to = v.to /\ CreatedOf(v) = v.batch
  BY <1>1 DEF PublishedOf, CreatedOf
<1>4. i \in Int
  BY DEF IsRegistry, Numbers
<1>5. PICK f, t : f = PublishedOf(v).from /\ t = PublishedOf(v).to
  OBVIOUS
<1>6. Account(i) = [dist |-> i, from |-> v.from, to |-> v.to, detour |-> v.detour,
      pubFrom |-> f, pubTo |-> t,
      created |-> CreatedOf(v), days |-> DayClassMask(v.trips), route |-> OriginalOf(i)]
  BY <1>2, <1>5 DEF Account
<1>7. Accounts[i] = Account(i)
  BY DEF Accounts
<1> QED BY <1>1, <1>2, <1>3, <1>4, <1>5, <1>6, <1>7

\* A version as added, field by field.
LEMMA OriginalFields ==
  ASSUME NEW i
  PROVE  /\ OriginalOf(i).dist = i /\ OriginalOf(i).of = input[i][1]
         /\ OriginalOf(i).from = input[i][1].from /\ OriginalOf(i).to = input[i][1].to
  BY DEF OriginalOf

\* The batches are numbered from 1.
LEMMA NumbersAre ==
  ASSUME IsRegistry(input)
  PROVE  Len(input) \in Nat /\ Numbers = 1 .. Len(input)
  BY DEF IsRegistry, Numbers

\* Every version is in one unit, and a unit holds nothing else.
LEMMA EachIsHeld ==
  ASSUME IsRegistry(input), NEW groups, Divided(groups), NEW i \in Numbers
  PROVE  \E u \in DOMAIN groups : Holds(groups, u, i)
<1>1. PICK u, j : Member(groups, u, j) /\ groups[u][j] = Accounts[i]
  BY NumbersAre DEF Divided, AreUnits
<1> QED BY <1>1, AccountFields DEF Holds, Member

\* No version is in two units.
LEMMA HeldOnce ==
  ASSUME IsRegistry(input), NEW groups, Divided(groups), NEW i, NEW u, NEW x,
         Holds(groups, u, i), Holds(groups, x, i)
  PROVE  u = x
<1>1. PICK j : Member(groups, u, j) /\ groups[u][j] = Account(i)
  BY DEF Holds
<1>2. PICK y : Member(groups, x, y) /\ groups[x][y] = Account(i)
  BY DEF Holds
<1> QED BY <1>1, <1>2 DEF Divided, AreUnits

\* The head of a unit is one of the versions.
LEMMA HeadOf ==
  ASSUME IsRegistry(input), NEW groups, Divided(groups), NEW u \in DOMAIN groups
  PROVE  \E h \in Numbers : groups[u][1] = Account(h) /\ Holds(groups, u, h)
<1>1. Member(groups, u, 1)
  BY DEF Divided
<1>2. PICK h \in Numbers : groups[u][1] = Accounts[h]
  BY <1>1, NumbersAre DEF Divided, AreUnits
<1> QED BY <1>1, <1>2, AccountFields DEF Holds

\* A member fits the head of its unit, and was not listed before it.
LEMMA HeldWithTheHead ==
  ASSUME IsRegistry(input), NEW groups, Divided(groups), NEW u, NEW i, Holds(groups, u, i)
  PROVE  /\ u \in DOMAIN groups /\ SideBySide(groups[u][1], Account(i))
         /\ groups[u][1].dist <= Account(i).dist
<1>1. PICK j : Member(groups, u, j) /\ groups[u][j] = Account(i)
  BY DEF Holds
<1>2. SideBySide(groups[u][1], groups[u][j]) /\ groups[u][1].dist <= groups[u][j].dist
  BY <1>1 DEF Divided, AreUnits
<1> QED BY <1>1, <1>2 DEF Member

\* Two members of a unit have one validity and no day class in common.
LEMMA HeldTogether ==
  ASSUME IsRegistry(input), NEW groups, Divided(groups), NEW u,
         NEW i \in Numbers, NEW k \in Numbers, i # k, Holds(groups, u, i), Holds(groups, u, k)
  PROVE  /\ input[i][1].from = input[k][1].from /\ input[i][1].to = input[k][1].to
         /\ input[i][1].detour = input[k][1].detour
         /\ DayClassMask(input[i][1].trips) \cap DayClassMask(input[k][1].trips) = {}
<1>1. PICK j : Member(groups, u, j) /\ groups[u][j] = Account(i)
  BY DEF Holds
<1>2. PICK y : Member(groups, u, y) /\ groups[u][y] = Account(k)
  BY DEF Holds
<1>3. j # y
  BY <1>1, <1>2, AccountFields
<1>4. groups[u][j].days \cap groups[u][y].days = {}
  BY <1>1, <1>2, <1>3 DEF Divided, AreUnits
<1>5. Account(i).days \cap Account(k).days = {}
  BY <1>1, <1>2, <1>4
<1>6. SideBySide(groups[u][1], Account(i)) /\ SideBySide(groups[u][1], Account(k))
  BY HeldWithTheHead
<1> QED BY <1>5, <1>6, AccountFields DEF SideBySide

\* On a date on which a version is valid, a unit wins that is valid on it.
LEMMA ValidHasWinner ==
  ASSUME IsRegistry(input), NEW groups, Divided(groups),
         NEW i \in Numbers, NEW day, ValidOn(input[i][1], day)
  PROVE  \E k \in Numbers : Holds(groups, Winner(groups, day), k)
<1>1. PICK m \in Nat : HeadsDated(groups, m)
  BY DEF Divided
<1>2. PICK u \in DOMAIN groups : Holds(groups, u, i)
  BY EachIsHeld
<1>3. SideBySide(groups[u][1], Account(i))
  BY <1>2, HeldWithTheHead
<1>4. ValidOn(groups[u][1], day)
  BY <1>3, AccountFields DEF SideBySide, ValidOn
<1>5. DOMAIN groups = 1 .. m
  BY <1>1 DEF HeadsDated
<1>6. Winner(groups, day) \in 1 .. m
  BY <1>4, <1>5, WinnerIsValid
<1> QED BY <1>5, <1>6, HeadOf

\* Every member of the unit that wins a date is valid on it.
LEMMA WinnerRuns ==
  ASSUME IsRegistry(input), NEW groups, Divided(groups), NEW i \in Numbers, NEW day,
         Holds(groups, Winner(groups, day), i)
  PROVE  ValidOn(input[i][1], day)
<1>1. PICK m \in Nat : HeadsDated(groups, m)
  BY DEF Divided
<1>2. DOMAIN groups = 1 .. m
  BY <1>1 DEF HeadsDated
<1>3. SideBySide(groups[Winner(groups, day)][1], Account(i)) /\ Winner(groups, day) \in 1 .. m
  BY <1>2, HeldWithTheHead
<1>4. ValidOn(groups[Winner(groups, day)][1], day)
  BY <1>2, <1>3, WinnerIsValid
<1> QED BY <1>3, <1>4, AccountFields DEF SideBySide, ValidOn

\* A version with priority on a date over all others valid on it is in the unit that wins it.
LEMMA PriorityIsHeld ==
  ASSUME IsRegistry(input), NEW groups, Divided(groups),
         NEW i \in Numbers, NEW day, ValidOn(input[i][1], day),
         \A k \in Numbers \ {i} : ValidOn(input[k][1], day) => Beats(Account(i), Account(k))
  PROVE  Holds(groups, Winner(groups, day), i)
<1>1. PICK m \in Nat : HeadsDated(groups, m)
  BY DEF Divided
<1>2. DOMAIN groups = 1 .. m
  BY <1>1 DEF HeadsDated
<1>3. PICK u \in DOMAIN groups : Holds(groups, u, i)
  BY EachIsHeld
<1>4. PICK h \in Numbers : groups[u][1] = Account(h) /\ Holds(groups, u, h)
  BY HeadOf
<1>5. SideBySide(Account(h), Account(i)) /\ Account(h).dist <= Account(i).dist
  BY <1>3, <1>4, HeldWithTheHead
<1>6. h = i
  <2>1. SUFFICES ASSUME h # i PROVE FALSE
    OBVIOUS
  <2>2. ValidOn(input[h][1], day)
    BY <1>5, AccountFields DEF SideBySide, ValidOn
  <2>3. Beats(Account(i), Account(h))
    BY <2>1, <2>2
  <2>4. ~HasPriority(Account(i), Account(h)) /\ ~HasPriority(Account(h), Account(i))
    BY <1>5, AccountFields DEF SideBySide, HasPriority, DetourPriority
  <2>5. Account(i).dist < Account(h).dist
    BY <1>5, <2>3, <2>4, AccountFields DEF SideBySide, Beats
  <2> QED BY <1>5, <2>5, AccountFields
<1>7. \A x \in 1 .. m : Comparable(groups[x][1])
  BY <1>2, HeadOf, AccountFields DEF Comparable
<1>8. ASSUME NEW x \in (1 .. m) \ {u}, ValidOn(groups[x][1], day)
      PROVE  Beats(groups[u][1], groups[x][1])
  <2>1. PICK k \in Numbers : groups[x][1] = Account(k) /\ Holds(groups, x, k)
    BY <1>2, HeadOf
  <2>2. k # i
    BY <1>3, <1>8, <2>1, HeldOnce
  <2>3. ValidOn(input[k][1], day)
    BY <1>8, <2>1, AccountFields DEF ValidOn
  <2> QED BY <1>4, <1>6, <2>1, <2>2, <2>3
<1>9. ValidOn(groups[u][1], day)
  BY <1>4, <1>6, AccountFields DEF ValidOn
<1>10. Winner(groups, day) = u
  BY <1>2, <1>3, <1>7, <1>8, <1>9, BestWins
<1> QED BY <1>3, <1>10

\* A set numbered from 1 to n has n members.
LEMMA Counted ==
  ASSUME NEW n \in Nat, NEW T, NEW f, f \in Bijection(1 .. n, T)
  PROVE  IsFiniteSet(T) /\ Cardinality(T) = n
<1>1. IsFiniteSet(1 .. n) /\ Cardinality(1 .. n) = n
  BY FS_Interval
<1>2. ExistsBijection(1 .. n, T)
  BY DEF ExistsBijection
<1> QED BY <1>1, <1>2, FS_Bijection

\* What Decide compares are the versions as they were added.
AddedAsIs ==
  /\ routes = {OriginalOf(i) : i \in 1 .. added}
  /\ IsFiniteSet(routes) /\ Cardinality(routes) = added

\* The account Decide gives of a version, read off the tables, is that of what was added.
LEMMA DescribedAsAdded ==
  ASSUME IsRegistry(input), KeysAgree, NEW i \in Numbers, OriginalOf(i) \in routes
  PROVE  Described(OriginalOf(i)) = Account(i)
<1>1. PICK r \in routes : r = OriginalOf(i)
  OBVIOUS
<1>2. r.dist = i /\ r.of = input[i][1] /\ r.from = input[i][1].from /\ r.to = input[i][1].to
  BY <1>1, OriginalFields
<1>3. /\ rows[i] = {r.of}
      /\ created[i] = CreatedOf(r.of)
      /\ published[i] = PublishedOf(r.of)
  BY <1>2 DEF KeysAgree
<1>4. DistinctionMask(i) = DayClassMask(r.of.trips)
  <2>1. UNION {DayClassMask(v.trips) : v \in {r.of}} = DayClassMask(r.of.trips)
    OBVIOUS
  <2> QED BY <1>3, <2>1 DEF DistinctionMask
<1>5. Described(r) = Account(i)
  BY <1>1, <1>2, <1>3, <1>4 DEF Described, Account
<1> QED BY <1>1, <1>5

\* A listing of all versions.
IsListed(versions, n) ==
  /\ Listing(versions, n)
  /\ \A i \in 1 .. n : \E k \in 1 .. n : versions[i] = Account(k)
  /\ \A k \in 1 .. n : \E i \in 1 .. n : versions[i] = Account(k)

\* What Decide passes on lists every version once.
LEMMA VersionsAreListed ==
  ASSUME IsRegistry(input), KeysAgree, AddedAsIs, added = Len(input)
  PROVE  IsListed(VersionsByDistinction, Len(input))
<1>1. PICK n \in Nat : n = Len(input) /\ Numbers = 1 .. n
  BY NumbersAre
<1>2. PICK all : all = {Described(r) : r \in routes}
  OBVIOUS
<1>3. all = {Account(i) : i \in 1 .. n}
  <2>1. ASSUME NEW i \in 1 .. n PROVE OriginalOf(i) \in routes /\ Described(OriginalOf(i)) = Account(i)
    <3>1. OriginalOf(i) \in routes
      BY <1>1 DEF AddedAsIs
    <3> QED BY <1>1, <3>1, DescribedAsAdded
  <2>2. routes = {OriginalOf(i) : i \in 1 .. n}
    BY <1>1 DEF AddedAsIs
  <2> QED BY <1>2, <2>1, <2>2
<1>4. \A i \in 1 .. n : Account(i) \in all /\ Account(i).dist = i
  BY <1>1, <1>3, AccountFields
<1>5. PICK own : own = [i \in 1 .. n |-> Account(i)]
  OBVIOUS
<1>6. IsFiniteSet(all) /\ Cardinality(all) = n
  <2>1. own \in [1 .. n -> all] /\ \A i, j \in 1 .. n : own[i] = own[j] => i = j
    BY <1>4, <1>5
  <2>2. \A e \in all : \E i \in 1 .. n : own[i] = e
    BY <1>3, <1>5
  <2>3. own \in Bijection(1 .. n, all)
    BY <2>1, <2>2 DEF Bijection, Injection, Surjection, IsInjective
  <2> QED BY <2>3, Counted
<1>7. own \in SetToSeqs(all) /\ \A i, j \in DOMAIN own : i < j => own[i].dist <= own[j].dist
  <2>1. own \in [1 .. n -> all] /\ \A i, j \in 1 .. n : i # j => own[i] # own[j]
    BY <1>4, <1>5
  <2>2. \A i, j \in DOMAIN own : i < j => own[i].dist <= own[j].dist
    BY <1>4, <1>5
  <2> QED BY <1>6, <2>1, <2>2 DEF SetToSeqs
<1>8. PICK versions : versions = VersionsByDistinction
  OBVIOUS
<1>9. /\ versions \in SetToSeqs(all)
      /\ \A i, j \in DOMAIN versions : i < j => versions[i].dist <= versions[j].dist
  BY <1>2, <1>7, <1>8 DEF VersionsByDistinction
<1>10. versions \in [1 .. n -> all] /\ \A i, j \in 1 .. n : i # j => versions[i] # versions[j]
  BY <1>6, <1>9 DEF SetToSeqs
<1>11. \A i \in 1 .. n : \E k \in 1 .. n : versions[i] = Account(k)
  BY <1>3, <1>10
<1>12. {versions[i] : i \in 1 .. n} = all
  <2>1. PICK seen : seen = {versions[i] : i \in 1 .. n}
    OBVIOUS
  <2>2. versions \in Bijection(1 .. n, seen)
    BY <1>10, <2>1 DEF Bijection, Injection, Surjection, IsInjective
  <2>4. Cardinality(seen) = n
    BY <2>2, Counted
  <2>5. seen \subseteq all
    BY <1>10, <2>1
  <2> QED BY <1>6, <2>1, <2>4, <2>5, FS_Subset
<1>13. \A k \in 1 .. n : \E i \in 1 .. n : versions[i] = Account(k)
  BY <1>3, <1>12
<1>14. Listing(versions, n)
  <2>1. versions \in Seq({versions[i] : i \in 1 .. n})
    BY <1>10, <1>12
  <2>2. \A i \in 1 .. n : versions[i].dist \in Int
    BY <1>1, <1>11, AccountFields
  <2> QED BY <1>9, <1>10, <2>1, <2>2 DEF Listing
<1> QED BY <1>1, <1>8, <1>11, <1>13, <1>14 DEF IsListed

\* The units of a listing divide the versions.
LEMMA UnitsDivide ==
  ASSUME IsRegistry(input), NEW versions, IsListed(versions, Len(input))
  PROVE  Divided(Units(versions))
<1>1. PICK n \in Nat : n = Len(input) /\ Numbers = 1 .. n
  BY NumbersAre
<1>2. PICK units : units = Units(versions)
  OBVIOUS
<1>3. Listing(versions, n)
  BY <1>1 DEF IsListed
<1>4. AreUnits(units, versions, n) /\ units \in Seq(Seq({versions[i] : i \in 1 .. n}))
  BY <1>2, <1>3, UnitsOfListing
<1>5. /\ \A i \in 1 .. n : \E k \in 1 .. n : versions[i] = Accounts[k]
      /\ \A k \in 1 .. n : \E i \in 1 .. n : versions[i] = Accounts[k]
  <2>1. \A k \in 1 .. n : Accounts[k] = Account(k)
    BY <1>1 DEF Accounts
  <2>2. /\ \A i \in 1 .. n : \E k \in 1 .. n : versions[i] = Account(k)
        /\ \A k \in 1 .. n : \E i \in 1 .. n : versions[i] = Account(k)
    BY <1>1 DEF IsListed
  <2>3. ASSUME NEW i \in 1 .. n PROVE \E k \in 1 .. n : versions[i] = Accounts[k]
    BY <2>1, <2>2
  <2>4. ASSUME NEW k \in 1 .. n PROVE \E i \in 1 .. n : versions[i] = Accounts[k]
    BY <2>1, <2>2
  <2> QED BY <2>3, <2>4
<1>6. AreUnits(units, Accounts, n)
  <2>1. ASSUME NEW k \in 1 .. n PROVE \E u, j : Member(units, u, j) /\ units[u][j] = Accounts[k]
    <3>1. PICK i \in 1 .. n : versions[i] = Accounts[k]
      BY <1>5
    <3>2. PICK u, j : Member(units, u, j) /\ units[u][j] = versions[i]
      BY <1>4 DEF AreUnits
    <3> QED BY <3>1, <3>2
  <2>2. \A u, j : Member(units, u, j) => \E i \in 1 .. n : units[u][j] = Accounts[i]
    BY <1>4, <1>5 DEF AreUnits
  <2> QED BY <1>4, <2>1, <2>2 DEF AreUnits
<1>7. \A u \in DOMAIN units : Member(units, u, 1)
  <2>1. PICK S : S = {versions[i] : i \in 1 .. n}
    OBVIOUS
  <2>2. units \in Seq(Seq(S)) /\ NoneEmpty(units)
    BY <1>4, <2>1 DEF AreUnits
  <2> QED BY <2>2, FirstMember
<1>8. PICK m \in Nat : DOMAIN units = 1 .. m
  <2>1. PICK S : S = Seq({versions[i] : i \in 1 .. n})
    OBVIOUS
  <2>2. units \in Seq(S)
    BY <1>4, <2>1
  <2> QED BY <2>2
<1>9. HeadsDated(units, m)
  <2>1. ASSUME NEW u \in 1 .. m PROVE units[u][1].from \in Int /\ units[u][1].to \in Int
    <3>1. PICK i \in 1 .. n : units[u][1] = Accounts[i]
      BY <1>6, <1>7, <1>8 DEF AreUnits
    <3> QED BY <1>1, <3>1, AccountFields
  <2> QED BY <1>8, <2>1 DEF HeadsDated
<1> QED BY <1>1, <1>2, <1>6, <1>7, <1>9 DEF Divided

\* The versions that have not been resolved yet.
Open == IF phase = "resolve" THEN DOMAIN todo ELSE {}

\* A version not resolved yet is as it was added, and has the ranges its unit wins.
OpenAsAdded(groups) ==
  \A r \in Open : \E i \in Numbers, u \in DOMAIN groups :
    r = OriginalOf(i) /\ Holds(groups, u, i) /\ todo[r].ranges = WonRanges(groups, u)

\* r is what is kept of the i-th version on some of the dates its unit wins.
IsShare(groups, r, i) ==
  /\ i \in Numbers /\ r.of = input[i][1] /\ OriginalOf(i) \notin Open
  /\ \A day \in Int : ValidOn(r, day) => Holds(groups, Winner(groups, day), i)

\* Everything kept of the others is such a share.
Shares(groups) ==
  \A r \in routes \ Open : r.from \in Int /\ r.to \in Int /\ \E i : IsShare(groups, r, i)

\* Something of the i-th version is kept on the date.
Covers(i, day) == \E r \in routes : r.of = input[i][1] /\ ValidOn(r, day)

\* A resolved version is kept on every current date its unit wins.
Covered(groups) ==
  \A i \in Numbers, day \in CurrentDates :
    OriginalOf(i) \notin Open /\ Holds(groups, Winner(groups, day), i) => Covers(i, day)

\* No date is in two shares of one version.
Apart ==
  \A r, q \in routes \ Open : r # q /\ r.of = q.of =>
    \A day \in Int : ~(ValidOn(r, day) /\ ValidOn(q, day))

\* Where the resolution stands, given the units Decide compared.
IsDivision(groups) == Divided(groups) /\ OpenAsAdded(groups) /\ Shares(groups) /\ Covered(groups)

\* The inductive invariant of the resolution.
DatesInv ==
  /\ IInv
  /\ IsRegistry(input)
  /\ IsFiniteSet(routes)
  /\ phase = "add" => AddedAsIs
  /\ phase # "add" => Apart /\ \E groups : IsDivision(groups)

--------------------------------------------------------------------------------
\* The inputs below are among those of the theorems above.
LEMMA RegistryIsOneVersion == RegistryInput => OneVersionPerBatch
BY DEF RegistryInput, IsRegistry, OneVersionPerBatch

\* Nothing is added yet.
LEMMA DatesInit == RegistryInput /\ Init => DatesInv
<1> SUFFICES ASSUME RegistryInput, Init PROVE DatesInv
  OBVIOUS
<1>1. IInv
  BY InitKeeps, RegistryIsOneVersion
<1>2. IsRegistry(input)
  BY DEF RegistryInput, Init
<1>3. IsFiniteSet({}) /\ Cardinality({}) = 0
  BY FS_EmptySet
<1>4. AddedAsIs
  BY <1>3 DEF AddedAsIs, Init
<1> QED BY <1>1, <1>2, <1>3, <1>4 DEF DatesInv, Init

\* What is read off the batches does not change.
LEMMA SameInput ==
  ASSUME UNCHANGED input
  PROVE  /\ Numbers' = Numbers /\ Accounts' = Accounts
         /\ \A i : OriginalOf(i)' = OriginalOf(i)
         /\ \A groups : Divided(groups) => Divided(groups)'
         /\ \A groups, u, i : Holds(groups, u, i) <=> Holds(groups, u, i)'
<1>1. \A i : OriginalOf(i)' = OriginalOf(i)
  BY DEF OriginalOf
<1>2. \A i : Account(i)' = Account(i)
  BY <1>1 DEF Account
<1>3. Numbers' = Numbers /\ Accounts' = Accounts
  BY <1>2 DEF Numbers, Accounts
<1>4. \A groups : Divided(groups) => Divided(groups)'
  BY <1>3 DEF Divided
<1>5. \A groups, u, i : Holds(groups, u, i) <=> Holds(groups, u, i)'
  BY <1>2 DEF Holds
<1> QED BY <1>1, <1>3, <1>4, <1>5

\* A batch adds its version as it is.
LEMMA DatesAdd == DatesInv /\ Add => DatesInv'
<1> SUFFICES ASSUME DatesInv, Add PROVE DatesInv'
  OBVIOUS
<1>1. IInv' /\ IsRegistry(input)' /\ phase = "add" /\ phase' = "add"
  BY AddKeeps DEF DatesInv, Add
<1>2. IInv /\ IsRegistry(input) /\ AddedAsIs /\ UNCHANGED input /\ added' = added + 1
  BY <1>1 DEF DatesInv, Add
<1>3. added \in Nat /\ added + 1 \in Numbers
  BY <1>2, NumbersAre DEF Add, IInv, InputIsKnown
<1>4. PICK v : input[added + 1] = <<v>> /\ input[added + 1][1] = v
  BY <1>2, <1>3 DEF IsRegistry, Numbers
<1>5. ToSet(<<v>>) = {v}
  BY DEF ToSet
<1>6. routes' = routes \cup {OriginalOf(added + 1)}
  <2>1. NewDistinction = added + 1
    BY <1>2 DEF NewDistinction, AddedAsIs
  <2> QED BY <1>4, <1>5, <2>1 DEF Add, OriginalOf
<1>7. \A i : OriginalOf(i)' = OriginalOf(i)
  BY <1>2, SameInput
<1>8. OriginalOf(added + 1) \notin routes
  <2>1. \A i \in 1 .. added : OriginalOf(i).dist # added + 1
    BY <1>3, OriginalFields
  <2> QED BY <1>2, <2>1, OriginalFields DEF AddedAsIs
<1>9. IsFiniteSet(routes') /\ Cardinality(routes') = added'
  BY <1>2, <1>6, <1>8, FS_AddElement DEF AddedAsIs
<1>10. routes' = {OriginalOf(i)' : i \in 1 .. added'}
  <2>1. 1 .. added' = (1 .. added) \cup {added + 1}
    BY <1>2, <1>3
  <2> QED BY <1>2, <1>6, <1>7, <2>1 DEF AddedAsIs
<1>11. AddedAsIs'
  BY <1>9, <1>10 DEF AddedAsIs
<1> QED BY <1>1, <1>9, <1>11 DEF DatesInv

\* A single version keeps its dates; of several, every one awaits its turn.
LEMMA DatesDecide == DatesInv /\ Decide => DatesInv'
<1> SUFFICES ASSUME DatesInv, Decide PROVE DatesInv'
  OBVIOUS
<1>1. /\ IInv /\ IsRegistry(input) /\ IsFiniteSet(routes) /\ AddedAsIs /\ added = Len(input)
      /\ KeysAgree /\ phase' = "resolve"
  BY DEF DatesInv, Decide, IInv
<1>2. IInv'
  BY <1>1, NextKeeps DEF Next
<1>3. UNCHANGED <<input, routes>>
  BY DEF Decide
<1>4. PICK n \in Nat : /\ n = Len(input) /\ Numbers = 1 .. n
                       /\ Cardinality(routes) = n /\ routes = {OriginalOf(i) : i \in Numbers}
  BY <1>1, NumbersAre DEF AddedAsIs
<1>5. PICK groups : groups = Units(VersionsByDistinction)
  OBVIOUS
<1>6. Divided(groups)
  BY <1>1, <1>5, VersionsAreListed, UnitsDivide
<1>7. Divided(groups)' /\ Numbers' = Numbers /\ \A i : OriginalOf(i)' = OriginalOf(i)
  BY <1>3, <1>6, SameInput
<1>8. \A u, i : Holds(groups, u, i)' <=> Holds(groups, u, i)
  BY <1>3, SameInput
<1>9. Apart' /\ OpenAsAdded(groups)' /\ Shares(groups)' /\ Covered(groups)'
  <2>1. CASE n <= 1
    <3>1. todo' = <<>> /\ Open' = {}
      BY <1>1, <1>4, <2>1 DEF Decide, Open
    <3>2. \A i, k \in Numbers : i = k
      BY <1>4, <2>1
    <3>3. Apart'
      BY <1>3, <1>4, <3>1, <3>2 DEF Apart
    <3>4. OpenAsAdded(groups)'
      BY <3>1 DEF OpenAsAdded
    <3>5. Shares(groups)'
      <4>1. ASSUME NEW r \in routes PROVE r.from \in Int /\ r.to \in Int /\ \E i : IsShare(groups, r, i)'
        <5>1. PICK i \in Numbers : r = OriginalOf(i)
          BY <1>4
        <5>2. r.from = input[i][1].from /\ r.to = input[i][1].to /\ r.of = input[i][1]
          BY <5>1, OriginalFields
        <5>3. r.from \in Int /\ r.to \in Int
          BY <1>1, <5>2, AccountFields
        <5>4. ASSUME NEW day \in Int, ValidOn(r, day) PROVE Holds(groups, Winner(groups, day), i)
          <6>1. ValidOn(input[i][1], day)
            BY <5>2, <5>4 DEF ValidOn
          <6> QED BY <1>1, <1>6, <3>2, <6>1, ValidHasWinner
        <5>5. IsShare(groups, r, i)'
          BY <1>3, <1>7, <1>8, <3>1, <5>2, <5>4 DEF IsShare
        <5> QED BY <5>3, <5>5
      <4> QED BY <1>3, <3>1, <4>1 DEF Shares
    <3>6. Covered(groups)'
      <4>1. ASSUME NEW i \in Numbers, NEW day \in CurrentDates, Holds(groups, Winner(groups, day), i)
            PROVE  Covers(i, day)'
        <5>1. ValidOn(input[i][1], day)
          BY <1>1, <1>6, <4>1, WinnerRuns
        <5>2. PICK r \in routes : r = OriginalOf(i)
          BY <1>4
        <5>3. r.of = input[i][1] /\ ValidOn(r, day)
          BY <5>1, <5>2, OriginalFields DEF ValidOn
        <5> QED BY <1>3, <5>3 DEF Covers
      <4> QED BY <1>7, <1>8, <4>1 DEF Covered
    <3> QED BY <3>3, <3>4, <3>5, <3>6
  <2>2. CASE ~(n <= 1)
    <3> DEFINE UnitOf(r) == CHOOSE u \in DOMAIN groups :
                              \E i \in DOMAIN groups[u] : groups[u][i].route = r
    <3>1. todo' = [r \in routes |-> [unit |-> UnitOf(r), ranges |-> WonRanges(groups, UnitOf(r))]]
      BY <1>4, <1>5, <2>2 DEF Decide
    <3>2. Open' = routes
      BY <1>1, <3>1 DEF Open
    <3>3. Apart' /\ Shares(groups)'
      BY <1>3, <3>2 DEF Apart, Shares
    <3>4. Covered(groups)'
      BY <1>4, <1>7, <3>2 DEF Covered
    <3>5. ASSUME NEW i \in Numbers, NEW r \in routes, r = OriginalOf(i)
          PROVE  UnitOf(r) \in DOMAIN groups /\ Holds(groups, UnitOf(r), i)
      <4>1. PICK x \in DOMAIN groups : Holds(groups, x, i)
        BY <1>1, <1>6, EachIsHeld
      <4>2. PICK y : Member(groups, x, y) /\ groups[x][y] = Account(i)
        BY <4>1 DEF Holds
      <4>3. \E j \in DOMAIN groups[x] : groups[x][j].route = r
        BY <1>1, <3>5, <4>2, AccountFields DEF Member
      <4>4. PICK u : u = UnitOf(r)
        OBVIOUS
      <4>5. u \in DOMAIN groups /\ \E j \in DOMAIN groups[u] : groups[u][j].route = r
        BY <4>1, <4>3, <4>4
      <4>6. PICK j \in DOMAIN groups[u] : groups[u][j].route = r
        BY <4>5
      <4>7. PICK k \in Numbers : groups[u][j] = Account(k)
        <5>1. Member(groups, u, j)
          BY <4>5, <4>6 DEF Member
        <5>2. PICK k \in Numbers : groups[u][j] = Accounts[k]
          BY <1>1, <1>6, <5>1, NumbersAre DEF Divided, AreUnits
        <5> QED BY <1>1, <5>2, AccountFields
      <4>8. OriginalOf(k) = OriginalOf(i)
        BY <1>1, <3>5, <4>6, <4>7, AccountFields
      <4>9. k = i
        BY <4>8, OriginalFields
      <4> QED BY <4>4, <4>5, <4>6, <4>7, <4>9 DEF Holds, Member
    <3> HIDE DEF UnitOf
    <3>6. OpenAsAdded(groups)'
      <4>1. ASSUME NEW r \in routes
            PROVE  \E i \in Numbers, u \in DOMAIN groups :
                     r = OriginalOf(i) /\ Holds(groups, u, i) /\ todo'[r].ranges = WonRanges(groups, u)
        <5>1. PICK i \in Numbers : r = OriginalOf(i)
          BY <1>4
        <5>2. todo'[r].ranges = WonRanges(groups, UnitOf(r))
          BY <3>1
        <5> QED BY <3>5, <5>1, <5>2
      <4> QED BY <1>7, <1>8, <3>2, <4>1 DEF OpenAsAdded
    <3> QED BY <3>3, <3>4, <3>6
  <2> QED BY <1>4, <2>1, <2>2
<1>10. IsDivision(groups)'
  BY <1>7, <1>9 DEF IsDivision
<1> QED BY <1>1, <1>2, <1>3, <1>9, <1>10 DEF DatesInv

\* The pieces that take the place of a version, one for each range it keeps.
IsCutUp(r, ranges, piece) ==
  /\ routes' = (routes \ {r}) \cup {piece[g] : g \in ranges}
  /\ DOMAIN piece = ranges
  /\ \A g \in ranges : piece[g].of = r.of /\ piece[g].from = g.from /\ piece[g].to = g.to

\* Cutting and copying leaves one piece for each range, ...
LEMMA CutUp ==
  ASSUME NEW r \in routes, NEW ranges, CutAndCopy(r, ranges)
  PROVE  \E piece : IsCutUp(r, ranges, piece)
<1>1. PICK first \in ranges, top \in Dists : \E number \in Numberings(ranges \ {first}, top) :
             routes' = (routes \ {r}) \cup {Cut(r, first, r.dist)}
                            \cup {Cut(r, g, number[g]) : g \in ranges \ {first}}
  BY DEF CutAndCopy
<1>2. PICK number : routes' = (routes \ {r}) \cup {Cut(r, first, r.dist)}
                            \cup {Cut(r, g, number[g]) : g \in ranges \ {first}}
  BY <1>1
<1>3. PICK piece : piece = [g \in ranges |-> IF g = first THEN Cut(r, first, r.dist)
                                            ELSE Cut(r, g, number[g])]
  OBVIOUS
<1>4. {piece[g] : g \in ranges} =
        {Cut(r, first, r.dist)} \cup {Cut(r, g, number[g]) : g \in ranges \ {first}}
  BY <1>3
<1>5. \A g, d : Cut(r, g, d).of = r.of /\ Cut(r, g, d).from = g.from /\ Cut(r, g, d).to = g.to
  BY DEF Cut
<1>6. IsCutUp(r, ranges, piece)
  BY <1>2, <1>3, <1>4, <1>5 DEF IsCutUp
<1> QED BY <1>6

\* ... and deleting leaves none.
LEMMA DeletedIsCutUp ==
  ASSUME IInv, NEW r \in routes, DeleteRoute(r)
  PROVE  \E piece : IsCutUp(r, {}, piece)
<1>1. routes' = routes \ {r}
  BY DeleteKeeps DEF IInv
<1>2. IsCutUp(r, {}, <<>>)
  BY <1>1 DEF IsCutUp
<1> QED BY <1>2

\* The list stays finite.
LEMMA FinitePieces ==
  ASSUME NEW r, NEW ranges, IsFiniteSet(ranges), IsFiniteSet(routes), NEW piece, IsCutUp(r, ranges, piece)
  PROVE  IsFiniteSet(routes')
<1>1. PICK pieces : pieces = {piece[g] : g \in ranges}
  OBVIOUS
<1>2. PICK f : f = [g \in ranges |-> piece[g]]
  OBVIOUS
<1>3. f \in Surjection(ranges, pieces)
  BY <1>1, <1>2 DEF Surjection
<1>4. IsFiniteSet(pieces)
  BY <1>3, FS_Surjection
<1>5. IsFiniteSet(routes \ {r})
  BY FS_Subset
<1> QED BY <1>1, <1>4, <1>5, FS_Union DEF IsCutUp

\* The pieces are shares of the version they replace, together all it wins.
LEMMA DatesResolve ==
  ASSUME DatesInv, NEW r \in DOMAIN todo, ResolveVersion(r)
  PROVE  DatesInv'
<1>1. /\ IInv /\ IsRegistry(input) /\ IsFiniteSet(routes) /\ Apart
      /\ phase = "resolve" /\ phase' = "resolve" /\ UNCHANGED input
      /\ r \in routes
  BY DEF DatesInv, ResolveVersion, IInv
<1>2. IInv'
  BY <1>1, ResolveKeeps
<1>3. PICK groups : Divided(groups) /\ OpenAsAdded(groups) /\ Shares(groups) /\ Covered(groups)
  BY <1>1 DEF DatesInv, IsDivision
<1>4. Open = DOMAIN todo /\ Open' = Open \ {r} /\ \A q \in Open' : todo'[q] = todo[q]
  BY <1>1 DEF Open, ResolveVersion, Without, Restrict
<1>5. PICK i \in Numbers, u \in DOMAIN groups :
        r = OriginalOf(i) /\ Holds(groups, u, i) /\ todo[r].ranges = WonRanges(groups, u)
  BY <1>3, <1>4 DEF OpenAsAdded
<1>6. PICK ranges : ranges = WonRanges(groups, u)
  OBVIOUS
<1>7. PICK piece : IsCutUp(r, ranges, piece)
  <2>1. CASE ranges = {}
    BY <1>1, <1>5, <1>6, <2>1, DeletedIsCutUp DEF ResolveVersion
  <2>2. CASE ranges # {}
    BY <1>1, <1>5, <1>6, <2>2, CutUp DEF ResolveVersion
  <2> QED BY <2>1, <2>2
<1>8. /\ routes' = (routes \ {r}) \cup {piece[g] : g \in ranges}
      /\ \A g \in ranges : piece[g].of = input[i][1] /\ piece[g].from = g.from /\ piece[g].to = g.to
  BY <1>5, <1>7, OriginalFields DEF IsCutUp
<1>9. PICK m \in Nat : HeadsDated(groups, m) /\ DOMAIN groups = 1 .. m
  BY <1>3 DEF Divided, HeadsDated
<1>10. IsFiniteSet(ranges) /\ \A g \in ranges : g.from \in Int /\ g.to \in Int
  BY <1>6, <1>9, RangesAreFinite
<1>11. IsFiniteSet(routes')
  BY <1>1, <1>7, <1>10, FinitePieces
<1>12. Divided(groups)' /\ Numbers' = Numbers /\ \A k : OriginalOf(k)' = OriginalOf(k)
  BY <1>1, <1>3, SameInput
<1>13. \A x, k : Holds(groups, x, k)' <=> Holds(groups, x, k)
  BY <1>1, SameInput
<1>14. \A k \in Numbers : input[k][1] = input[i][1] => k = i
  BY <1>1, <1>5 DEF IsRegistry, Numbers
<1>15. OpenAsAdded(groups)'
  BY <1>3, <1>4, <1>12, <1>13 DEF OpenAsAdded
<1>16. ASSUME NEW q \in routes' \ Open', \A g \in ranges : q # piece[g]
       PROVE  q \in routes \ Open
  BY <1>4, <1>8, <1>16
<1>17. Shares(groups)'
  <2>1. ASSUME NEW q \in routes' \ Open'
        PROVE  q.from \in Int /\ q.to \in Int /\ \E k : IsShare(groups, q, k)'
    <3>1. CASE \A g \in ranges : q # piece[g]
      <4>1. q.from \in Int /\ q.to \in Int /\ \E k : IsShare(groups, q, k)
        BY <1>3, <1>16, <3>1 DEF Shares
      <4>2. PICK k : IsShare(groups, q, k)
        BY <4>1
      <4>3. IsShare(groups, q, k)'
        BY <1>1, <1>4, <1>12, <1>13, <4>2 DEF IsShare
      <4> QED BY <4>1, <4>3
    <3>2. ASSUME NEW g \in ranges, q = piece[g]
          PROVE  q.from \in Int /\ q.to \in Int /\ IsShare(groups, q, i)'
      <4>1. q.of = input[i][1] /\ q.from = g.from /\ q.to = g.to /\ g.from \in Int /\ g.to \in Int
        BY <1>8, <1>10, <3>2
      <4>2. OriginalOf(i) \notin Open'
        BY <1>4, <1>5
      <4>3. ASSUME NEW day \in Int, ValidOn(q, day) PROVE Holds(groups, Winner(groups, day), i)
        <5>1. g.from <= day /\ day <= g.to
          BY <4>1, <4>3 DEF ValidOn
        <5>2. Winner(groups, day) = u
          BY <1>6, <1>9, <5>1, RangesAreWon
        <5> QED BY <1>5, <5>2
      <4> QED BY <1>1, <1>5, <1>12, <1>13, <4>1, <4>2, <4>3 DEF IsShare
    <3> QED BY <3>1, <3>2
  <2> QED BY <2>1 DEF Shares
<1>18. Covered(groups)'
  <2>1. ASSUME NEW k \in Numbers, NEW day \in CurrentDates, OriginalOf(k) \notin Open',
               Holds(groups, Winner(groups, day), k)
        PROVE  Covers(k, day)'
    <3>1. CASE k = i
      <4>1. Winner(groups, day) = u
        BY <1>1, <1>3, <1>5, <2>1, <3>1, HeldOnce
      <4>2. day \in Int
        BY BoundsAssumption DEF CurrentDates
      <4>3. PICK g \in ranges : g.from <= day /\ day <= g.to
        BY <1>6, <1>9, <4>1, <4>2, WonIsCovered
      <4>4. piece[g] \in routes' /\ piece[g].of = input[k][1] /\ ValidOn(piece[g], day)
        BY <1>8, <3>1, <4>3 DEF ValidOn
      <4> QED BY <1>1, <4>4 DEF Covers
    <3>2. CASE k # i
      <4>1. OriginalOf(k) # r
        BY <1>5, <3>2, OriginalFields
      <4>2. OriginalOf(k) \notin Open
        BY <1>4, <2>1, <4>1
      <4>3. PICK q \in routes : q.of = input[k][1] /\ ValidOn(q, day)
        BY <1>3, <2>1, <4>2 DEF Covered, Covers
      <4>4. q # r
        BY <1>5, <1>14, <3>2, <4>3, OriginalFields
      <4> QED BY <1>1, <1>8, <4>3, <4>4 DEF Covers
    <3> QED BY <3>1, <3>2
  <2> QED BY <1>12, <1>13, <2>1 DEF Covered
<1>19. Apart'
  <2>1. ASSUME NEW p \in routes' \ Open', NEW q \in routes' \ Open', p # q, p.of = q.of,
               NEW day \in Int, ValidOn(p, day), ValidOn(q, day)
        PROVE  FALSE
    <3>1. ASSUME NEW x \in routes' \ Open', x.of = input[i][1] PROVE \E g \in ranges : x = piece[g]
      <4>1. SUFFICES ASSUME \A g \in ranges : x # piece[g] PROVE FALSE
        OBVIOUS
      <4>2. x \in routes \ Open
        BY <1>16, <4>1
      <4>3. PICK k : IsShare(groups, x, k)
        BY <1>3, <4>2 DEF Shares
      <4>4. k = i
        BY <1>14, <3>1, <4>3 DEF IsShare
      <4> QED BY <1>4, <1>5, <4>3, <4>4 DEF IsShare
    <3>2. CASE p.of = input[i][1]
      <4>1. PICK g \in ranges : p = piece[g]
        BY <3>1, <3>2
      <4>2. PICK h \in ranges : q = piece[h]
        BY <2>1, <3>1, <3>2
      <4>3. g.from <= day /\ day <= g.to /\ h.from <= day /\ day <= h.to
        BY <1>8, <2>1, <4>1, <4>2 DEF ValidOn
      <4>4. g = h
        BY <1>6, <1>9, <4>3, RangesAreApart
      <4> QED BY <2>1, <4>1, <4>2, <4>4
    <3>3. CASE p.of # input[i][1]
      <4>1. p \in routes \ Open /\ q \in routes \ Open
        BY <1>8, <1>16, <2>1, <3>3
      <4> QED BY <1>1, <2>1, <4>1 DEF Apart
    <3> QED BY <3>2, <3>3
  <2> QED BY <2>1 DEF Apart
<1>20. IsDivision(groups)'
  BY <1>12, <1>15, <1>17, <1>18 DEF IsDivision
<1> QED BY <1>1, <1>2, <1>11, <1>19, <1>20 DEF DatesInv

\* Between the passes the list is as it was.
LEMMA DatesSettled ==
  ASSUME DatesInv, UNCHANGED <<input, routes>>, IInv',
         phase # "add", phase' # "add", Open = {}, Open' = {}
  PROVE  DatesInv'
<1>1. PICK groups : Divided(groups) /\ OpenAsAdded(groups) /\ Shares(groups) /\ Covered(groups)
  BY DEF DatesInv, IsDivision
<1>2. Divided(groups)' /\ Numbers' = Numbers /\ \A k : OriginalOf(k)' = OriginalOf(k)
  BY <1>1, SameInput
<1>3. \A x, k : Holds(groups, x, k)' <=> Holds(groups, x, k)
  BY SameInput
<1>4. OpenAsAdded(groups)'
  BY DEF OpenAsAdded
<1>5. Shares(groups)'
  <2>1. ASSUME NEW r, NEW i, IsShare(groups, r, i) PROVE IsShare(groups, r, i)'
    BY <1>2, <1>3, <2>1 DEF IsShare
  <2>2. ASSUME NEW r \in routes PROVE r.from \in Int /\ r.to \in Int /\ \E i : IsShare(groups, r, i)'
    BY <1>1, <2>1 DEF Shares
  <2> QED BY <2>2 DEF Shares
<1>6. Covered(groups)'
  BY <1>1, <1>2, <1>3 DEF Covered, Covers
<1>7. Apart'
  BY DEF DatesInv, Apart
<1> QED BY <1>2, <1>4, <1>5, <1>6, <1>7 DEF DatesInv, IsDivision

\* Applying the year's bounds takes no current date from a version.
LEMMA DatesBound ==
  ASSUME DatesInv, NEW r \in DOMAIN todo, BoundVersion(r)
  PROVE  DatesInv'
<1>1. /\ IInv /\ IsRegistry(input) /\ IsFiniteSet(routes) /\ Apart
      /\ phase = "bound" /\ phase' = "bound" /\ UNCHANGED input
      /\ r \in routes /\ Open = {} /\ Open' = {}
  BY DEF DatesInv, BoundVersion, IInv, Open
<1>2. IInv'
  BY <1>1, BoundKeeps
<1>3. PICK groups : Divided(groups) /\ Shares(groups) /\ Covered(groups)
  BY <1>1 DEF DatesInv, IsDivision
<1>4. Divided(groups)' /\ Numbers' = Numbers /\ \A k : OriginalOf(k)' = OriginalOf(k)
  BY <1>1, <1>3, SameInput
<1>5. \A x, k : Holds(groups, x, k)' <=> Holds(groups, x, k)
  BY <1>1, SameInput
<1>6. r.from \in Int /\ r.to \in Int
  BY <1>1, <1>3 DEF Shares
<1>7. GvdStart \in Int /\ GvdEnd \in Int /\ Reference \in Int /\ GvdStart <= Reference
  BY BoundsAssumption
\* A version stays as it is, is dropped, or loses dates that are not current.
<1>8. PICK c : c = Clamped(r)
  OBVIOUS
<1>9. /\ c.of = r.of /\ c.from \in Int /\ c.to \in Int
      /\ \A day \in Int : ValidOn(c, day) => ValidOn(r, day)
      /\ \A day \in CurrentDates : ValidOn(r, day) => ValidOn(c, day)
  <2>1. PICK d, f, t, v : r = [dist |-> d, from |-> f, to |-> t, of |-> v]
    BY <1>1 DEF IInv, RoutesAreRecords
  <2>2. PICK lo, hi : /\ lo = (IF f < GvdStart THEN GvdStart ELSE f)
                      /\ hi = (IF t > GvdEnd THEN GvdEnd ELSE t)
    OBVIOUS
  <2>3. c = [dist |-> d, from |-> lo, to |-> hi, of |-> v]
    BY <1>8, <2>1, <2>2 DEF Clamped
  <2>4. f \in Int /\ t \in Int /\ lo \in Int /\ hi \in Int
    BY <1>6, <1>7, <2>1, <2>2
  <2>5. r.of = v /\ r.from = f /\ r.to = t /\ c.of = v /\ c.from = lo /\ c.to = hi
    BY <2>1, <2>3
  <2> QED BY <1>7, <2>2, <2>4, <2>5 DEF ValidOn, CurrentDates
<1>10. /\ routes' \subseteq (routes \ {r}) \cup {c} /\ routes \ {r} \subseteq routes'
       /\ c \in routes' \/ \A day \in CurrentDates : ~ValidOn(r, day)
  <2>1. CASE (Expired(r, Reference) \/ NextGvd(r)) /\ DeleteRoute(r)
    <3>1. routes' = routes \ {r}
      BY <1>1, <2>1, DeleteKeeps DEF IInv
    <3>2. \A day \in CurrentDates : ~ValidOn(r, day)
      BY <1>6, <1>7, <2>1 DEF Expired, NextGvd, CurrentDates, ValidOn
    <3> QED BY <3>1, <3>2
  <2>2. CASE routes' = (routes \ {r}) \cup {Clamped(r)}
    BY <1>8, <2>2
  <2> QED BY <2>1, <2>2 DEF BoundVersion
<1>11. IsFiniteSet(routes')
  <2>1. IsFiniteSet(routes \ {r})
    BY <1>1, FS_Subset
  <2>2. IsFiniteSet((routes \ {r}) \cup {c})
    BY <2>1, FS_AddElement
  <2> QED BY <1>10, <2>2, FS_Subset
<1>12. OpenAsAdded(groups)'
  BY <1>1 DEF OpenAsAdded
<1>13. Shares(groups)'
  <2>1. ASSUME NEW q \in routes'
        PROVE  q.from \in Int /\ q.to \in Int /\ \E k : IsShare(groups, q, k)'
    <3>1. PICK p \in routes : /\ q.of = p.of /\ q.from \in Int /\ q.to \in Int
                              /\ \A day \in Int : ValidOn(q, day) => ValidOn(p, day)
      BY <1>1, <1>3, <1>9, <1>10 DEF Shares
    <3>2. PICK k : IsShare(groups, p, k)
      BY <1>1, <1>3 DEF Shares
    <3>3. IsShare(groups, q, k)'
      BY <1>1, <1>4, <1>5, <3>1, <3>2 DEF IsShare
    <3> QED BY <3>1, <3>3
  <2> QED BY <2>1 DEF Shares
<1>14. Covered(groups)'
  <2>1. ASSUME NEW k \in Numbers, NEW day \in CurrentDates, Holds(groups, Winner(groups, day), k)
        PROVE  Covers(k, day)'
    <3>1. PICK q \in routes : q.of = input[k][1] /\ ValidOn(q, day)
      BY <1>1, <1>3, <2>1 DEF Covered, Covers
    <3>2. CASE q # r
      BY <1>1, <1>10, <3>1, <3>2 DEF Covers
    <3>3. CASE q = r
      BY <1>1, <1>9, <1>10, <3>1, <3>3 DEF Covers
    <3> QED BY <3>2, <3>3
  <2> QED BY <1>4, <1>5, <2>1 DEF Covered
<1>15. Apart'
  <2>1. ASSUME NEW p \in routes', NEW q \in routes', p # q, p.of = q.of,
               NEW day \in Int, ValidOn(p, day), ValidOn(q, day)
        PROVE  FALSE
    <3>1. ASSUME NEW x \in routes', ValidOn(x, day)
          PROVE  (x \in routes \ {r} \/ x = c) /\ (x = c => ValidOn(r, day))
      BY <1>9, <1>10, <3>1
    <3> QED BY <1>1, <1>9, <2>1, <3>1 DEF Apart
  <2> QED BY <2>1 DEF Apart
<1>16. IsDivision(groups)'
  BY <1>4, <1>12, <1>13, <1>14 DEF IsDivision
<1> QED BY <1>1, <1>2, <1>11, <1>15, <1>16 DEF DatesInv

\* Every step keeps the invariant.
LEMMA DatesNext == DatesInv /\ [Next]_vars => DatesInv'
<1> SUFFICES ASSUME DatesInv, [Next]_vars PROVE DatesInv'
  OBVIOUS
<1>1. IInv'
  BY NextKeeps DEF DatesInv
<1>2. CASE Add
  BY <1>2, DatesAdd
<1>3. CASE Decide
  BY <1>3, DatesDecide
<1>4. CASE StartBounding \/ Write
  BY <1>1, <1>4, DatesSettled DEF StartBounding, Write, Open
<1>5. ASSUME NEW r \in DOMAIN todo, ResolveVersion(r) PROVE DatesInv'
  BY <1>5, DatesResolve
<1>6. ASSUME NEW r \in DOMAIN todo, BoundVersion(r) PROVE DatesInv'
  BY <1>6, DatesBound
<1>7. CASE UNCHANGED vars
  <2>1. CASE phase = "add"
    <3>1. \A i : OriginalOf(i)' = OriginalOf(i)
      BY <1>7, SameInput DEF vars
    <3>2. AddedAsIs'
      BY <1>7, <2>1, <3>1 DEF vars, DatesInv, AddedAsIs
    <3> QED BY <1>1, <1>7, <2>1, <3>2 DEF vars, DatesInv
  <2>2. CASE phase # "add"
    <3>1. PICK groups : Divided(groups) /\ OpenAsAdded(groups) /\ Shares(groups) /\ Covered(groups)
      BY <2>2 DEF DatesInv, IsDivision
    <3>2. UNCHANGED input /\ Open' = Open /\ UNCHANGED <<routes, todo, phase>>
      BY <1>7 DEF vars, Open
    <3>3. Divided(groups)' /\ Numbers' = Numbers /\ \A k : OriginalOf(k)' = OriginalOf(k)
      BY <3>1, <3>2, SameInput
    <3>4. \A x, k : Holds(groups, x, k)' <=> Holds(groups, x, k)
      BY <3>2, SameInput
    <3>5. OpenAsAdded(groups)'
      BY <3>1, <3>2, <3>3, <3>4 DEF OpenAsAdded
    <3>6. \A r, i : IsShare(groups, r, i) => IsShare(groups, r, i)'
      BY <3>2, <3>3, <3>4 DEF IsShare
    <3>7. Shares(groups)'
      BY <3>1, <3>2, <3>6 DEF Shares
    <3>8. Covered(groups)' /\ Apart'
      BY <2>2, <3>1, <3>2, <3>3, <3>4 DEF DatesInv, Apart, Covered, Covers
    <3> QED BY <1>1, <2>2, <3>2, <3>3, <3>5, <3>7, <3>8 DEF DatesInv, IsDivision
  <2> QED BY <2>1, <2>2
<1> QED BY <1>2, <1>3, <1>4, <1>5, <1>6, <1>7 DEF Next, Done

\* Nothing is open once overlaps are resolved.
LEMMA ResolvedIsSettled ==
  ASSUME DatesInv, Resolved
  PROVE  /\ IsRegistry(input) /\ KeysAgree /\ IsFiniteSet(routes) /\ Apart /\ Open = {}
         /\ \E groups : IsDivision(groups)
BY DEF DatesInv, IInv, Resolved, Open

\* The versions are those of the batches.
LEMMA AllVersionsAre ==
  ASSUME IsRegistry(input), NEW v \in AllVersions
  PROVE  \E i \in Numbers : v = input[i][1]
<1>1. PICK i \in Numbers : v \in ToSet(input[i])
  BY DEF AllVersions, Numbers
<1>2. PICK x : input[i] = <<x>>
  BY DEF IsRegistry, Numbers
<1>3. ToSet(<<x>>) = {x} /\ <<x>>[1] = x
  BY DEF ToSet
<1> QED BY <1>1, <1>2, <1>3

\* A current date on which some version was published has a version after overlaps are
\* resolved and after the bounds are applied: every date has a winner, and what is kept
\* of the winner are exactly the dates it wins.
THEOREM ResolutionLosesNoDate == RegistryInput => (Spec => []NoDateLost)
<1>1. DatesInv => NoDateLost
  <2> SUFFICES ASSUME DatesInv, Resolved, NEW day \in CurrentDates, NEW v \in AllVersions, ValidOn(v, day)
               PROVE  \E r \in routes : ValidOn(r, day)
    BY DEF NoDateLost
  <2>1. IsRegistry(input) /\ Open = {}
    BY ResolvedIsSettled
  <2>2. PICK groups : IsDivision(groups)
    BY ResolvedIsSettled
  <2>3. PICK i \in Numbers : v = input[i][1]
    BY <2>1, AllVersionsAre
  <2>4. PICK k \in Numbers : Holds(groups, Winner(groups, day), k)
    BY <2>1, <2>2, <2>3, ValidHasWinner DEF IsDivision
  <2> QED BY <2>1, <2>2, <2>4 DEF IsDivision, Covered, Covers
<1> QED BY <1>1, DatesInit, DatesNext, PTL DEF Spec

LEMMA SettledIsOneADate == DatesInv => OneVersionPerDate
<1> SUFFICES ASSUME DatesInv, Resolved, NEW r \in routes, NEW day \in r.from .. r.to
             PROVE  /\ ValidOn(r.of, day)
                    /\ \A q \in routes \ {r} : ValidOn(q, day) => /\ r.of # q.of
                                                             /\ r.of.detour = q.of.detour
                                                             /\ PublishedOf(r.of) = PublishedOf(q.of)
                                                             /\ DayClassMask(r.of.trips) \cap DayClassMask(q.of.trips) = {}
  BY DEF OneVersionPerDate
<1>1. IsRegistry(input) /\ Open = {} /\ Apart
  BY ResolvedIsSettled
<1>2. PICK groups : IsDivision(groups)
  BY ResolvedIsSettled
<1>3. r.from \in Int /\ r.to \in Int
  BY <1>1, <1>2 DEF IsDivision, Shares
<1>4. day \in Int /\ ValidOn(r, day)
  BY <1>3 DEF ValidOn
<1>5. ASSUME NEW q \in routes, ValidOn(q, day)
      PROVE  \E k \in Numbers : q.of = input[k][1] /\ Holds(groups, Winner(groups, day), k)
  BY <1>1, <1>2, <1>4, <1>5 DEF IsDivision, Shares, IsShare
<1>6. PICK i \in Numbers : r.of = input[i][1] /\ Holds(groups, Winner(groups, day), i)
  BY <1>4, <1>5
<1>7. ValidOn(r.of, day)
  BY <1>1, <1>2, <1>6, WinnerRuns DEF IsDivision
<1>8. ASSUME NEW q \in routes \ {r}, ValidOn(q, day)
      PROVE  /\ r.of # q.of /\ r.of.detour = q.of.detour
             /\ PublishedOf(r.of) = PublishedOf(q.of)
             /\ DayClassMask(r.of.trips) \cap DayClassMask(q.of.trips) = {}
  <2>1. PICK k \in Numbers : q.of = input[k][1] /\ Holds(groups, Winner(groups, day), k)
    BY <1>5, <1>8
  <2>2. r.of # q.of
    BY <1>1, <1>4, <1>8 DEF Apart
  <2>3. i # k
    BY <1>6, <2>1, <2>2
  <2>4. /\ r.of.from = q.of.from /\ r.of.to = q.of.to /\ r.of.detour = q.of.detour
        /\ DayClassMask(r.of.trips) \cap DayClassMask(q.of.trips) = {}
    BY <1>1, <1>2, <1>6, <2>1, <2>3, HeldTogether DEF IsDivision
  <2>5. r.of.source = NoSource /\ q.of.source = NoSource
    BY <1>1, <1>6, <2>1, AccountFields
  <2> QED BY <2>2, <2>4, <2>5 DEF PublishedOf
<1> QED BY <1>7, <1>8

\* Two versions kept on one date are members of the unit that wins it, side by side on
\* disjoint day classes, and none is kept on a date it was not published for.
THEOREM OneVersionRunsOnADate == RegistryInput => (Spec => []OneVersionPerDate)
BY SettledIsOneADate, DatesInit, DatesNext, PTL DEF Spec

\* Beats reads the same fields of both descriptions of a version.
LEMMA AsAddedBeats ==
  ASSUME IsRegistry(input), NEW i \in Numbers, NEW k \in Numbers
  PROVE  Beats(AsAdded(i), AsAdded(k)) <=> Beats(Account(i), Account(k))
<1>1. ASSUME NEW x
      PROVE  /\ AsAdded(x).dist = Account(x).dist /\ AsAdded(x).from = Account(x).from
             /\ AsAdded(x).to = Account(x).to /\ AsAdded(x).detour = Account(x).detour
             /\ AsAdded(x).created = Account(x).created
             /\ AsAdded(x).pubFrom = Account(x).pubFrom /\ AsAdded(x).pubTo = Account(x).pubTo
  <2>1. PICK v, f, t, c : v = input[x][1] /\ f = PublishedOf(v).from /\ t = PublishedOf(v).to /\ c = CreatedOf(v)
    OBVIOUS
  <2>2. AsAdded(x) = [dist |-> x, from |-> v.from, to |-> v.to, detour |-> v.detour, created |-> c,
                      pubFrom |-> f, pubTo |-> t]
    BY <2>1 DEF AsAdded
  <2>3. Account(x) = [dist |-> x, from |-> v.from, to |-> v.to, detour |-> v.detour,
                      pubFrom |-> f, pubTo |-> t, created |-> c, days |-> DayClassMask(v.trips), route |-> OriginalOf(x)]
    BY <2>1 DEF Account
  <2> QED BY <2>2, <2>3
<1> QED BY <1>1 DEF Beats, HasPriority, DetourPriority

\* The version that has priority over all others valid on a current date is kept on it,
\* even where units are formed of several versions and only their heads are compared.
THEOREM PriorityHolds == RegistryInput => (Spec => []PriorityWins)
<1>1. DatesInv => PriorityWins
  <2> SUFFICES ASSUME DatesInv, Resolved, NEW day \in CurrentDates, NEW i \in DOMAIN input,
                      ValidOn(input[i][1], day),
                      \A j \in {k \in DOMAIN input \ {i} : ValidOn(input[k][1], day)} :
                        Beats(AsAdded(i), AsAdded(j))
               PROVE  \E r \in routes : r.of = input[i][1] /\ ValidOn(r, day)
    BY DEF PriorityWins
  <2>1. IsRegistry(input) /\ Open = {}
    BY ResolvedIsSettled
  <2>2. PICK groups : IsDivision(groups)
    BY ResolvedIsSettled
  <2>3. i \in Numbers /\ \A k \in Numbers \ {i} : ValidOn(input[k][1], day) => Beats(Account(i), Account(k))
    BY <2>1, AsAddedBeats DEF Numbers
  <2>4. Holds(groups, Winner(groups, day), i)
    BY <2>1, <2>2, <2>3, PriorityIsHeld DEF IsDivision
  <2> QED BY <2>1, <2>2, <2>3, <2>4 DEF IsDivision, Covered, Covers
<1> QED BY <1>1, DatesInit, DatesNext, PTL DEF Spec

\* What a later run keeps, an earlier one kept.
LEMMA KeptIsKeptBefore ==
  ASSUME DatesInv, Resolved, NEW reference \in CurrentDates
  PROVE  KeptOn(reference) \subseteq KeptOn(Reference)
<1>1. ASSUME NEW q \in routes PROVE q.from \in Int /\ q.to \in Int
  <2>1. IsRegistry(input) /\ Open = {}
    BY ResolvedIsSettled
  <2>2. PICK groups : IsDivision(groups)
    BY ResolvedIsSettled
  <2> QED BY <2>1, <2>2 DEF IsDivision, Shares
<1>2. reference \in Int /\ Reference <= reference
  BY BoundsAssumption DEF CurrentDates
<1> QED BY <1>1, <1>2, BoundsAssumption DEF KeptOn, Expired, NextGvd

\* A version current in two runs is given another key only when one that came before it
\* has expired: nothing else that a key counts can differ.
THEOREM TripIdsChangeOnlyByExpiry == RegistryInput => (Spec => []TripIdsChangeByExpiry)
<1>1. DatesInv => TripIdsChangeByExpiry
  <2> SUFFICES ASSUME DatesInv, phase = "bound", NEW reference \in CurrentDates,
                      NEW r \in KeptOn(Reference) \cap KeptOn(reference),
                      \A q \in KeptOn(Reference) \ KeptOn(reference) :
                        ~ /\ q.of.detour = r.of.detour /\ SourceOf(q).from = SourceOf(r).from
                          /\ EndsBefore(SourceOf(q), SourceOf(r)) \/ (SourceOf(q) = SourceOf(r) /\ ChunkBefore(q, r))
               PROVE  TripVersionKey(r, KeptOn(Reference)) = TripVersionKey(r, KeptOn(reference))
    BY DEF TripIdsChangeByExpiry
  <2> DEFINE earlier == KeptOn(Reference)
             later == KeptOn(reference)
             Chunks(kept) == {q \in Starting(r, kept) : SourceOf(q) = SourceOf(r) /\ ChunkBefore(q, r)}
             Sources(kept) == {s \in {SourceOf(q) : q \in Starting(r, kept)} : EndsBefore(s, SourceOf(r))}
  <2>1. later \subseteq earlier
    BY KeptIsKeptBefore DEF Resolved
  <2> HIDE DEF earlier, later
  <2>2. \A q \in earlier \ later :
          ~ /\ q.of.detour = r.of.detour /\ SourceOf(q).from = SourceOf(r).from
            /\ EndsBefore(SourceOf(q), SourceOf(r)) \/ (SourceOf(q) = SourceOf(r) /\ ChunkBefore(q, r))
    BY DEF earlier, later
  <2>3. Chunks(earlier) = Chunks(later)
    BY <2>1, <2>2 DEF Starting
  <2>4. Sources(earlier) = Sources(later)
    BY <2>1, <2>2 DEF Starting
  <2>5. Part(r, earlier) = Part(r, later)
    BY <2>3 DEF Part
  <2>6. SourceIndex(r, earlier) = SourceIndex(r, later)
    BY <2>4 DEF SourceIndex
  <2> QED BY <2>5, <2>6 DEF TripVersionKey, earlier, later
<1> QED BY <1>1, DatesInit, DatesNext, PTL DEF Spec

--------------------------------------------------------------------------------
\* The day classes.

IsDay(d) == d.dow \in 1 .. 7 /\ d.holiday \in BOOLEAN

DaysAreDays == \A d \in Days : IsDay(d)

\* A day on which the codes let a trip run is of one of the classes of its codes.
LEMMA CodesAreCovered ==
  ASSUME NEW trip, NEW d, IsDay(d), trip.codes # {}, RunsByCodes(trip, d)
  PROVE  ClassOf(d) \in CodeMask(trip)
<1>1. CASE HolidaysSundays \in trip.codes /\ (d.holiday \/ d.dow = 7)
  <2>1. ClassOf(d) \in {6, 7}
    BY <1>1 DEF IsDay, ClassOf
  <2> QED BY <1>1, <2>1 DEF CodeMask
<1>2. CASE Weekdays \in trip.codes /\ ~d.holiday /\ d.dow \notin {6, 7}
  <2>1. ClassOf(d) \in 0 .. 4
    BY <1>2 DEF IsDay, ClassOf
  <2> QED BY <1>2, <2>1 DEF CodeMask
<1>3. CASE DayOfWeek(d.dow) \in trip.codes
  <2>1. ClassOf(d) \in {d.dow - 1, 7}
    BY DEF ClassOf
  <2>2. d.dow \in {e \in 1 .. 7 : DayOfWeek(e) \in trip.codes}
    BY <1>3 DEF IsDay
  <2> QED BY <2>1, <2>2 DEF CodeMask
<1> QED BY <1>1, <1>2, <1>3 DEF RunsByCodes

\* Notes that add days make the mask total; other notes only take days away.
LEMMA MaskIsConservative ==
  ASSUME NEW trip, NEW d, IsDay(d), RunsOn(trip, d)
  PROVE  ClassOf(d) \in TripMask(trip)
<1>1. ClassOf(d) \in EveryClass
  BY DEF IsDay, ClassOf, EveryClass
<1>2. CASE Dated(trip) \/ CodeMask(trip) = {}
  BY <1>1, <1>2 DEF TripMask
<1>3. CASE ~Dated(trip) /\ CodeMask(trip) # {}
  <2>1. RunsByCodes(trip, d)
    BY <1>3 DEF RunsOn, Applies, Dated, HasNote
  <2>2. trip.codes # {}
    BY <1>3 DEF CodeMask
  <2> QED BY <1>3, <2>1, <2>2, CodesAreCovered DEF TripMask
<1> QED BY <1>2, <1>3

--------------------------------------------------------------------------------
\* Versions kept on one date never both run on it, whatever their trips, their notes
\* and the holidays.
THEOREM SideBySideIsSafe == DaysAreDays /\ RegistryInput => (Spec => []TripsNeverMeet)
<1> SUFFICES ASSUME DaysAreDays PROVE RegistryInput => (Spec => []TripsNeverMeet)
  OBVIOUS
<1>1. OneVersionPerDate => TripsNeverMeet
  <2> SUFFICES ASSUME OneVersionPerDate, Resolved, NEW r \in routes, NEW q \in routes \ {r},
                      NEW date \in r.from .. r.to, ValidOn(q, date), NEW day \in Days,
                      NEW t \in r.of.trips, NEW u \in q.of.trips, RunsOn(t, day), RunsOn(u, day)
               PROVE  FALSE
    BY DEF TripsNeverMeet
  <2>1. DayClassMask(r.of.trips) \cap DayClassMask(q.of.trips) = {}
    BY DEF OneVersionPerDate
  <2>2. ClassOf(day) \in TripMask(t) /\ ClassOf(day) \in TripMask(u)
    BY MaskIsConservative DEF DaysAreDays
  <2>3. ClassOf(day) \in DayClassMask(r.of.trips) /\ ClassOf(day) \in DayClassMask(q.of.trips)
    BY <2>2 DEF DayClassMask
  <2> QED BY <2>1, <2>3
<1> QED BY <1>1, SettledIsOneADate, DatesInit, DatesNext, PTL DEF Spec
================================================================================
