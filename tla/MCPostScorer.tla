----------------------------- MODULE MCPostScorer -----------------------------
(***************************************************************************)
(* Two regions. Stop 1 is a border stop of both and complex; its contexts  *)
(* of region a are a movement (1), its reverse (2), a turning place (3)    *)
(* and the same movement of another line (6). Stop 4 is simple. Both are   *)
(* in fold 0; the others are trained on.                                   *)
(***************************************************************************)
EXTENDS PostScorer, TLC

MCUnknown == 0
MCRegions == <<"a", "b">>
MCTargetPrecision == <<9, 10>>
MCPostGrid == {30, 40, 50, 60, 75, 90, 99}
MCAreaGrid == {50, 60, 75, 90}
MCFirstOpinions == 1 .. 2
MCSecondOpinions == 1 .. 5

\* Posts 1 (twice mapped), 2 and 3 of stop 1, the first two an area; posts 21 and 22 of stop 4.
Candidate(post, area, platform) == [post |-> post, area |-> area, platform |-> platform]
MCCandidates ==
    (1 :> Candidate(1, 1, FALSE)) @@ (2 :> Candidate(1, 1, TRUE)) @@ (3 :> Candidate(2, 1, FALSE))
    @@ (4 :> Candidate(3, 2, FALSE))
    @@ (21 :> Candidate(21, 21, FALSE)) @@ (22 :> Candidate(22, 21, TRUE)) @@ (31 :> Candidate(31, 31, TRUE))

Context(id, region, stop, previous, next, departures) ==
    [id |-> id, region |-> region, stop |-> stop, previous |-> previous, next |-> next,
     posts |-> CASE stop = 1 -> 3 [] stop = 4 -> 2 [] OTHER -> 1,
     choices |-> CASE stop = 1 -> {1, 2, 3, 4} [] stop = 4 -> {21, 22} [] OTHER -> {31},
     departures |-> departures]
MCContexts ==
    (1 :> Context(1, "a", 1, 2, 3, 8)) @@ (2 :> Context(2, "a", 1, 3, 2, 1))
    @@ (3 :> Context(3, "a", 1, 2, 2, 0)) @@ (6 :> Context(6, "a", 1, 2, 3, 2))
    @@ (4 :> Context(4, "a", 2, Unknown, 1, 40)) @@ (5 :> Context(5, "a", 3, 1, Unknown, 2))
    @@ (11 :> Context(1, "b", 1, 2, 3, 3)) @@ (12 :> Context(12, "b", 4, 1, 5, 6))
    @@ (13 :> Context(13, "b", 5, 4, 6, 2)) @@ (14 :> Context(14, "b", 6, 5, Unknown, 1))
MCFold == [s \in 1 .. 6 |-> CASE s \in {1, 4} -> 0 [] s \in {2, 5} -> 1 [] s = 3 -> 2 [] s = 6 -> 3]

\* Beliefs about contexts of stop 1, of stop 4 and of others.
Complexes == << <<30, 30, 25, 5>>, <<10, 35, 5, 45>>, <<0, 5, 90, 0>>, <<20, 20, 35, 20>>, <<0, 0, 5, 95>> >>
Simples == << <<80, 10>>, <<40, 45>>, <<10, 75>>, <<30, 30>>, <<5, 95>> >>
Belief(k, complex, simple) ==
    CASE Contexts[k].stop = 1 -> complex
      [] Contexts[k].stop = 4 -> (21 :> simple[1]) @@ (22 :> simple[2])
      [] OTHER -> (31 :> 90)
MCSecondBeliefs == [k \in DOMAIN MCContexts |-> [i \in 1 .. 5 |-> Belief(k, Complexes[i], Simples[i])]]
MCFirstBeliefs == [k \in DOMAIN MCContexts |-> [i \in 1 .. 2 |-> Belief(k, Complexes[i], Simples[i])]]

\* Labels: two full ones, one with two lines of a movement and a context with no correct choice,
\* one with no held-out stop in region a, one with none in region b but at the border, one with a
\* single training fold, one with none.
Trained == (4 :> {31}) @@ (5 :> {31}) @@ (13 :> {31}) @@ (14 :> {31})
MCLabellings ==
    {(1 :> {1, 2}) @@ (2 :> {3}) @@ (3 :> {4}) @@ (11 :> {1, 2}) @@ (12 :> {22}) @@ Trained,
     (1 :> {3}) @@ (2 :> {1}) @@ (3 :> {3}) @@ (11 :> {4}) @@ (12 :> {21}) @@ Trained,
     (1 :> {1, 2}) @@ (6 :> {1, 2}) @@ (2 :> {}) @@ (12 :> {}) @@ Trained,
     (11 :> {3}) @@ (12 :> {22}) @@ Trained,
     (1 :> {1, 2}) @@ (11 :> {1, 2}) @@ Trained,
     (1 :> {3}) @@ (4 :> {31}) @@ (12 :> {22}) @@ (13 :> {31}),
     (1 :> {3}) @@ (2 :> {3})}
=============================================================================
