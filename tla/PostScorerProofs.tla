--------------------------- MODULE PostScorerProofs ---------------------------
(***************************************************************************)
(* Proofs about the post scorer.  Of the candidate table, for any packs:   *)
(* posts are sound at every moment of the clustering and join nearest      *)
(* pairs, areas are sound, the correct candidates of a context are of one  *)
(* post, and tables written from one timetable give a context its own      *)
(* labels and departures.  Of the training, for any regions, labels, folds *)
(* and beliefs: no model is judged on a stop it was trained on, a border   *)
(* stop is pooled once, a context's own belief is no evidence for it, and  *)
(* the thresholds keep the target precision together.                      *)
(***************************************************************************)
EXTENDS PostTable, PostScorer, FiniteSetTheorems, SequenceTheorems, WellFoundedInduction, TLAPS

-----------------------------------------------------------------------------
\* Sums. A sum goes through a set by a recursive function, which takes the members as CHOOSE gives
\* them. A statement about all finite sets is proved at a set of which no proper subset violates it.

Chosen(s) == CHOOSE x \in s : TRUE
IterStep(g, f, s) == IF s = {} THEN 0 ELSE f[Chosen(s)] + g[s \ {Chosen(s)}]
IsIter(g, f, T) == g = [s \in SUBSET T |-> IterStep(g, f, s)]
Iter(f, T) == CHOOSE g : IsIter(g, f, T)
SumOver(f, T) == MapThenSumSet(LAMBDA x : f[x], T)

LEMMA SumIsIter == ASSUME NEW f, NEW T PROVE SumOver(f, T) = Iter(f, T)[T]
BY DEF SumOver, MapThenSumSet, MapThenFoldSet, Iter, IsIter, Chosen, IterStep

\* A set of finite sets has one of which no proper subset is in it.
LEMMA LeastSubset ==
  ASSUME NEW S, NEW Bad, Bad \subseteq SUBSET S, Bad # {}, IsFiniteSet(S)
  PROVE  \E T \in Bad : \A U \in Bad : ~(U \subseteq T /\ U # T)
<1> DEFINE R == StrictSubsetOrdering(S)
<1>1. IsWellFoundedOn(R, FiniteSubsetsOf(S))
  BY FS_StrictSubsetOrderingWellFounded
<1>2. Bad \subseteq FiniteSubsetsOf(S)
  BY FS_Subset DEF FiniteSubsetsOf
<1>3. PICK T \in Bad : \A U \in Bad : <<U, T>> \notin R
  <2> HIDE DEF R
  <2> QED BY <1>1, <1>2, WFMin
<1>4. \A U \in Bad : U \subseteq T /\ U # T => <<U, T>> \in R
  BY <1>2 DEF StrictSubsetOrdering, FiniteSubsetsOf
<1>5. \A U \in Bad : ~(U \subseteq T /\ U # T)
  <2> HIDE DEF R
  <2> QED BY <1>3, <1>4
<1> QED BY <1>5

LEMMA ChosenIn == ASSUME NEW s, s # {} PROVE Chosen(s) \in s
BY DEF Chosen

LEMMA IterAt ==
  ASSUME NEW g, NEW f, NEW T, IsIter(g, f, T), NEW s \in SUBSET T
  PROVE  g[s] = IterStep(g, f, s)
BY DEF IsIter

LEMMA IterUnique ==
  ASSUME NEW f, NEW T, NEW U, IsFiniteSet(T), T \subseteq U,
         NEW g, NEW h, IsIter(g, f, T), IsIter(h, f, U)
  PROVE  \A s \in SUBSET T : g[s] = h[s]
<1> DEFINE Bad == {s \in SUBSET T : g[s] # h[s]}
<1> SUFFICES ASSUME Bad # {} PROVE FALSE
  OBVIOUS
<1>1. PICK s \in Bad : \A r \in Bad : ~(r \subseteq s /\ r # s)
  <2>1. Bad \subseteq SUBSET T
    OBVIOUS
  <2> HIDE DEF Bad
  <2> QED BY <2>1, LeastSubset
<1>2. g[s] = IterStep(g, f, s) /\ h[s] = IterStep(h, f, s)
  BY <1>1, IterAt
<1>3. s # {}
  BY <1>1, <1>2 DEF IterStep
<1>4. Chosen(s) \in s
  BY <1>3, ChosenIn
<1>5. g[s \ {Chosen(s)}] = h[s \ {Chosen(s)}]
  BY <1>1, <1>4
<1> QED BY <1>1, <1>2, <1>3, <1>5 DEF IterStep

LEMMA IterExists ==
  ASSUME NEW f, NEW S, IsFiniteSet(S)
  PROVE  IsIter(Iter(f, S), f, S)
<1> DEFINE Bad == {T \in SUBSET S : ~\E g : IsIter(g, f, T)}
<1> SUFFICES ASSUME Bad # {} PROVE FALSE
  BY DEF Iter
<1>1. PICK T \in Bad : \A U \in Bad : ~(U \subseteq T /\ U # T)
  <2>1. Bad \subseteq SUBSET S
    OBVIOUS
  <2> HIDE DEF Bad
  <2> QED BY <2>1, LeastSubset
<1>2. \A U \in SUBSET T : U # T => IsIter(Iter(f, U), f, U)
  BY <1>1 DEF Iter
<1> DEFINE less(s) == s \ {Chosen(s)}
           h == [s \in SUBSET T |-> IF s = {} THEN 0 ELSE f[Chosen(s)] + Iter(f, less(s))[less(s)]]
<1>3. ASSUME NEW s \in SUBSET T, s # {} PROVE h[less(s)] = Iter(f, less(s))[less(s)]
  <2>1. less(s) \in SUBSET T /\ less(s) # T
    BY <1>3, ChosenIn
  <2>2. IsIter(Iter(f, less(s)), f, less(s))
    BY <1>2, <2>1
  <2> DEFINE u == less(s)
  <2>3. Iter(f, u)[u] = IterStep(Iter(f, u), f, u)
    BY <2>2, IterAt
  <2>4. ASSUME u # {} PROVE Iter(f, u)[less(u)] = Iter(f, less(u))[less(u)]
    <3>1. less(u) \subseteq u /\ less(u) \in SUBSET T /\ less(u) # T
      BY <2>1, <2>4, ChosenIn
    <3>2. IsIter(Iter(f, less(u)), f, less(u))
      BY <1>2, <3>1
    <3>3. IsFiniteSet(less(u))
      BY <1>1, <3>1, FS_Subset
    <3> HIDE DEF u, less
    <3> QED BY <2>2, <3>1, <3>2, <3>3, IterUnique DEF u
  <2> QED BY <2>1, <2>3, <2>4 DEF IterStep
<1>4. IsIter(h, f, T)
  <2>1. ASSUME NEW s \in SUBSET T PROVE h[s] = IterStep(h, f, s)
    <3>1. CASE s = {}
      BY <3>1 DEF IterStep
    <3>2. CASE s # {}
      BY <1>3, <3>2 DEF IterStep
    <3> QED BY <3>1, <3>2
  <2> HIDE DEF h
  <2>2. h = [s \in SUBSET T |-> h[s]]
    BY DEF h
  <2> QED BY <2>1, <2>2 DEF IsIter
<1> QED BY <1>1, <1>4

LEMMA SumOfNone == ASSUME NEW f PROVE SumOver(f, {}) = 0
<1>1. IsIter(Iter(f, {}), f, {})
  BY IterExists, FS_EmptySet
<1> QED BY <1>1, IterAt, SumIsIter DEF IterStep

LEMMA SumByChosen ==
  ASSUME NEW f, NEW S, IsFiniteSet(S), S # {}
  PROVE  SumOver(f, S) = f[Chosen(S)] + SumOver(f, S \ {Chosen(S)})
<1> DEFINE less == S \ {Chosen(S)}
<1>1. less \in SUBSET S /\ IsFiniteSet(less)
  BY FS_Subset
<1>2. IsIter(Iter(f, S), f, S) /\ IsIter(Iter(f, less), f, less)
  BY <1>1, IterExists
<1>3. Iter(f, S)[S] = f[Chosen(S)] + Iter(f, S)[less]
  BY <1>2, IterAt DEF IterStep
<1>4. Iter(f, S)[less] = Iter(f, less)[less]
  <2>1. less \subseteq S /\ less \in SUBSET less
    OBVIOUS
  <2> HIDE DEF less
  <2>2. PICK g, h : g = Iter(f, less) /\ h = Iter(f, S)
    OBVIOUS
  <2>3. IsIter(g, f, less) /\ IsIter(h, f, S)
    BY <1>2, <2>2
  <2>4. \A s \in SUBSET less : g[s] = h[s]
    BY <1>1, <2>1, <2>3, IterUnique
  <2> QED BY <2>1, <2>2, <2>4
<1> QED BY <1>3, <1>4, SumIsIter

LEMMA SumIsInt ==
  ASSUME NEW f, NEW S, IsFiniteSet(S), \A x \in S : f[x] \in Int
  PROVE  SumOver(f, S) \in Int
<1> DEFINE Bad == {T \in SUBSET S : SumOver(f, T) \notin Int}
<1> SUFFICES ASSUME Bad # {} PROVE FALSE
  OBVIOUS
<1>1. PICK T \in Bad : \A U \in Bad : ~(U \subseteq T /\ U # T)
  <2>1. Bad \subseteq SUBSET S
    OBVIOUS
  <2> HIDE DEF Bad
  <2> QED BY <2>1, LeastSubset
<1>2. T # {}
  <2>1. SumOver(f, {}) \in Int
    BY SumOfNone
  <2> QED BY <1>1, <2>1
<1>3. Chosen(T) \in T /\ IsFiniteSet(T)
  BY <1>1, <1>2, ChosenIn, FS_Subset
<1>4. SumOver(f, T \ {Chosen(T)}) \in Int
  BY <1>1, <1>3
<1>5. SumOver(f, T) = f[Chosen(T)] + SumOver(f, T \ {Chosen(T)})
  BY <1>2, <1>3, SumByChosen
<1> QED BY <1>1, <1>3, <1>4, <1>5

\* Any member may be taken out of a sum.
LEMMA SumWithout ==
  ASSUME NEW f, NEW S, IsFiniteSet(S), \A x \in S : f[x] \in Int
  PROVE  \A x \in S : SumOver(f, S) = f[x] + SumOver(f, S \ {x})
<1> DEFINE Bad == {T \in SUBSET S : \E x \in T : SumOver(f, T) # f[x] + SumOver(f, T \ {x})}
<1> SUFFICES ASSUME Bad # {} PROVE FALSE
  OBVIOUS
<1>1. PICK T \in Bad : \A U \in Bad : ~(U \subseteq T /\ U # T)
  <2>1. Bad \subseteq SUBSET S
    OBVIOUS
  <2> HIDE DEF Bad
  <2> QED BY <2>1, LeastSubset
<1>2. PICK x \in T : SumOver(f, T) # f[x] + SumOver(f, T \ {x})
  BY <1>1
<1>3. PICK c : c = Chosen(T)
  OBVIOUS
<1>4. c \in T /\ T \subseteq S /\ IsFiniteSet(T)
  BY <1>1, <1>2, <1>3, ChosenIn, FS_Subset
<1>5. SumOver(f, T) = f[c] + SumOver(f, T \ {c})
  BY <1>3, <1>4, SumByChosen
<1>6. c # x
  BY <1>2, <1>5
<1>7. ASSUME NEW y \in T
      PROVE  \A z \in T \ {y} : SumOver(f, T \ {y}) = f[z] + SumOver(f, (T \ {y}) \ {z})
  <2>1. T \ {y} \in SUBSET S /\ T \ {y} \subseteq T /\ T \ {y} # T
    BY <1>4
  <2>2. T \ {y} \notin Bad
    <3> HIDE DEF Bad
    <3> QED BY <1>1, <2>1
  <2> QED BY <2>1, <2>2
<1>8. /\ SumOver(f, T \ {c}) = f[x] + SumOver(f, (T \ {c}) \ {x})
      /\ SumOver(f, T \ {x}) = f[c] + SumOver(f, (T \ {x}) \ {c})
  BY <1>4, <1>6, <1>7
<1>9. (T \ {x}) \ {c} = (T \ {c}) \ {x}
  OBVIOUS
<1>10. SumOver(f, (T \ {c}) \ {x}) \in Int
  <2>1. (T \ {c}) \ {x} \subseteq S
    BY <1>4
  <2> QED BY <2>1, FS_Subset, SumIsInt
<1> QED BY <1>2, <1>4, <1>5, <1>8, <1>9, <1>10

\* A sum depends only on the values it adds up.
LEMMA SumOfEquals ==
  ASSUME NEW f, NEW g, NEW S, IsFiniteSet(S), \A x \in S : f[x] = g[x]
  PROVE  SumOver(f, S) = SumOver(g, S)
<1> DEFINE Bad == {T \in SUBSET S : SumOver(f, T) # SumOver(g, T)}
<1> SUFFICES ASSUME Bad # {} PROVE FALSE
  OBVIOUS
<1>1. PICK T \in Bad : \A U \in Bad : ~(U \subseteq T /\ U # T)
  <2>1. Bad \subseteq SUBSET S
    OBVIOUS
  <2> HIDE DEF Bad
  <2> QED BY <2>1, LeastSubset
<1>2. T # {}
  BY <1>1, SumOfNone
<1>3. Chosen(T) \in T /\ IsFiniteSet(T)
  BY <1>1, <1>2, ChosenIn, FS_Subset
<1>4. SumOver(f, T \ {Chosen(T)}) = SumOver(g, T \ {Chosen(T)})
  BY <1>1, <1>3
<1>5. /\ SumOver(f, T) = f[Chosen(T)] + SumOver(f, T \ {Chosen(T)})
      /\ SumOver(g, T) = g[Chosen(T)] + SumOver(g, T \ {Chosen(T)})
  BY <1>2, <1>3, SumByChosen
<1> QED BY <1>1, <1>3, <1>4, <1>5

\* A sum of naturals is one, and no less than that of fewer of them.
LEMMA SumOfFewer ==
  ASSUME NEW f, NEW S, IsFiniteSet(S), \A x \in S : f[x] \in Nat
  PROVE  \A U \in SUBSET S : SumOver(f, U) \in Nat /\ SumOver(f, U) <= SumOver(f, S)
<1> DEFINE Bad == {T \in SUBSET S : ~\A U \in SUBSET T : SumOver(f, U) \in Nat /\ SumOver(f, U) <= SumOver(f, T)}
<1> SUFFICES ASSUME Bad # {} PROVE FALSE
  OBVIOUS
<1>1. PICK T \in Bad : \A U \in Bad : ~(U \subseteq T /\ U # T)
  <2>1. Bad \subseteq SUBSET S
    OBVIOUS
  <2> HIDE DEF Bad
  <2> QED BY <2>1, LeastSubset
<1>2. PICK U \in SUBSET T : ~(SumOver(f, U) \in Nat /\ SumOver(f, U) <= SumOver(f, T))
  BY <1>1
<1>3. \A V \in SUBSET T : V # T => \A W \in SUBSET V : SumOver(f, W) \in Nat /\ SumOver(f, W) <= SumOver(f, V)
  BY <1>1
<1>4. T # {}
  <2>1. ASSUME T = {} PROVE FALSE
    <3>1. U = {}
      BY <2>1
    <3> QED BY <1>2, <2>1, <3>1, SumOfNone
  <2> QED BY <2>1
<1>5. PICK x \in T : U # T => x \notin U
  BY <1>4
<1>6. /\ T \subseteq S /\ IsFiniteSet(T) /\ f[x] \in Nat
      /\ \A z \in T : f[z] \in Int
  BY <1>1, FS_Subset
<1>7. SumOver(f, T) = f[x] + SumOver(f, T \ {x})
  BY <1>6, SumWithout
<1>8. T \ {x} \in SUBSET T /\ T \ {x} # T
  OBVIOUS
<1>9. SumOver(f, T \ {x}) \in Nat
  BY <1>3, <1>8
<1>10. U # T => SumOver(f, U) \in Nat /\ SumOver(f, U) <= SumOver(f, T \ {x})
  BY <1>3, <1>5, <1>8
<1> QED BY <1>2, <1>6, <1>7, <1>9, <1>10

\* Of finitely many numbers one is the least, and one the greatest.
LEMMA Extremes ==
  ASSUME NEW f, NEW S, IsFiniteSet(S), S # {}, \A x \in S : f[x] \in Int
  PROVE  (\E x \in S : \A y \in S : f[x] <= f[y]) /\ (\E x \in S : \A y \in S : f[x] >= f[y])
<1> DEFINE Bounded(T) == (\E x \in T : \A y \in T : f[x] <= f[y]) /\ (\E x \in T : \A y \in T : f[x] >= f[y])
           Bad == {T \in SUBSET S : T # {} /\ ~Bounded(T)}
<1> SUFFICES ASSUME Bad # {} PROVE FALSE
  OBVIOUS
<1>1. PICK T \in Bad : \A U \in Bad : ~(U \subseteq T /\ U # T)
  <2>1. Bad \subseteq SUBSET S
    OBVIOUS
  <2> HIDE DEF Bad
  <2> QED BY <2>1, LeastSubset
<1>2. PICK x : x \in T
  BY <1>1
<1>3. T \subseteq S /\ ~Bounded(T)
  BY <1>1
<1>4. T # {x}
  BY <1>2, <1>3
<1>5. Bounded(T \ {x})
  <2>1. T \ {x} \in SUBSET S /\ T \ {x} # {} /\ T \ {x} \subseteq T /\ T \ {x} # T
    BY <1>2, <1>3, <1>4
  <2>2. T \ {x} \notin Bad
    <3> HIDE DEF Bad
    <3> QED BY <1>1, <2>1
  <2> QED BY <2>1, <2>2
<1>6. \E z \in T : \A y \in T : f[z] <= f[y]
  <2>1. PICK z \in T \ {x} : \A y \in T \ {x} : f[z] <= f[y]
    BY <1>5
  <2>2. f[x] \in Int /\ f[z] \in Int /\ \A y \in T : f[y] \in Int
    BY <1>2, <1>3, <2>1
  <2>3. CASE f[x] <= f[z]
    <3>1. \A y \in T : f[x] <= f[y]
      BY <2>1, <2>2, <2>3
    <3> QED BY <1>2, <3>1
  <2>4. CASE ~(f[x] <= f[z])
    <3>1. \A y \in T : f[z] <= f[y]
      BY <2>1, <2>2, <2>4
    <3> QED BY <2>1, <3>1
  <2> QED BY <2>3, <2>4
<1>7. \E z \in T : \A y \in T : f[z] >= f[y]
  <2>1. PICK z \in T \ {x} : \A y \in T \ {x} : f[z] >= f[y]
    BY <1>5
  <2>2. f[x] \in Int /\ f[z] \in Int /\ \A y \in T : f[y] \in Int
    BY <1>2, <1>3, <2>1
  <2>3. CASE f[x] >= f[z]
    <3>1. \A y \in T : f[x] >= f[y]
      BY <2>1, <2>2, <2>3
    <3> QED BY <1>2, <3>1
  <2>4. CASE ~(f[x] >= f[z])
    <3>1. \A y \in T : f[z] >= f[y]
      BY <2>1, <2>2, <2>4
    <3> QED BY <2>1, <3>1
  <2> QED BY <2>3, <2>4
<1> QED BY <1>3, <1>6, <1>7

\* Min of a finite set of numbers is its least member.
LEMMA MinIsLeast ==
  ASSUME NEW S, IsFiniteSet(S), S # {}, S \subseteq Int
  PROVE  Min(S) \in S /\ \A y \in S : Min(S) <= y
<1> DEFINE f == [x \in S |-> x]
<1>1. \A x \in S : f[x] \in Int
  OBVIOUS
<1>2. \E x \in S : \A y \in S : f[x] <= f[y]
  <2> HIDE DEF f
  <2> QED BY <1>1, Extremes
<1>3. \E x \in S : \A y \in S : x <= y
  BY <1>2
<1> QED BY <1>3 DEF Min

-----------------------------------------------------------------------------
\* Physical posts.

Located ==
    /\ IsFiniteSet(DOMAIN facts) /\ DOMAIN facts \subseteq Int
    /\ \A h \in DOMAIN facts : facts[h].x \in Int /\ facts[h].y \in Int
PostsInv == pack \in Packs /\ Located /\ PostsAreSound

\* Distance has no direction.
LEMMA WithinSymmetric ==
    ASSUME NEW p, NEW q, NEW metres, p.x \in Int, p.y \in Int, q.x \in Int, q.y \in Int,
           Within(p, q, metres)
    PROVE  Within(q, p, metres)
<1>1. SquaredDistance(p, q) = SquaredDistance(q, p)
  <2>1. \A a, b \in Int : (a - b) * (a - b) = (b - a) * (b - a)
    OBVIOUS
  <2> QED
    BY <2>1 DEF SquaredDistance
<1> QED
  BY <1>1 DEF Within

\* Being apart has no direction.
LEMMA ApartSymmetric ==
    ASSUME Located, NEW g \in DOMAIN facts, NEW h \in DOMAIN facts, ~Apart(g, h)
    PROVE  ~Apart(h, g)
<1>1. Within(facts[h], facts[g], PostDiameter)
  <2>1. Within(facts[g], facts[h], PostDiameter)
    BY DEF Apart
  <2>2. /\ facts[g].x \in Int /\ facts[g].y \in Int
        /\ facts[h].x \in Int /\ facts[h].y \in Int
    BY DEF Located
  <2> QED
    BY <2>1, <2>2, WithinSymmetric
<1>2. /\ facts[h].stop = facts[g].stop
      /\ facts[h].sources \cap facts[g].sources = {}
      /\ ~(facts[h].ref # None /\ facts[g].ref # None /\ facts[h].ref # facts[g].ref)
  BY DEF Apart
<1> QED
  BY <1>1, <1>2 DEF Apart

\* Candidates of two posts that may be merged may share a post.
LEMMA MergeableMeet ==
    ASSUME NEW a, NEW b, PostsMergeable(facts, a, b), NEW g \in a, NEW h \in b
    PROVE  ~Apart(g, h)
<1>1. facts[g].stop = facts[h].stop
  BY DEF PostsMergeable
<1>2. facts[g].sources \cap facts[h].sources = {}
  <2>1. facts[g].sources \subseteq SourcesOf(facts, a) /\ facts[h].sources \subseteq SourcesOf(facts, b)
    BY DEF SourcesOf
  <2> QED
    BY <2>1 DEF PostsMergeable
<1>3. ~(facts[g].ref # None /\ facts[h].ref # None /\ facts[g].ref # facts[h].ref)
  <2> SUFFICES ASSUME facts[g].ref # None, facts[h].ref # None PROVE facts[g].ref = facts[h].ref
    OBVIOUS
  <2>1. facts[g].ref \in RefsOf(facts, a \cup b) /\ facts[h].ref \in RefsOf(facts, a \cup b)
    BY DEF RefsOf
  <2> QED
    BY <2>1 DEF PostsMergeable
<1>4. Within(facts[g], facts[h], PostDiameter)
  BY DEF PostsMergeable, CandidatesWithin
<1> QED
  BY <1>1, <1>2, <1>3, <1>4 DEF Apart

\* The candidates lie where the hypotheses of the pack do.
LEMMA FactsLocated ==
    ASSUME pack \in Packs, BuildFacts
    PROVE  Located'
<1> DEFINE kept == StopLevelSources(pack.observations)
<1>1. facts' = CandidateFacts(pack.hypotheses, pack.observations, kept)
  BY DEF BuildFacts
<1>2. \A h \in DOMAIN facts' : /\ h \in DOMAIN pack.hypotheses
                               /\ facts'[h].x = pack.hypotheses[h].x
                               /\ facts'[h].y = pack.hypotheses[h].y
  <2> HIDE DEF kept
  <2> QED
    BY <1>1 DEF CandidateFacts
<1>3. /\ IsFiniteSet(DOMAIN pack.hypotheses) /\ DOMAIN pack.hypotheses \subseteq Int
      /\ \A h \in DOMAIN pack.hypotheses : pack.hypotheses[h].x \in Int /\ pack.hypotheses[h].y \in Int
  BY PacksAssumption
<1>4. DOMAIN facts' \subseteq DOMAIN pack.hypotheses
  BY <1>2
<1>5. IsFiniteSet(DOMAIN facts') /\ DOMAIN facts' \subseteq Int
  BY <1>3, <1>4, FS_Subset
<1> QED
  BY <1>2, <1>3, <1>5 DEF Located

\* Merging two posts that may be merged keeps the posts sound.
LEMMA JoinedPostsSound ==
    ASSUME Located, PostsAreSound, UNCHANGED facts,
           NEW a \in posts, NEW b \in posts, PostsMergeable(facts, a, b),
           posts' = (posts \ {a, b}) \cup {a \cup b}
    PROVE  PostsAreSound'
<1>1. UNION posts' = DOMAIN facts' /\ {} \notin posts'
  <2>1. UNION posts' = UNION posts
    OBVIOUS
  <2>2. {} \notin posts /\ UNION posts = DOMAIN facts
    BY DEF PostsAreSound
  <2>3. a \cup b # {}
    <3>1. PICK g : g \in a
      BY <2>2
    <3> QED
      BY <3>1
  <2> QED
    BY <2>1, <2>2, <2>3
<1>2. ASSUME NEW p \in posts', NEW q \in posts', p # q PROVE p \cap q = {}
  <2>1. \A r, s \in posts : r # s => r \cap s = {}
    BY DEF PostsAreSound
  <2>2. CASE p = a \cup b
    BY <1>2, <2>1, <2>2
  <2>3. CASE q = a \cup b
    BY <1>2, <2>1, <2>3
  <2>4. CASE p # a \cup b /\ q # a \cup b
    BY <1>2, <2>1, <2>4
  <2> QED
    BY <2>2, <2>3, <2>4
<1>3. ASSUME NEW p \in posts', NEW g \in p, NEW h \in p, g # h PROVE ~Apart(g, h)
  <2>1. \A r \in posts : \A i, j \in r : i # j => ~Apart(i, j)
    BY DEF PostsAreSound
  <2>2. CASE p \in posts
    BY <1>3, <2>1, <2>2
  <2>3. CASE p = a \cup b
    <3>1. CASE g \in a /\ h \in b
      BY <3>1, MergeableMeet
    <3>2. CASE g \in b /\ h \in a
      <4>1. ~Apart(h, g)
        BY <3>2, MergeableMeet
      <4>2. g \in DOMAIN facts /\ h \in DOMAIN facts
        BY <3>2 DEF PostsAreSound
      <4> QED
        BY <4>1, <4>2, ApartSymmetric
    <3>3. CASE (g \in a /\ h \in a) \/ (g \in b /\ h \in b)
      BY <1>3, <2>1, <3>3
    <3> QED
      BY <2>3, <3>1, <3>2, <3>3
  <2> QED
    BY <2>2, <2>3
<1>4. \A g, h : Apart(g, h)' <=> Apart(g, h)
  BY DEF Apart
<1>5. \A p \in posts' : \A g, h \in p : g # h => ~Apart(g, h)'
  BY <1>3, <1>4
<1> QED
  BY <1>1, <1>2, <1>5 DEF PostsAreSound

\* There are no candidates at first.
LEMMA InitialPosts == TableInit => PostsInv
<1> SUFFICES ASSUME TableInit PROVE PostsInv
  OBVIOUS
<1>1. DOMAIN facts = {} /\ posts = {} /\ pack \in Packs
  BY DEF TableInit
<1> QED
  BY <1>1, FS_EmptySet DEF PostsInv, Located, PostsAreSound

LEMMA PostsStep == PostsInv /\ [TableNext]_tableVars => PostsInv'
<1> SUFFICES ASSUME PostsInv, [TableNext]_tableVars PROVE PostsInv'
  OBVIOUS
<1>1. pack' = pack
  BY DEF TableNext, tableVars, LabelFromOverlay, LabelFromCorrections, LabelFromAuthored, BuildFacts,
         MergePosts, PostsSettled, MergeAreas, AreasSettled, SelectRows, MarkPositives,
         CountDepartures, Complete
<1>2. CASE UNCHANGED <<facts, posts>>
  BY <1>1, <1>2 DEF PostsInv, Located, PostsAreSound, Apart
<1>3. CASE BuildFacts
  <2>1. posts' = {{h} : h \in DOMAIN facts'}
    BY <1>3 DEF BuildFacts
  <2>2. PostsAreSound'
    BY <2>1 DEF PostsAreSound
  <2>3. Located'
    BY <1>3, FactsLocated DEF PostsInv
  <2> QED
    BY <1>1, <2>2, <2>3 DEF PostsInv
<1>4. CASE MergePosts
  <2>1. PICK p \in PostPairs(facts, posts) : posts' = Joined(posts, p)
    BY <1>4 DEF MergePosts
  <2>2. /\ p[1] \in posts /\ p[2] \in posts
        /\ PostsMergeable(facts, p[1], p[2])
    BY <2>1 DEF PostPairs
  <2>3. posts' = (posts \ {p[1], p[2]}) \cup {p[1] \cup p[2]}
    BY <2>1 DEF Joined
  <2>4. UNCHANGED facts
    BY <1>4 DEF MergePosts
  <2>5. PostsAreSound'
    BY <2>2, <2>3, <2>4, JoinedPostsSound DEF PostsInv
  <2>6. Located'
    BY <2>4 DEF PostsInv, Located
  <2> QED
    BY <1>1, <2>5, <2>6 DEF PostsInv
<1> QED
  BY <1>2, <1>3, <1>4
  DEF TableNext, tableVars, LabelFromOverlay, LabelFromCorrections, LabelFromAuthored, PostsSettled,
      MergeAreas, AreasSettled, SelectRows, MarkPositives, CountDepartures, Complete

\* Whatever the candidates of a pack, the posts are a partition of them throughout the clustering,
\* and no two candidates of a post are of one source, of different stops or numbers, or further
\* apart than the diameter (_cluster_stop).
THEOREM PhysicalPosts == TableSpec => []PostsAreSound
BY InitialPosts, PostsStep, PTL DEF TableSpec, PostsInv

-----------------------------------------------------------------------------
\* The closest pairs.

LEMMA GapIsInt ==
  ASSUME Located, NEW g \in DOMAIN facts, NEW h \in DOMAIN facts
  PROVE  /\ SquaredDistance(facts[g], facts[h]) \in Int
         /\ SquaredDistance(facts[g], facts[h]) = SquaredDistance(facts[h], facts[g])
<1>1. /\ facts[g].x \in Int /\ facts[g].y \in Int
      /\ facts[h].x \in Int /\ facts[h].y \in Int
  BY DEF Located
<1>2. \A a, b \in Int : (a - b) * (a - b) \in Int /\ (a - b) * (a - b) = (b - a) * (b - a)
  OBVIOUS
<1> QED BY <1>1, <1>2 DEF SquaredDistance

\* A post is a finite set of candidates, and has a least one.
LEMMA PostHasLeast ==
  ASSUME Located, PostsAreSound, NEW p \in posts
  PROVE  /\ IsFiniteSet(p) /\ p \subseteq DOMAIN facts /\ p # {}
         /\ Min(p) \in p /\ Min(p) \in Int
<1>1. p \subseteq DOMAIN facts /\ p # {}
  BY DEF PostsAreSound
<1>2. IsFiniteSet(p) /\ p \subseteq Int
  BY <1>1, FS_Subset DEF Located
<1> QED BY <1>1, <1>2, MinIsLeast

LEMMA PostOfMember ==
  ASSUME PostsAreSound, NEW p \in posts, NEW h \in p
  PROVE  PostOf(h) = p
<1>1. \A q \in posts : h \in q => q = p
  BY DEF PostsAreSound
<1> QED BY <1>1 DEF PostOf

\* Each is the other's nearest possible partner.
Mutual(g, h) ==
    /\ g # h /\ ~Apart(g, h)
    /\ \A k \in DOMAIN facts \ {g, h} :
            /\ ~Apart(g, k) => SquaredDistance(facts[g], facts[h]) < SquaredDistance(facts[g], facts[k])
            /\ ~Apart(h, k) => SquaredDistance(facts[g], facts[h]) < SquaredDistance(facts[h], facts[k])

LEMMA MutualSymmetric ==
  ASSUME Located, NEW g \in DOMAIN facts, NEW h \in DOMAIN facts, Mutual(g, h)
  PROVE  Mutual(h, g)
<1>1. ~Apart(h, g) /\ SquaredDistance(facts[g], facts[h]) = SquaredDistance(facts[h], facts[g])
  BY ApartSymmetric, GapIsInt DEF Mutual
<1> QED BY <1>1 DEF Mutual

\* Two candidates that may share a post can be merged while each is a post of its own.
LEMMA SinglesMergeable ==
  ASSUME NEW g, NEW h, ~Apart(g, h)
  PROVE  PostsMergeable(facts, {g}, {h})
<1>1. facts[g].stop = facts[h].stop /\ Within(facts[g], facts[h], PostDiameter)
  BY DEF Apart
<1>2. SourcesOf(facts, {g}) \cap SourcesOf(facts, {h}) = {}
  BY DEF Apart, SourcesOf
<1>3. \A r, s \in RefsOf(facts, {g} \cup {h}) : r = s
  BY DEF Apart, RefsOf
<1> QED BY <1>1, <1>2, <1>3 DEF PostsMergeable, CandidatesWithin

\* The gap between two posts is that of two of their candidates, if one is a candidate alone.
LEMMA GapOfSingle ==
  ASSUME Located, PostsAreSound, NEW g, {g} \in posts, NEW b \in posts
  PROVE  /\ \E k \in b : PostGap(facts, <<{g}, b>>) = SquaredDistance(facts[g], facts[k])
         /\ \E k \in b : PostGap(facts, <<b, {g}>>) = SquaredDistance(facts[k], facts[g])
<1>1. g \in DOMAIN facts /\ IsFiniteSet(b) /\ b \subseteq DOMAIN facts /\ b # {}
  BY PostHasLeast DEF PostsAreSound
<1> DEFINE f == [k \in b |-> SquaredDistance(facts[g], facts[k])]
<1>2. \A k \in b : f[k] \in Int /\ f[k] = SquaredDistance(facts[k], facts[g])
  BY <1>1, GapIsInt
<1>3. PICK k \in b : \A j \in b : f[k] >= f[j]
  <2> HIDE DEF f
  <2> QED BY <1>1, <1>2, Extremes
<1> DEFINE gaps == {f[j] : j \in b}
<1>4. f[k] \in gaps /\ (\A x \in gaps : f[k] >= x)
  BY <1>3
<1>5. Max(gaps) \in gaps
  <2> HIDE DEF gaps
  <2> QED BY <1>4 DEF Max
<1>6. PICK j \in b : Max(gaps) = f[j]
  BY <1>5
<1>7. PostGap(facts, <<{g}, b>>) = Max(gaps)
  <2>1. {SquaredDistance(facts[i], facts[l]) : i \in {g}, l \in b} = gaps
    OBVIOUS
  <2> QED BY <2>1 DEF PostGap
<1>8. PostGap(facts, <<b, {g}>>) = Max(gaps)
  <2>1. {SquaredDistance(facts[i], facts[l]) : i \in b, l \in {g}} = gaps
    BY <1>2
  <2>2. PostGap(facts, <<b, {g}>>) = Max({SquaredDistance(facts[i], facts[l]) : i \in b, l \in {g}})
    BY DEF PostGap
  <2> HIDE DEF gaps
  <2> QED BY <2>1, <2>2
<1> QED BY <1>2, <1>6, <1>7, <1>8

\* Of two nearest partners that are posts of their own, the closest merge takes both or none.
LEMMA ClosestTakesBoth ==
  ASSUME Located, PostsAreSound, NEW g \in DOMAIN facts, NEW h \in DOMAIN facts, Mutual(g, h),
         {g} \in posts, {h} \in posts, NEW p \in PostPairs(facts, posts),
         \A q \in PostPairs(facts, posts) \ {p} : PostPairBefore(facts, p, q),
         {g} \in {p[1], p[2]}
  PROVE  {h} \in {p[1], p[2]}
<1> SUFFICES ASSUME {h} \notin {p[1], p[2]} PROVE FALSE
  OBVIOUS
<1>1. g # h /\ ~Apart(g, h) /\ ~Apart(h, g)
  BY ApartSymmetric DEF Mutual
<1>2. /\ p = <<p[1], p[2]>> /\ p[1] \in posts /\ p[2] \in posts
      /\ Min(p[1]) < Min(p[2]) /\ PostsMergeable(facts, p[1], p[2])
  BY DEF PostPairs
<1>3. \E k \in DOMAIN facts \ {g, h} : ~Apart(g, k) /\ PostGap(facts, p) = SquaredDistance(facts[g], facts[k])
  <2>1. CASE {g} = p[1]
    <3>1. \E k \in p[2] : PostGap(facts, <<{g}, p[2]>>) = SquaredDistance(facts[g], facts[k])
      BY <1>2, GapOfSingle
    <3>2. PICK k \in p[2] : PostGap(facts, p) = SquaredDistance(facts[g], facts[k])
      BY <1>2, <2>1, <3>1
    <3>3. ~Apart(g, k)
      BY <1>2, <2>1, MergeableMeet
    <3>4. p[2] # {g}
      BY <1>2, <2>1, PostHasLeast
    <3>5. k \in DOMAIN facts /\ k # g /\ k # h
      BY <1>2, <3>4 DEF PostsAreSound
    <3> QED BY <3>2, <3>3, <3>5
  <2>2. CASE {g} = p[2]
    <3>1. \E k \in p[1] : PostGap(facts, <<p[1], {g}>>) = SquaredDistance(facts[k], facts[g])
      BY <1>2, GapOfSingle
    <3>2. PICK k \in p[1] : PostGap(facts, p) = SquaredDistance(facts[k], facts[g])
      BY <1>2, <2>2, <3>1
    <3>3. p[1] # {g}
      BY <1>2, <2>2, PostHasLeast
    <3>4. k \in DOMAIN facts /\ k # g /\ k # h
      BY <1>2, <3>3 DEF PostsAreSound
    <3>5. ~Apart(g, k)
      BY <1>2, <2>2, <3>4, MergeableMeet, ApartSymmetric
    <3> QED BY <3>2, <3>4, <3>5, GapIsInt
  <2> QED BY <2>1, <2>2
<1>4. PICK gap \in Int : gap = PostGap(facts, p) /\ SquaredDistance(facts[g], facts[h]) < gap
  BY <1>3, GapIsInt DEF Mutual
<1> DEFINE q == IF g < h THEN <<{g}, {h}>> ELSE <<{h}, {g}>>
<1>5. q \in PostPairs(facts, posts) /\ q # p
  <2>1. Min({g}) = g /\ Min({h}) = h
    BY PostHasLeast
  <2>2. g < h \/ h < g
    BY <1>1 DEF Located
  <2>3. PostsMergeable(facts, {g}, {h}) /\ PostsMergeable(facts, {h}, {g})
    BY <1>1, SinglesMergeable
  <2> QED BY <1>2, <2>1, <2>2, <2>3 DEF PostPairs
<1>6. PostGap(facts, q) = SquaredDistance(facts[g], facts[h])
  <2>1. /\ PostGap(facts, <<{g}, {h}>>) = SquaredDistance(facts[g], facts[h])
        /\ PostGap(facts, <<{h}, {g}>>) = SquaredDistance(facts[h], facts[g])
    BY GapOfSingle
  <2> QED BY <2>1, GapIsInt
<1>7. PostPairBefore(facts, p, q)
  BY <1>5
<1>8. PostGap(facts, p) <= PostGap(facts, q)
  BY <1>4, <1>6, <1>7, GapIsInt DEF PostPairBefore
<1> QED BY <1>4, <1>6, <1>8, GapIsInt

\* Two such candidates are posts of their own until they are one.
Alone(g, h) == {g} \in posts /\ {h} \in posts
Joint(g, h) == \E p \in posts : g \in p /\ h \in p
NearestInv ==
    /\ stage = "posts" => \A g, h \in DOMAIN facts : Mutual(g, h) => Alone(g, h) \/ Joint(g, h)
    /\ After("posts") => \A g, h \in DOMAIN facts : Mutual(g, h) => Joint(g, h)

\* Every other step leaves the clustering of candidates alone.
LEMMA PostsAfter ==
  ASSUME [TableNext]_tableVars, ~BuildFacts, ~MergePosts
  PROVE  /\ UNCHANGED <<facts, posts>>
         /\ (stage = "posts")' => stage = "posts"
         /\ After("posts")' => After("posts") \/ PostsSettled
BY DEF TableNext, tableVars, LabelFromOverlay, LabelFromCorrections, LabelFromAuthored, PostsSettled,
       MergeAreas, AreasSettled, SelectRows, MarkPositives, CountDepartures, Complete, After

LEMMA NearestStep == PostsInv /\ NearestInv /\ [TableNext]_tableVars => NearestInv'
<1> SUFFICES ASSUME PostsInv, NearestInv, [TableNext]_tableVars PROVE NearestInv'
  OBVIOUS
<1>1. Located /\ PostsAreSound
  BY DEF PostsInv
<1>2. CASE BuildFacts
  <2>1. posts' = {{h} : h \in DOMAIN facts'} /\ stage' = "posts"
    BY <1>2 DEF BuildFacts
  <2> QED BY <2>1 DEF NearestInv, Alone, After
<1>3. CASE MergePosts
  <2>1. PICK p \in PostPairs(facts, posts) : /\ \A q \in PostPairs(facts, posts) \ {p} : PostPairBefore(facts, p, q)
                                             /\ posts' = Joined(posts, p)
    BY <1>3 DEF MergePosts
  <2>2. stage = "posts" /\ stage' = "posts" /\ facts' = facts
    BY <1>3 DEF MergePosts
  <2>3. p[1] \in posts /\ p[2] \in posts /\ posts' = (posts \ {p[1], p[2]}) \cup {p[1] \cup p[2]}
    BY <2>1 DEF PostPairs, Joined
  <2>4. ASSUME NEW g \in DOMAIN facts, NEW h \in DOMAIN facts, Mutual(g, h)
        PROVE  Alone(g, h)' \/ Joint(g, h)'
    <3>1. CASE Joint(g, h)
      BY <2>3, <3>1 DEF Joint
    <3>2. CASE Alone(g, h)
      <4>1. {g} \in {p[1], p[2]} <=> {h} \in {p[1], p[2]}
        <5>1. Mutual(h, g)
          BY <1>1, <2>4, MutualSymmetric
        <5> QED BY <1>1, <2>1, <2>4, <3>2, <5>1, ClosestTakesBoth DEF Alone
      <4>2. CASE {g} \in {p[1], p[2]} /\ {h} \in {p[1], p[2]}
        <5>1. g # h
          BY <2>4 DEF Mutual
        <5>2. g \in p[1] \cup p[2] /\ h \in p[1] \cup p[2]
          BY <4>2
        <5> QED BY <2>3, <5>2 DEF Joint
      <4>3. CASE {g} \notin {p[1], p[2]} /\ {h} \notin {p[1], p[2]}
        BY <2>3, <3>2, <4>3 DEF Alone
      <4> QED BY <4>1, <4>2, <4>3
    <3> QED BY <2>2, <2>4, <3>1, <3>2 DEF NearestInv
  <2>5. \A g, h : Mutual(g, h)' <=> Mutual(g, h)
    BY <2>2 DEF Mutual, Apart
  <2> QED BY <2>2, <2>4, <2>5 DEF NearestInv, After
<1>4. CASE ~BuildFacts /\ ~MergePosts
  <2>1. /\ UNCHANGED <<facts, posts>>
        /\ (stage = "posts")' => stage = "posts"
        /\ After("posts")' => After("posts") \/ PostsSettled
    BY <1>4, PostsAfter
  <2>2. \A g, h : /\ Mutual(g, h)' <=> Mutual(g, h)
                  /\ Alone(g, h)' <=> Alone(g, h)
                  /\ Joint(g, h)' <=> Joint(g, h)
    BY <2>1 DEF Mutual, Apart, Alone, Joint
  <2>3. ASSUME PostsSettled, NEW g \in DOMAIN facts, NEW h \in DOMAIN facts, Mutual(g, h)
        PROVE  Joint(g, h)
    <3>1. stage = "posts" /\ PostPairs(facts, posts) = {}
      BY <2>3 DEF PostsSettled
    <3>2. SUFFICES ASSUME Alone(g, h) PROVE FALSE
      BY <2>3, <3>1 DEF NearestInv
    <3>3. Min({g}) = g /\ Min({h}) = h
      BY <1>1, <3>2, PostHasLeast DEF Alone
    <3>4. g < h \/ h < g
      BY <1>1, <2>3 DEF Mutual, Located
    <3>5. PostsMergeable(facts, {g}, {h}) /\ PostsMergeable(facts, {h}, {g})
      BY <1>1, <2>3, ApartSymmetric, SinglesMergeable DEF Mutual
    <3>6. <<{g}, {h}>> \in PostPairs(facts, posts) \/ <<{h}, {g}>> \in PostPairs(facts, posts)
      BY <3>2, <3>3, <3>4, <3>5 DEF Alone, PostPairs
    <3> QED BY <3>1, <3>6
  <2> QED BY <2>1, <2>2, <2>3 DEF NearestInv
<1> QED BY <1>2, <1>3, <1>4

\* Whatever the candidates of a pack, two that are each other's nearest possible partner end in one
\* post: a merge takes the closest pair, so neither is taken by another first (_cluster_stop).
THEOREM NearestEndTogether == TableSpec => []NearestShareAPost
<1>1. TableInit => PostsInv /\ NearestInv
  <2>1. TableInit => NearestInv
    BY DEF TableInit, NearestInv, After
  <2> QED BY <2>1, InitialPosts
<1>2. PostsInv /\ NearestInv => NearestShareAPost
  <2> SUFFICES ASSUME PostsInv, NearestInv, After("posts"), NEW g \in DOMAIN facts, NEW h \in DOMAIN facts,
                      Mutual(g, h)
               PROVE  PostOf(g) = PostOf(h)
    BY DEF NearestShareAPost, Mutual
  <2>1. PICK p \in posts : g \in p /\ h \in p
    BY DEF NearestInv, Joint
  <2> QED BY <2>1, PostOfMember DEF PostsInv
<1> QED BY <1>1, <1>2, PostsStep, NearestStep, PTL DEF TableSpec

-----------------------------------------------------------------------------
\* Areas.

\* The coordinates of a centre are sums of those of its candidates.
LEMMA SumOfX ==
  ASSUME NEW S, IsFiniteSet(S)
  PROVE  MapThenSumSet(LAMBDA h : facts[h].x, S) = SumOver([h \in S |-> facts[h].x], S)
<1> DEFINE f == [h \in S |-> facts[h].x]
           Next(g, s) == IF s = {} THEN 0 ELSE facts[Chosen(s)].x + g[s \ {Chosen(s)}]
           It == CHOOSE g : g = [s \in SUBSET S |-> Next(g, s)]
<1>1. MapThenSumSet(LAMBDA h : facts[h].x, S) = It[S]
  BY DEF MapThenSumSet, MapThenFoldSet, Chosen
<1>2. \A g : \A s \in SUBSET S : Next(g, s) = IterStep(g, f, s)
  BY ChosenIn DEF IterStep
<1>3. \A g : [s \in SUBSET S |-> Next(g, s)] = [s \in SUBSET S |-> IterStep(g, f, s)]
  <2> HIDE DEF Next, f
  <2> QED BY <1>2
<1>4. IsIter(Iter(f, S), f, S)
  BY IterExists
<1> HIDE DEF Next, f
<1>5. It = [s \in SUBSET S |-> Next(It, s)]
  BY <1>3, <1>4 DEF IsIter
<1>6. IsIter(It, f, S)
  <2> HIDE DEF It
  <2> QED BY <1>3, <1>5 DEF IsIter
<1>7. It[S] = Iter(f, S)[S]
  <2> HIDE DEF It
  <2>1. PICK g, h : g = It /\ h = Iter(f, S)
    OBVIOUS
  <2>2. \A s \in SUBSET S : g[s] = h[s]
    BY <1>4, <1>6, <2>1, IterUnique
  <2> QED BY <2>1, <2>2
<1> QED BY <1>1, <1>7, SumIsIter DEF f

LEMMA SumOfY ==
  ASSUME NEW S, IsFiniteSet(S)
  PROVE  MapThenSumSet(LAMBDA h : facts[h].y, S) = SumOver([h \in S |-> facts[h].y], S)
<1> DEFINE f == [h \in S |-> facts[h].y]
           Next(g, s) == IF s = {} THEN 0 ELSE facts[Chosen(s)].y + g[s \ {Chosen(s)}]
           It == CHOOSE g : g = [s \in SUBSET S |-> Next(g, s)]
<1>1. MapThenSumSet(LAMBDA h : facts[h].y, S) = It[S]
  BY DEF MapThenSumSet, MapThenFoldSet, Chosen
<1>2. \A g : \A s \in SUBSET S : Next(g, s) = IterStep(g, f, s)
  BY ChosenIn DEF IterStep
<1>3. \A g : [s \in SUBSET S |-> Next(g, s)] = [s \in SUBSET S |-> IterStep(g, f, s)]
  <2> HIDE DEF Next, f
  <2> QED BY <1>2
<1>4. IsIter(Iter(f, S), f, S)
  BY IterExists
<1> HIDE DEF Next, f
<1>5. It = [s \in SUBSET S |-> Next(It, s)]
  BY <1>3, <1>4 DEF IsIter
<1>6. IsIter(It, f, S)
  <2> HIDE DEF It
  <2> QED BY <1>3, <1>5 DEF IsIter
<1>7. It[S] = Iter(f, S)[S]
  <2> HIDE DEF It
  <2>1. PICK g, h : g = It /\ h = Iter(f, S)
    OBVIOUS
  <2>2. \A s \in SUBSET S : g[s] = h[s]
    BY <1>4, <1>6, <2>1, IterUnique
  <2> QED BY <2>1, <2>2
<1> QED BY <1>1, <1>7, SumIsIter DEF f

\* A centre lies on the grid.
LEMMA CentreIsInt ==
  ASSUME Located, PostsAreSound, NEW p \in posts
  PROVE  Centre(facts, p).x \in Int /\ Centre(facts, p).y \in Int
<1>1. IsFiniteSet(p) /\ p \subseteq DOMAIN facts /\ p # {}
  BY PostHasLeast
<1>2. \A h \in p : facts[h].x \in Int /\ facts[h].y \in Int
  BY <1>1 DEF Located
<1>3. MapThenSumSet(LAMBDA h : facts[h].x, p) \in Int
  <2> DEFINE f == [h \in p |-> facts[h].x]
  <2>1. \A h \in p : f[h] \in Int
    BY <1>2
  <2> HIDE DEF f
  <2>2. SumOver(f, p) \in Int
    BY <1>1, <2>1, SumIsInt
  <2> QED BY <1>1, <2>2, SumOfX DEF f
<1>4. MapThenSumSet(LAMBDA h : facts[h].y, p) \in Int
  <2> DEFINE f == [h \in p |-> facts[h].y]
  <2>1. \A h \in p : f[h] \in Int
    BY <1>2
  <2> HIDE DEF f
  <2>2. SumOver(f, p) \in Int
    BY <1>1, <2>1, SumIsInt
  <2> QED BY <1>1, <2>2, SumOfY DEF f
<1>5. Cardinality(p) \in Nat \ {0}
  BY <1>1, FS_CardinalityType, FS_EmptySet
<1> DEFINE X == MapThenSumSet(LAMBDA h : facts[h].x, p)
           Y == MapThenSumSet(LAMBDA h : facts[h].y, p)
<1>6. Centre(facts, p).x = (Resolution * X) \div Cardinality(p) /\ Centre(facts, p).y = (Resolution * Y) \div Cardinality(p)
  BY DEF Centre
<1>7. \A s \in Int, n \in Nat \ {0} : (12 * s) \div n \in Int
  OBVIOUS
<1>8. X \in Int /\ Y \in Int
  BY <1>3, <1>4
<1> HIDE DEF X, Y
<1> QED BY <1>5, <1>6, <1>7, <1>8 DEF Resolution

\* Posts that may share an area.
Alike(p, q) ==
    /\ \A g \in p, h \in q : facts[g].stop = facts[h].stop
    /\ \A c \in Classes[p], d \in Classes[q] : c = d
    /\ Within(Centre(facts, p), Centre(facts, q), Resolution * AreaDiameter)

LEMMA AlikeSymmetric ==
  ASSUME Located, PostsAreSound, NEW p \in posts, NEW q \in posts, Alike(p, q)
  PROVE  Alike(q, p)
<1>1. Within(Centre(facts, q), Centre(facts, p), Resolution * AreaDiameter)
  BY CentreIsInt, WithinSymmetric DEF Alike
<1> QED BY <1>1 DEF Alike

\* Posts of two areas that may be merged may share an area.
LEMMA AreasMeet ==
  ASSUME NEW a, NEW b, AreasMergeable(facts, Classes, a, b), NEW p \in a, NEW q \in b
  PROVE  Alike(p, q)
<1>1. /\ \A g \in p, h \in q : facts[g].stop = facts[h].stop
      /\ Within(Centre(facts, p), Centre(facts, q), Resolution * AreaDiameter)
  BY DEF AreasMergeable, PostsWithin
<1>2. ASSUME NEW c \in Classes[p], NEW d \in Classes[q] PROVE c = d
  <2>1. c \in UNION {Classes[r] : r \in a \cup b} /\ d \in UNION {Classes[r] : r \in a \cup b}
    OBVIOUS
  <2>2. \A e, f \in UNION {Classes[r] : r \in a \cup b} : e = f
    BY DEF AreasMergeable
  <2> QED BY <2>1, <2>2
<1> QED BY <1>1, <1>2 DEF Alike

\* Areas are a partition of the posts, and no two posts of an area need to be kept out of it.
AreasArePartition ==
    /\ UNION areas = posts
    /\ {} \notin areas
    /\ \A a, b \in areas : a # b => a \cap b = {}
    /\ \A a \in areas : \A p, q \in a : p # q => Alike(p, q)
AreasInv ==
    /\ stage = "areas" \/ After("areas") => AreasArePartition
    /\ After("areas") => AreaPairs(facts, Classes, areas) = {}

\* Merging two areas that may be merged keeps them so.
LEMMA JoinedAreas ==
  ASSUME Located, PostsAreSound, AreasArePartition, UNCHANGED <<pack, facts, posts>>,
         NEW a \in areas, NEW b \in areas, AreasMergeable(facts, Classes, a, b),
         areas' = (areas \ {a, b}) \cup {a \cup b}
  PROVE  AreasArePartition'
<1>1. UNION areas' = posts' /\ {} \notin areas'
  <2>1. UNION areas' = UNION areas
    OBVIOUS
  <2>2. {} \notin areas /\ UNION areas = posts
    BY DEF AreasArePartition
  <2>3. PICK p : p \in a
    BY <2>2
  <2> QED BY <2>1, <2>2, <2>3
<1>2. ASSUME NEW c \in areas', NEW d \in areas', c # d PROVE c \cap d = {}
  <2>1. \A r, s \in areas : r # s => r \cap s = {}
    BY DEF AreasArePartition
  <2>2. CASE c = a \cup b
    BY <1>2, <2>1, <2>2
  <2>3. CASE d = a \cup b
    BY <1>2, <2>1, <2>3
  <2>4. CASE c # a \cup b /\ d # a \cup b
    BY <1>2, <2>1, <2>4
  <2> QED BY <2>2, <2>3, <2>4
<1>3. ASSUME NEW c \in areas', NEW p \in c, NEW q \in c, p # q PROVE Alike(p, q)
  <2>1. \A r \in areas : \A i, j \in r : i # j => Alike(i, j)
    BY DEF AreasArePartition
  <2>2. CASE c \in areas
    BY <1>3, <2>1, <2>2
  <2>3. CASE c = a \cup b
    <3>1. CASE p \in a /\ q \in b
      BY <3>1, AreasMeet
    <3>2. CASE p \in b /\ q \in a
      <4>1. Alike(q, p)
        BY <3>2, AreasMeet
      <4>2. p \in posts /\ q \in posts
        BY <3>2 DEF AreasArePartition
      <4> QED BY <4>1, <4>2, AlikeSymmetric
    <3>3. CASE (p \in a /\ q \in a) \/ (p \in b /\ q \in b)
      BY <1>3, <2>1, <3>3
    <3> QED BY <2>3, <3>1, <3>2, <3>3
  <2> QED BY <2>2, <2>3
<1>4. \A p, q : Alike(p, q)' <=> Alike(p, q)
  BY DEF Alike, Classes
<1>5. \A c \in areas' : \A p, q \in c : p # q => Alike(p, q)'
  BY <1>3, <1>4
<1> QED BY <1>1, <1>2, <1>5 DEF AreasArePartition

\* Every other step leaves the clustering of posts alone.
LEMMA AreasAfter ==
  ASSUME [TableNext]_tableVars, ~MergePosts, ~PostsSettled, ~MergeAreas, ~BuildFacts
  PROVE  /\ UNCHANGED <<pack, facts, posts, areas>>
         /\ (stage = "areas" \/ After("areas"))' => stage = "areas" \/ After("areas")
         /\ After("areas")' => After("areas") \/ AreasSettled
BY DEF TableNext, tableVars, LabelFromOverlay, LabelFromCorrections, LabelFromAuthored,
       AreasSettled, SelectRows, MarkPositives, CountDepartures, Complete, After

LEMMA AreasStep == PostsInv /\ AreasInv /\ [TableNext]_tableVars => AreasInv'
<1> SUFFICES ASSUME PostsInv, AreasInv, [TableNext]_tableVars PROVE AreasInv'
  OBVIOUS
<1>1. CASE MergePosts \/ BuildFacts
  <2>1. stage' = "posts"
    BY <1>1 DEF MergePosts, BuildFacts
  <2> QED BY <2>1 DEF AreasInv, After
<1>2. CASE PostsSettled
  <2>1. areas' = {{p} : p \in posts} /\ posts' = posts /\ stage' = "areas"
    BY <1>2 DEF PostsSettled
  <2>2. AreasArePartition'
    BY <2>1 DEF AreasArePartition
  <2> QED BY <2>1, <2>2 DEF AreasInv, After
<1>3. CASE MergeAreas
  <2>1. PICK p \in AreaPairs(facts, Classes, areas) : areas' = Joined(areas, p)
    BY <1>3 DEF MergeAreas
  <2>2. stage = "areas" /\ stage' = "areas" /\ UNCHANGED <<pack, facts, posts>>
    BY <1>3 DEF MergeAreas
  <2>3. /\ p[1] \in areas /\ p[2] \in areas
        /\ AreasMergeable(facts, Classes, p[1], p[2])
        /\ areas' = (areas \ {p[1], p[2]}) \cup {p[1] \cup p[2]}
    BY <2>1 DEF AreaPairs, Joined
  <2>4. AreasArePartition'
    BY <2>2, <2>3, JoinedAreas DEF AreasInv, PostsInv
  <2> QED BY <2>2, <2>4 DEF AreasInv, After
<1>4. CASE ~MergePosts /\ ~PostsSettled /\ ~MergeAreas /\ ~BuildFacts
  <2>1. /\ UNCHANGED <<pack, facts, posts, areas>>
        /\ (stage = "areas" \/ After("areas"))' => stage = "areas" \/ After("areas")
        /\ After("areas")' => After("areas") \/ AreasSettled
    BY <1>4, AreasAfter
  <2>2. Classes' = Classes
    BY <2>1 DEF Classes
  <2>3. AreasArePartition' <=> AreasArePartition
    BY <2>1, <2>2 DEF AreasArePartition, Alike
  <2>4. AreaPairs(facts, Classes, areas)' = AreaPairs(facts, Classes, areas)
    BY <2>1, <2>2
  <2>5. AreasSettled => AreaPairs(facts, Classes, areas) = {}
    BY DEF AreasSettled
  <2> QED BY <2>1, <2>3, <2>4, <2>5 DEF AreasInv
<1> QED BY <1>1, <1>2, <1>3, <1>4

\* Two posts alone in their areas, which no area could hold together.
LEMMA SinglesKeptApart ==
  ASSUME Located, PostsAreSound, AreaPairs(facts, Classes, areas) = {},
         NEW p \in posts, NEW q \in posts, p # q, {p} \in areas, {q} \in areas,
         \A g \in p, h \in q : facts[g].stop = facts[h].stop
  PROVE  \/ ~Within(Centre(facts, p), Centre(facts, q), Resolution * AreaDiameter)
         \/ {Classes[p], Classes[q]} = {{"road"}, {"tram"}}
<1>1. LeastOf({p}) = Min(p) /\ LeastOf({q}) = Min(q)
  <2>1. {Min(r) : r \in {p}} = {Min(p)} /\ {Min(r) : r \in {q}} = {Min(q)}
    OBVIOUS
  <2>2. ASSUME NEW n \in Int PROVE Min({n}) = n
    <3>1. Min({n}) \in {n}
      BY FS_Singleton, MinIsLeast
    <3> QED BY <3>1
  <2> QED BY <2>1, <2>2, PostHasLeast DEF LeastOf
<1>2. Min(p) < Min(q) \/ Min(q) < Min(p)
  <2>1. Min(p) # Min(q)
    BY PostHasLeast DEF PostsAreSound
  <2> QED BY <2>1, PostHasLeast
<1>3. ~AreasMergeable(facts, Classes, {p}, {q}) \/ ~AreasMergeable(facts, Classes, {q}, {p})
  <2>1. <<{p}, {q}>> \notin AreaPairs(facts, Classes, areas) /\ <<{q}, {p}>> \notin AreaPairs(facts, Classes, areas)
    OBVIOUS
  <2> QED BY <1>1, <1>2, <2>1 DEF AreaPairs
<1>4. SUFFICES ASSUME Within(Centre(facts, p), Centre(facts, q), Resolution * AreaDiameter)
               PROVE  {Classes[p], Classes[q]} = {{"road"}, {"tram"}}
  OBVIOUS
<1>5. Within(Centre(facts, q), Centre(facts, p), Resolution * AreaDiameter)
  BY <1>4, CentreIsInt, WithinSymmetric
<1>6. PICK c, d \in UNION {Classes[r] : r \in {p, q}} : c # d
  BY <1>3, <1>4, <1>5 DEF AreasMergeable, PostsWithin
<1>7. /\ Classes[p] \in {{}, {"road"}, {"tram"}}
      /\ Classes[q] \in {{}, {"road"}, {"tram"}}
  BY DEF Classes, ModeClass
<1>8. c \in Classes[p] \cup Classes[q] /\ d \in Classes[p] \cup Classes[q]
  BY <1>6
<1> QED BY <1>6, <1>7, <1>8

\* Whatever the candidates and modes of a pack, areas end as a partition of the posts into groups
\* of one stop within the diameter, never of trams and roads, and two posts alone in their areas are
\* kept apart by their distance or their classes (post_areas).
THEOREM AreasOfPosts == TableSpec => []AreasAreSound
<1>1. TableInit => PostsInv /\ AreasInv
  <2>1. TableInit => AreasInv
    BY DEF TableInit, AreasInv, After
  <2> QED BY <2>1, InitialPosts
<1>2. PostsInv /\ AreasInv => AreasAreSound
  <2> SUFFICES ASSUME PostsInv, AreasInv, After("areas") PROVE AreasAreSound
    BY DEF AreasAreSound
  <2>1. AreasArePartition /\ AreaPairs(facts, Classes, areas) = {} /\ Located /\ PostsAreSound
    BY DEF AreasInv, PostsInv
  <2>2. UNION areas = posts /\ \A a, b \in areas : a # b => a \cap b = {}
    BY <2>1 DEF AreasArePartition
  <2>3. ASSUME NEW a \in areas, NEW p \in a, NEW q \in a, p # q
        PROVE  /\ \A g \in p, h \in q : facts[g].stop = facts[h].stop
               /\ Within(Centre(facts, p), Centre(facts, q), Resolution * AreaDiameter)
               /\ ~(Classes[p] = {"road"} /\ Classes[q] = {"tram"})
    <3>1. Alike(p, q)
      BY <2>1, <2>3 DEF AreasArePartition
    <3>2. "road" # "tram"
      OBVIOUS
    <3> QED BY <3>1, <3>2 DEF Alike
  <2>4. \A p, q \in posts :
            (p # q /\ {p} \in areas /\ {q} \in areas /\ (\A g \in p, h \in q : facts[g].stop = facts[h].stop))
            => \/ ~Within(Centre(facts, p), Centre(facts, q), Resolution * AreaDiameter)
               \/ {Classes[p], Classes[q]} = {{"road"}, {"tram"}}
    BY <2>1, SinglesKeptApart
  <2> QED BY <2>2, <2>3, <2>4 DEF AreasAreSound
<1> QED BY <1>1, <1>2, PostsStep, AreasStep, PTL DEF TableSpec

-----------------------------------------------------------------------------
\* Labels.

LEMMA FiniteImage ==
  ASSUME NEW f, NEW S, IsFiniteSet(S)
  PROVE  IsFiniteSet({f[x] : x \in S})
<1> DEFINE g == [x \in S |-> f[x]]
           T == {f[x] : x \in S}
<1>1. g \in Surjection(S, T)
  BY DEF Surjection
<1> HIDE DEF g, T
<1>2. IsFiniteSet(T)
  BY <1>1, FS_Surjection
<1> QED BY <1>2 DEF T

\* The source calls of the contexts are finitely many, and of known source posts.
LEMMA ObservedCalls ==
  ASSUME pack \in Packs
  PROVE  LET calls == SourceCallsOnBase(pack.callMaps, pack.tripMaps, pack.sourceStops, Source)
             observed == ContextSourcePosts(calls, BaseCalls(pack.stopTimes), pack.contextCalls)
         IN  IsFiniteSet(observed) /\ \A o \in observed : o.post \in DOMAIN pack.sourceStops
<1>1. /\ IsFiniteSet(pack.callMaps) /\ IsFiniteSet(pack.tripMaps)
      /\ IsFiniteSet(pack.stopTimes) /\ IsFiniteSet(pack.contextCalls)
  BY PacksAssumption
<1> DEFINE calls == SourceCallsOnBase(pack.callMaps, pack.tripMaps, pack.sourceStops, Source)
           base == BaseCalls(pack.stopTimes)
           observed == ContextSourcePosts(calls, base, pack.contextCalls)
<1>2. IsFiniteSet(calls) /\ \A c \in calls : c.post \in DOMAIN pack.sourceStops
  <2> DEFINE trips == {t \in pack.tripMaps : t.source = Source /\ t.base # None /\ t.edits = 0}
             known == {c \in pack.callMaps : c.source = Source /\ c.post \in DOMAIN pack.sourceStops}
             joined == {j \in known \X trips : j[1].sourceTrip = j[2].sourceTrip /\ j[1].output = j[2].output}
             f == [j \in joined |-> [trip |-> j[2].base, ordinal |-> j[1].ordinal, post |-> j[1].post]]
  <2>1. calls = {f[j] : j \in joined}
    BY DEF SourceCallsOnBase
  <2>2. IsFiniteSet(known) /\ IsFiniteSet(trips)
    BY <1>1, FS_Subset
  <2>3. IsFiniteSet(known \X trips) /\ joined \in SUBSET (known \X trips)
    <3>1. joined \in SUBSET (known \X trips)
      OBVIOUS
    <3> HIDE DEF known, trips, joined
    <3> QED BY <2>2, <3>1, FS_Product
  <2>4. IsFiniteSet(joined)
    <3> HIDE DEF joined, known, trips
    <3> QED BY <2>3, FS_Subset
  <2>5. IsFiniteSet({f[j] : j \in joined})
    <3> HIDE DEF f, joined
    <3> QED BY <2>4, FiniteImage
  <2>6. \A j \in joined : f[j].post \in DOMAIN pack.sourceStops
    OBVIOUS
  <2> HIDE DEF f, joined, calls
  <2> QED BY <2>1, <2>5, <2>6
<1>3. IsFiniteSet(base)
  <2> DEFINE f == [r \in pack.stopTimes |->
                     [trip |-> r.trip, ordinal |-> CallOrdinal(pack.stopTimes, r), stop |-> r.stop,
                      occurrence |-> StopOccurrence(pack.stopTimes, r)]]
  <2>1. base = {f[r] : r \in pack.stopTimes}
    BY DEF BaseCalls
  <2> HIDE DEF f, base
  <2> QED BY <1>1, <2>1, FiniteImage
<1>4. IsFiniteSet(observed) /\ \A o \in observed : o.post \in DOMAIN pack.sourceStops
  <2> HIDE DEF calls, base
  <2> DEFINE placed == {p \in calls \X base : p[1].trip = p[2].trip /\ p[1].ordinal = p[2].ordinal}
             joined == {j \in placed \X pack.contextCalls :
                          /\ j[1][2].trip = j[2].trip
                          /\ j[1][2].stop = j[2].stop
                          /\ j[1][2].occurrence = j[2].occurrence}
             f == [j \in joined |->
                     [context |-> j[2].context, stop |-> j[2].stop, post |-> j[1][1].post,
                      trip |-> j[2].trip, ordinal |-> j[1][1].ordinal]]
  <2>1. observed = {f[j] : j \in joined}
    BY DEF ContextSourcePosts
  <2>2. IsFiniteSet(placed)
    <3>1. IsFiniteSet(calls \X base) /\ placed \in SUBSET (calls \X base)
      BY <1>2, <1>3, FS_Product
    <3> HIDE DEF placed
    <3> QED BY <3>1, FS_Subset
  <2>3. IsFiniteSet(joined)
    <3>1. joined \in SUBSET (placed \X pack.contextCalls)
      OBVIOUS
    <3> HIDE DEF placed, joined
    <3> QED BY <1>1, <2>2, <3>1, FS_Product, FS_Subset
  <2>4. IsFiniteSet({f[j] : j \in joined})
    <3> HIDE DEF f, joined
    <3> QED BY <2>3, FiniteImage
  <2>5. \A j \in joined : j[1][1] \in calls /\ f[j].post = j[1][1].post
    OBVIOUS
  <2> HIDE DEF f, joined, observed
  <2> QED BY <1>2, <2>1, <2>4, <2>5
<1> QED BY <1>4

\* The majority post of a context is one that was observed there, and none was more often.
LEMMA MajorityIsObserved ==
  ASSUME NEW observed, IsFiniteSet(observed), \A o \in observed : o.post \in Int, NEW o \in observed
  PROVE  LET most == MajorityOf(observed, o.context)
         IN  /\ \E q \in observed : q.context = o.context /\ q.post = most
             /\ \A q \in observed : q.context = o.context =>
                   CallsAt(observed, o.context, most) >= CallsAt(observed, o.context, q.post)
<1> DEFINE c == o.context
           here == {q \in observed : q.context = c}
           served == {q.post : q \in here}
           f == [q \in here |-> q.post]
           count == [p \in served |-> CallsAt(observed, c, p)]
<1>1. IsFiniteSet(served) /\ served # {} /\ served \subseteq Int
  <2>1. IsFiniteSet(here) /\ o \in here
    BY FS_Subset
  <2>2. served = {f[q] : q \in here} /\ o.post \in served
    BY <2>1
  <2>3. IsFiniteSet({f[q] : q \in here})
    <3> HIDE DEF f, here
    <3> QED BY <2>1, FiniteImage
  <2>4. served \subseteq Int
    OBVIOUS
  <2> HIDE DEF served
  <2> QED BY <2>2, <2>3, <2>4
<1>2. \A p \in served : count[p] \in Int
  <2> SUFFICES ASSUME NEW p \in served PROVE CallsAt(observed, c, p) \in Int
    OBVIOUS
  <2>1. IsFiniteSet({q \in observed : q.context = c /\ q.post = p})
    BY FS_Subset
  <2> QED BY <2>1, FS_CardinalityType DEF CallsAt
<1>3. PICK best \in served : \A q \in served : count[best] >= count[q]
  <2> HIDE DEF served, count
  <2> QED BY <1>1, <1>2, Extremes
<1> DEFINE ties == {p \in served : count[p] = count[best]}
<1>4. Min(ties) \in ties /\ \A q \in ties : Min(ties) <= q
  <2>1. ties \in SUBSET served /\ best \in ties
    OBVIOUS
  <2> HIDE DEF ties, served
  <2>2. IsFiniteSet(ties) /\ ties # {} /\ ties \subseteq Int
    BY <1>1, <2>1, FS_Subset
  <2> QED BY <2>2, MinIsLeast
<1>5. ASSUME NEW q \in served \ {Min(ties)}
      PROVE  \/ CallsAt(observed, c, Min(ties)) > CallsAt(observed, c, q)
             \/ CallsAt(observed, c, Min(ties)) = CallsAt(observed, c, q) /\ Min(ties) < q
  <2>1. PICK m \in served : m = Min(ties) /\ count[m] = count[best] /\ \A r \in ties : m <= r
    BY <1>4
  <2>2. CallsAt(observed, c, m) = count[m] /\ CallsAt(observed, c, q) = count[q]
    BY <1>5
  <2>3. q \in served /\ q # m /\ q \in Int /\ m \in Int
    BY <1>1, <1>5, <2>1
  <2>4. q \in ties <=> count[q] = count[best]
    BY <2>3
  <2>5. count[best] \in Int /\ count[q] \in Int /\ count[best] >= count[q]
    BY <1>2, <1>3, <2>3
  <2> HIDE DEF count, served, ties
  <2> QED BY <2>1, <2>2, <2>3, <2>4, <2>5
<1>6. /\ MajorityOf(observed, c) \in served
      /\ \A q \in served \ {MajorityOf(observed, c)} :
            \/ CallsAt(observed, c, MajorityOf(observed, c)) > CallsAt(observed, c, q)
            \/ CallsAt(observed, c, MajorityOf(observed, c)) = CallsAt(observed, c, q) /\ MajorityOf(observed, c) < q
  <2>1. Min(ties) \in served
    BY <1>4
  <2>2. MajorityOf(observed, c) = CHOOSE p \in served : \A q \in served \ {p} :
            \/ CallsAt(observed, c, p) > CallsAt(observed, c, q)
            \/ CallsAt(observed, c, p) = CallsAt(observed, c, q) /\ p < q
    BY DEF MajorityOf
  <2> HIDE DEF served, ties, count
  <2> QED BY <1>5, <2>1, <2>2
<1>7. \A p \in served : CallsAt(observed, c, p) \in Int
  BY <1>2
<1>8. \A q \in served : CallsAt(observed, c, MajorityOf(observed, c)) >= CallsAt(observed, c, q)
  <2> HIDE DEF served, ties, count
  <2> QED BY <1>6, <1>7
<1>9. \E q \in observed : q.context = c /\ q.post = MajorityOf(observed, c)
  BY <1>6
<1>10. \A q \in observed : q.context = c => q.post \in served
  OBVIOUS
<1> HIDE DEF served
<1> QED BY <1>8, <1>9, <1>10

\* A context has one label at most, and a place is on the plane.
LabelsOnce == \A l, m \in labels : l.context = m.context => l = m
LabelsPlaced == \A l \in labels : l.at # None => l.at.x \in Int /\ l.at.y \in Int
LabelsInv == LabelsOnce /\ LabelsPlaced

LEMMA MajorityByContext ==
  ASSUME NEW observed
  PROVE  /\ \A m \in MajorityPosts(observed) : \E o \in observed : m.post = MajorityOf(observed, o.context)
         /\ \A m, n \in MajorityPosts(observed) : m.context = n.context => m = n
<1> DEFINE entry(c) ==
        [context |-> c, stop |-> (CHOOSE p \in observed : p.context = c).stop, post |-> MajorityOf(observed, c),
         calls |-> CallsAt(observed, c, MajorityOf(observed, c)),
         total |-> Cardinality({p \in observed : p.context = c})]
<1>1. MajorityPosts(observed) = {entry(c) : c \in {p.context : p \in observed}}
  BY DEF MajorityPosts
<1>2. \A c : entry(c).context = c /\ entry(c).post = MajorityOf(observed, c)
  OBVIOUS
<1> HIDE DEF entry
<1>3. \A m \in MajorityPosts(observed) : \E o \in observed : m = entry(o.context)
  BY <1>1
<1> QED BY <1>2, <1>3

LEMMA OverlayLabels == pack \in Packs /\ LabelFromOverlay => LabelsInv'
<1> SUFFICES ASSUME pack \in Packs, LabelFromOverlay PROVE LabelsInv'
  OBVIOUS
<1> DEFINE calls == SourceCallsOnBase(pack.callMaps, pack.tripMaps, pack.sourceStops, Source)
           observed == ContextSourcePosts(calls, BaseCalls(pack.stopTimes), pack.contextCalls)
           agreed == {m \in {n \in MajorityPosts(observed) : n.context \in DOMAIN pack.contexts} : Agreeing(m)}
           attached == AttachLabels(agreed, pack.routePoints, pack.sourceStops)
<1>1. labels' = KeptLabels(attached)
  BY DEF LabelFromOverlay
<1>2. IsFiniteSet(observed) /\ \A o \in observed : o.post \in DOMAIN pack.sourceStops
  BY ObservedCalls
<1>3. /\ DOMAIN pack.sourceStops \subseteq Int
      /\ \A s \in DOMAIN pack.sourceStops : pack.sourceStops[s].x \in Int /\ pack.sourceStops[s].y \in Int
  BY PacksAssumption
<1>4. ASSUME NEW m \in MajorityPosts(observed) PROVE m.post \in DOMAIN pack.sourceStops
  <2> HIDE DEF observed
  <2>1. PICK o \in observed : m.post = MajorityOf(observed, o.context)
    BY MajorityByContext
  <2>2. \A q \in observed : q.post \in Int
    BY <1>2, <1>3
  <2>3. PICK q \in observed : q.post = MajorityOf(observed, o.context)
    BY <1>2, <2>2, MajorityIsObserved
  <2> QED BY <1>2, <2>1, <2>3
<1>5. \A m, n \in MajorityPosts(observed) : m.context = n.context => m = n
  <2> HIDE DEF observed
  <2> QED BY MajorityByContext
<1>6. \A l \in labels' : \E m \in agreed :
          /\ l.context = m.context /\ l.at = pack.sourceStops[m.post]
          /\ l.label = Label(pack.sourceStops[m.post], NearestPoint(pack.sourceStops[m.post], m.stop, pack.routePoints))
          /\ l = [context |-> l.context, label |-> l.label, at |-> l.at]
  <2> HIDE DEF agreed
  <2> SUFFICES ASSUME NEW l \in labels'
               PROVE  \E m \in agreed :
                        /\ l.context = m.context /\ l.at = pack.sourceStops[m.post]
                        /\ l.label = Label(pack.sourceStops[m.post], NearestPoint(pack.sourceStops[m.post], m.stop, pack.routePoints))
                        /\ l = [context |-> l.context, label |-> l.label, at |-> l.at]
    OBVIOUS
  <2>1. PICK a \in attached : l = [context |-> a.context, label |-> a.label, at |-> a.at]
    <3> HIDE DEF attached
    <3> QED BY <1>1 DEF KeptLabels
  <2>2. PICK m \in agreed :
            /\ a.context = m.context /\ a.at = pack.sourceStops[m.post]
            /\ a.label = Label(pack.sourceStops[m.post], NearestPoint(pack.sourceStops[m.post], m.stop, pack.routePoints))
    BY DEF AttachLabels
  <2> QED BY <2>1, <2>2
<1>7. \A m \in agreed : m \in MajorityPosts(observed)
  OBVIOUS
<1> HIDE DEF agreed, observed
<1>8. LabelsOnce'
  <2> SUFFICES ASSUME NEW k \in labels', NEW l \in labels', k.context = l.context PROVE k = l
    BY DEF LabelsOnce
  <2>1. PICK m \in agreed :
          /\ k.context = m.context /\ k.at = pack.sourceStops[m.post]
          /\ k.label = Label(pack.sourceStops[m.post], NearestPoint(pack.sourceStops[m.post], m.stop, pack.routePoints))
          /\ k = [context |-> k.context, label |-> k.label, at |-> k.at]
    BY <1>6
  <2>2. PICK n \in agreed :
          /\ l.context = n.context /\ l.at = pack.sourceStops[n.post]
          /\ l.label = Label(pack.sourceStops[n.post], NearestPoint(pack.sourceStops[n.post], n.stop, pack.routePoints))
          /\ l = [context |-> l.context, label |-> l.label, at |-> l.at]
    BY <1>6
  <2>3. m = n
    BY <1>5, <1>7, <2>1, <2>2
  <2> QED BY <2>1, <2>2, <2>3
<1>9. LabelsPlaced'
  BY <1>3, <1>4, <1>6, <1>7 DEF LabelsPlaced
<1> QED BY <1>8, <1>9 DEF LabelsInv

LEMMA OtherLabels == pack \in Packs /\ (LabelFromCorrections \/ LabelFromAuthored) => LabelsInv'
<1> SUFFICES ASSUME pack \in Packs, LabelFromCorrections \/ LabelFromAuthored PROVE LabelsInv'
  OBVIOUS
<1>1. CASE LabelFromCorrections
  <2>1. PICK reviewed \in LatestCorrections(pack.corrections) :
            labels' = CorrectionLabels(reviewed, pack.contexts)
    BY <1>1 DEF LabelFromCorrections
  <2>2. /\ reviewed \subseteq pack.corrections
        /\ \A j, k \in reviewed : Movement(j) = Movement(k) => j = k
    BY <2>1 DEF LatestCorrections
  <2>3. \A l \in labels' : \E k \in reviewed :
            /\ Movement(pack.contexts[l.context]) = Movement(k)
            /\ l = [context |-> l.context, at |-> k.at,
                    label |-> IF k.verdict = "none" THEN NoCorrect ELSE Reviewed]
    BY <2>1 DEF CorrectionLabels
  <2>4. LabelsOnce'
    BY <2>2, <2>3 DEF LabelsOnce
  <2>5. LabelsPlaced'
    <3> SUFFICES ASSUME NEW l \in labels', l.at # None PROVE l.at.x \in Int /\ l.at.y \in Int
      BY DEF LabelsPlaced
    <3>1. PICK k \in reviewed : l.at = k.at
      BY <2>3
    <3>2. k \in pack.corrections
      BY <2>2
    <3> QED BY <3>1, <3>2, PacksAssumption
  <2> QED BY <2>4, <2>5 DEF LabelsInv
<1>2. CASE LabelFromAuthored
  <2>1. labels' = AuthoredLabels(pack.contexts, pack.hypotheses, pack.observations)
    BY <1>2 DEF LabelFromAuthored
  <2> DEFINE numbered(c) == NumberedHypotheses(pack.hypotheses, pack.observations, pack.contexts[c].stop,
                                               pack.contexts[c].authored)
             entry(c) == [context |-> c, at |-> None,
                          label |-> pack.hypotheses[CHOOSE h \in numbered(c) : TRUE].representative]
  <2>2. \A l \in labels' : \E c : l = entry(c)
    BY <2>1 DEF AuthoredLabels
  <2>3. \A c : entry(c).context = c /\ entry(c).at = None
    OBVIOUS
  <2> HIDE DEF entry
  <2>4. \A l, m \in labels' : (l.context = m.context => l = m) /\ l.at = None
    BY <2>2, <2>3
  <2> QED BY <2>4 DEF LabelsInv, LabelsOnce, LabelsPlaced
<1> QED BY <1>1, <1>2

\* Rows are of candidates.
RowsInv == IF stage \in {"positives", "weights", "done"} THEN \A r \in rows : r.hypothesis \in DOMAIN facts
           ELSE rows = {}

\* One choice is nearest to a place, if any is within the tolerance.
LEMMA NearestIsOne ==
  ASSUME Located, NEW l, l.at.x \in Int, l.at.y \in Int, ChoicesOf(l.context) \subseteq DOMAIN facts,
         NEW near, near = {h \in ChoicesOf(l.context) : Within(facts[h], l.at, Tolerance)}
  PROVE  IF near = {} THEN NearestChoices(l) = {}
         ELSE \E g \in near : /\ NearestChoices(l) = {g}
                              /\ \A h \in near : SquaredDistance(facts[g], l.at) <= SquaredDistance(facts[h], l.at)
<1>1. NearestChoices(l) = {h \in near : \A g \in near \ {h} :
            \/ SquaredDistance(facts[h], l.at) < SquaredDistance(facts[g], l.at)
            \/ SquaredDistance(facts[h], l.at) = SquaredDistance(facts[g], l.at) /\ h < g}
  BY DEF NearestChoices
<1> SUFFICES ASSUME near # {}
             PROVE  \E g \in near : /\ NearestChoices(l) = {g}
                                    /\ \A h \in near : SquaredDistance(facts[g], l.at) <= SquaredDistance(facts[h], l.at)
  BY <1>1
<1> DEFINE d == [h \in near |-> SquaredDistance(facts[h], l.at)]
<1>2. near \in SUBSET DOMAIN facts /\ IsFiniteSet(near) /\ near \subseteq Int
  <2>1. near \in SUBSET DOMAIN facts
    OBVIOUS
  <2> QED BY <2>1, FS_Subset DEF Located
<1>3. \A h \in near : d[h] \in Int
  <2>1. \A a, b \in Int : (a - b) * (a - b) \in Int
    OBVIOUS
  <2>2. \A h \in near : facts[h].x \in Int /\ facts[h].y \in Int
    BY <1>2 DEF Located
  <2> QED BY <2>1, <2>2 DEF SquaredDistance
<1>4. PICK m \in near : \A h \in near : d[m] <= d[h]
  <2> HIDE DEF d
  <2> QED BY <1>2, <1>3, Extremes
<1> DEFINE ties == {h \in near : d[h] = d[m]}
<1>5. PICK g \in near : d[g] = d[m] /\ \A h \in ties : g <= h
  <2>1. ties \in SUBSET near /\ m \in ties
    OBVIOUS
  <2>2. IsFiniteSet(ties) /\ ties # {} /\ ties \subseteq Int
    <3> HIDE DEF ties
    <3> QED BY <1>2, <2>1, FS_Subset
  <2>3. Min(ties) \in ties /\ \A h \in ties : Min(ties) <= h
    <3> HIDE DEF ties
    <3> QED BY <2>2, MinIsLeast
  <2> QED BY <2>3
<1>6. NearestChoices(l) = {h \in near : \A i \in near \ {h} : d[h] < d[i] \/ (d[h] = d[i] /\ h < i)}
  BY <1>1
<1> HIDE DEF d
<1>7. \A i \in near \ {g} : d[g] < d[i] \/ (d[g] = d[i] /\ g < i)
  BY <1>2, <1>3, <1>4, <1>5
<1>8. NearestChoices(l) = {g}
  <2>1. \A h \in near \ {g} : ~(d[h] < d[g] \/ (d[h] = d[g] /\ h < g))
    BY <1>2, <1>3, <1>7
  <2> QED BY <1>6, <1>7, <2>1
<1>9. \A h \in near : SquaredDistance(facts[g], l.at) <= SquaredDistance(facts[h], l.at)
  BY <1>4, <1>5 DEF d
<1> QED BY <1>8, <1>9

\* What is marked for a label with a place.
LEMMA MarkedIsOnePost ==
  ASSUME Located, PostsAreSound, LabelsInv, NEW l \in labels, l.at # None, l.label # NoCorrect,
         ChoicesOf(l.context) \subseteq DOMAIN facts,
         NEW near, near = {h \in ChoicesOf(l.context) : Within(facts[h], l.at, Tolerance)}
  PROVE  IF near = {} THEN Correct(l) = {}
         ELSE \E p \in posts :
                /\ Correct(l) = p \cap ChoicesOf(l.context)
                /\ \E h \in p \cap near : \A g \in near :
                        SquaredDistance(facts[h], l.at) <= SquaredDistance(facts[g], l.at)
<1>1. l.at.x \in Int /\ l.at.y \in Int
  BY DEF LabelsInv, LabelsPlaced
<1>2. Correct(l) = {h \in ChoicesOf(l.context) : \E g \in NearestChoices(l) : PostOf(h) = PostOf(g)}
  BY DEF Correct
<1>3. CASE near = {}
  BY <1>1, <1>2, <1>3, NearestIsOne
<1>4. CASE near # {}
  <2>1. PICK g \in near : /\ NearestChoices(l) = {g}
                          /\ \A h \in near : SquaredDistance(facts[g], l.at) <= SquaredDistance(facts[h], l.at)
    BY <1>1, <1>4, NearestIsOne
  <2>2. PICK p \in posts : g \in p
    BY DEF PostsAreSound
  <2>3. \A h \in DOMAIN facts : PostOf(h) = PostOf(g) <=> h \in p
    <3> SUFFICES ASSUME NEW h \in DOMAIN facts PROVE PostOf(h) = PostOf(g) <=> h \in p
      OBVIOUS
    <3>1. PICK q \in posts : h \in q
      BY DEF PostsAreSound
    <3>2. PostOf(h) = q /\ PostOf(g) = p
      BY <2>2, <3>1, PostOfMember
    <3>3. q = p <=> h \in p
      BY <3>1 DEF PostsAreSound
    <3> QED BY <3>2, <3>3
  <2>4. Correct(l) = p \cap ChoicesOf(l.context)
    BY <1>2, <2>1, <2>3
  <2> QED BY <1>4, <2>1, <2>2, <2>4
<1> QED BY <1>3, <1>4

LEMMA LabelsAndRowsStep == PostsInv /\ LabelsInv /\ RowsInv /\ [TableNext]_tableVars => LabelsInv' /\ RowsInv'
<1> SUFFICES ASSUME PostsInv, LabelsInv, RowsInv, [TableNext]_tableVars PROVE LabelsInv' /\ RowsInv'
  OBVIOUS
<1>1. LabelsInv'
  <2>1. pack \in Packs
    BY DEF PostsInv
  <2>2. CASE LabelFromOverlay \/ LabelFromCorrections \/ LabelFromAuthored
    BY <2>1, <2>2, OverlayLabels, OtherLabels
  <2>3. CASE labels' = labels
    BY <2>3 DEF LabelsInv, LabelsOnce, LabelsPlaced
  <2> QED BY <2>2, <2>3 DEF TableNext, tableVars, BuildFacts, MergePosts, PostsSettled, MergeAreas, AreasSettled,
                            SelectRows, MarkPositives, CountDepartures, Complete
<1>2. CASE SelectRows
  <2>1. \A r \in rows' : r.hypothesis \in DOMAIN facts
    BY <1>2 DEF SelectRows, Choosable
  <2>2. facts' = facts /\ stage' = "positives"
    BY <1>2 DEF SelectRows
  <2> QED BY <1>1, <2>1, <2>2 DEF RowsInv
<1>3. CASE MarkPositives \/ CountDepartures \/ UNCHANGED tableVars
  <2>1. UNCHANGED <<facts, rows>> /\ (stage' = stage \/ {stage, stage'} \subseteq {"positives", "weights", "done"})
    BY <1>3 DEF MarkPositives, CountDepartures, tableVars
  <2>2. stage' \in {"positives", "weights", "done"} <=> stage \in {"positives", "weights", "done"}
    BY <2>1
  <2> QED BY <1>1, <2>1, <2>2 DEF RowsInv
<1>4. CASE ~SelectRows /\ ~MarkPositives /\ ~CountDepartures /\ ~UNCHANGED tableVars
  <2>1. /\ stage \notin {"positives", "weights", "done"}
        /\ stage' \notin {"positives", "weights", "done"}
        /\ rows' = rows
    BY <1>4 DEF TableNext, LabelFromOverlay, LabelFromCorrections, LabelFromAuthored, BuildFacts, MergePosts,
                PostsSettled, MergeAreas, AreasSettled, Complete
  <2> QED BY <1>1, <2>1 DEF RowsInv
<1> QED BY <1>2, <1>3, <1>4

\* The rows marked for a label are its correct choices.
LEMMA MarkedRows ==
  ASSUME LabelsInv, MarkPositives, NEW l \in labels
  PROVE  {r.hypothesis : r \in {t \in table' : t.context = l.context /\ t.y}}
            = Correct(l) \cap ChoicesOf(l.context)
<1> DEFINE correctOf == [k \in labels |-> Correct(k)]
           marked(r) == [context |-> r.context, hypothesis |-> r.hypothesis,
                         bay |-> IsBay(r.hypothesis), support |-> Support(r.hypothesis),
                         deficit |-> SupportDeficit(r.hypothesis), postCount |-> StopPostCount(r.hypothesis),
                         labelled |-> \E k \in labels : k.context = r.context,
                         noCorrect |-> \E k \in labels : k.context = r.context /\ k.label = NoCorrect,
                         y |-> \E k \in labels : k.context = r.context /\ r.hypothesis \in correctOf[k]]
<1>1. table' = {marked(r) : r \in rows}
  BY DEF MarkPositives
<1>2. ASSUME NEW r \in rows
      PROVE  /\ marked(r).context = r.context /\ marked(r).hypothesis = r.hypothesis
             /\ r.context = l.context => (marked(r).y <=> r.hypothesis \in Correct(l))
  <2>1. marked(r).y <=> \E k \in labels : k.context = r.context /\ r.hypothesis \in Correct(k)
    OBVIOUS
  <2>2. r.context = l.context => \A k \in labels : k.context = r.context <=> k = l
    BY DEF LabelsInv, LabelsOnce
  <2>3. marked(r).context = r.context /\ marked(r).hypothesis = r.hypothesis
    OBVIOUS
  <2> HIDE DEF marked
  <2> QED BY <2>1, <2>2, <2>3
<1> HIDE DEF marked
<1>3. \A h : h \in ChoicesOf(l.context) <=> \E r \in rows : r.context = l.context /\ r.hypothesis = h
  BY DEF ChoicesOf
<1>4. \A h : h \in {r.hypothesis : r \in {t \in table' : t.context = l.context /\ t.y}}
             <=> \E r \in rows : r.context = l.context /\ r.hypothesis = h /\ h \in Correct(l)
  BY <1>1, <1>2
<1> QED BY <1>3, <1>4

\* The choices of a post: the form of PositivesAreWholePosts that a step keeps.
PositivesOfOnePost ==
    After("positives") => \A l \in labels : (l.at # None /\ l.label # NoCorrect) =>
        IF NearChoices(l) = {} THEN Positives(l.context) = {}
        ELSE \E p \in posts :
                /\ Positives(l.context) = p \cap ChoicesOf(l.context)
                /\ \E h \in p \cap NearChoices(l) : \A g \in NearChoices(l) :
                        SquaredDistance(facts[h], l.at) <= SquaredDistance(facts[g], l.at)

LEMMA PositivesStep ==
  PostsInv /\ LabelsInv /\ RowsInv /\ PositivesOfOnePost /\ [TableNext]_tableVars => PositivesOfOnePost'
<1> SUFFICES ASSUME PostsInv, LabelsInv, RowsInv, PositivesOfOnePost, [TableNext]_tableVars
             PROVE  PositivesOfOnePost'
  OBVIOUS
<1>1. CASE MarkPositives
  <2>1. UNCHANGED <<labels, facts, posts, rows>> /\ stage = "positives"
    BY <1>1 DEF MarkPositives
  <2>2. Located /\ PostsAreSound /\ \A c : ChoicesOf(c) \subseteq DOMAIN facts
    BY <2>1 DEF PostsInv, RowsInv, ChoicesOf
  <2>3. \A c : ChoicesOf(c)' = ChoicesOf(c)
    BY <2>1 DEF ChoicesOf
  <2>4. ASSUME NEW l \in labels, l.at # None, l.label # NoCorrect, NEW near, near = NearChoices(l)
        PROVE  IF near = {} THEN Positives(l.context)' = {}
               ELSE \E p \in posts :
                      /\ Positives(l.context)' = p \cap ChoicesOf(l.context)
                      /\ \E h \in p \cap near : \A g \in near :
                            SquaredDistance(facts[h], l.at) <= SquaredDistance(facts[g], l.at)
    <3>1. IF near = {} THEN Correct(l) = {}
          ELSE \E p \in posts :
                 /\ Correct(l) = p \cap ChoicesOf(l.context)
                 /\ \E h \in p \cap near : \A g \in near :
                        SquaredDistance(facts[h], l.at) <= SquaredDistance(facts[g], l.at)
      BY <2>2, <2>4, MarkedIsOnePost DEF NearChoices
    <3>2. Positives(l.context)' = Correct(l) \cap ChoicesOf(l.context)
      BY <1>1, MarkedRows DEF Positives
    <3> QED BY <3>1, <3>2
  <2>5. \A l \in labels : (l.at # None /\ l.label # NoCorrect) =>
            IF NearChoices(l) = {} THEN Positives(l.context)' = {}
            ELSE \E p \in posts :
                    /\ Positives(l.context)' = p \cap ChoicesOf(l.context)
                    /\ \E h \in p \cap NearChoices(l) : \A g \in NearChoices(l) :
                            SquaredDistance(facts[h], l.at) <= SquaredDistance(facts[g], l.at)
    BY <2>4
  <2>6. \A l : NearChoices(l)' = NearChoices(l)
    BY <2>1, <2>3 DEF NearChoices
  <2> QED BY <2>1, <2>3, <2>5, <2>6 DEF PositivesOfOnePost
<1>2. CASE CountDepartures \/ Complete \/ UNCHANGED tableVars
  <2>1. /\ UNCHANGED <<labels, facts, posts, rows, table>>
        /\ After("positives")' => After("positives")
    BY <1>2 DEF CountDepartures, Complete, tableVars, After
  <2> QED BY <2>1 DEF PositivesOfOnePost, Positives, ChoicesOf, NearChoices
<1>3. CASE ~MarkPositives /\ ~CountDepartures /\ ~Complete /\ ~UNCHANGED tableVars
  <2>1. ~After("positives")'
    BY <1>3 DEF TableNext, LabelFromOverlay, LabelFromCorrections, LabelFromAuthored, BuildFacts, MergePosts,
                PostsSettled, MergeAreas, AreasSettled, SelectRows, After
  <2> QED BY <2>1 DEF PositivesOfOnePost
<1> QED BY <1>1, <1>2, <1>3

\* The candidates of one post are taught alike.
LEMMA WholePosts ==
  PostsInv /\ RowsInv /\ PositivesOfOnePost => PositivesAreWholePosts
<1> SUFFICES ASSUME PostsInv, RowsInv, PositivesOfOnePost, After("positives"),
                    NEW l \in labels, l.at # None, l.label # NoCorrect
             PROVE  /\ NearChoices(l) = {} => Positives(l.context) = {}
                    /\ NearChoices(l) # {} =>
                         \E h \in Positives(l.context) \cap NearChoices(l) : \A g \in NearChoices(l) :
                            SquaredDistance(facts[h], l.at) <= SquaredDistance(facts[g], l.at)
                    /\ \A g, h \in ChoicesOf(l.context) :
                            PostOf(g) = PostOf(h) => (g \in Positives(l.context) <=> h \in Positives(l.context))
  BY DEF PositivesAreWholePosts
<1>1. CASE NearChoices(l) = {}
  BY <1>1 DEF PositivesOfOnePost
<1>2. CASE NearChoices(l) # {}
  <2>1. PICK p \in posts : /\ Positives(l.context) = p \cap ChoicesOf(l.context)
                           /\ \E h \in p \cap NearChoices(l) : \A g \in NearChoices(l) :
                                SquaredDistance(facts[h], l.at) <= SquaredDistance(facts[g], l.at)
    BY <1>2 DEF PositivesOfOnePost
  <2>2. NearChoices(l) \subseteq ChoicesOf(l.context) /\ ChoicesOf(l.context) \subseteq DOMAIN facts
    BY DEF NearChoices, ChoicesOf, RowsInv, After
  <2>3. \A h \in ChoicesOf(l.context) : h \in p <=> PostOf(h) = p
    <3> SUFFICES ASSUME NEW h \in ChoicesOf(l.context) PROVE h \in p <=> PostOf(h) = p
      OBVIOUS
    <3>1. PICK q \in posts : h \in q
      BY <2>2 DEF PostsInv, PostsAreSound
    <3>2. PostOf(h) = q /\ (h \in p => p = q)
      BY <3>1, PostOfMember DEF PostsInv, PostsAreSound
    <3> QED BY <3>1, <3>2
  <2>4. \E h \in Positives(l.context) \cap NearChoices(l) : \A g \in NearChoices(l) :
            SquaredDistance(facts[h], l.at) <= SquaredDistance(facts[g], l.at)
    BY <2>1, <2>2
  <2> QED BY <1>2, <2>1, <2>3, <2>4
<1> QED BY <1>1, <1>2

\* Whatever the packs and the source of the labels, the choices of one physical post are taught alike,
\* and a nearest choice within the tolerance is correct, if there is one (build_candidate_table).
THEOREM WholePostsAreCorrect == TableSpec => []PositivesAreWholePosts
<1>1. TableInit => PostsInv /\ LabelsInv /\ RowsInv /\ PositivesOfOnePost
  <2>1. TableInit => LabelsInv /\ RowsInv /\ PositivesOfOnePost
    BY DEF TableInit, LabelsInv, LabelsOnce, LabelsPlaced, RowsInv, PositivesOfOnePost, After
  <2> QED BY <2>1, InitialPosts
<1> QED BY <1>1, PostsStep, LabelsAndRowsStep, PositivesStep, WholePosts, PTL DEF TableSpec

-----------------------------------------------------------------------------
\* Evidence of a context. The tables say of a call what the timetable says of it, so the joins give
\* each context its own source calls, one for each made there. A majority of them is then the post
\* that LabelsFollowTheCalls names, and its label the one it asks for.

\* An image under a one-to-one function is as large as what it is the image of.
LEMMA SameSize ==
  ASSUME NEW S, IsFiniteSet(S), NEW f, \A x, y \in S : f[x] = f[y] => x = y
  PROVE  IsFiniteSet({f[x] : x \in S}) /\ Cardinality({f[x] : x \in S}) = Cardinality(S)
<1> DEFINE T == {f[x] : x \in S}
           g == [x \in S |-> f[x]]
<1>1. g \in Bijection(S, T)
  BY DEF Bijection, Injection, Surjection, IsInjective
<1>2. ExistsBijection(S, T)
  BY <1>1 DEF ExistsBijection
<1> HIDE DEF T
<1>3. IsFiniteSet(T) /\ Cardinality(T) = Cardinality(S)
  BY <1>2, FS_Bijection
<1> QED BY <1>3 DEF T

\* A sum of sizes is the number of pairs.
LEMMA SumOfSizes ==
  ASSUME NEW S, IsFiniteSet(S), NEW W, IsFiniteSet(W), NEW D, \A x \in S : D[x] \subseteq W,
         NEW f, \A x \in S : f[x] = Cardinality(D[x])
  PROVE  SumOver(f, S) = Cardinality({r \in S \X W : r[2] \in D[r[1]]})
<1> DEFINE P(T) == {r \in T \X W : r[2] \in D[r[1]]}
           Bad == {T \in SUBSET S : SumOver(f, T) # Cardinality(P(T))}
<1> SUFFICES ASSUME Bad # {} PROVE FALSE
  BY DEF Bad
<1>1. PICK T \in Bad : \A U \in Bad : ~(U \subseteq T /\ U # T)
  <2>1. Bad \subseteq SUBSET S
    OBVIOUS
  <2> HIDE DEF Bad
  <2> QED BY <2>1, LeastSubset
<1>2. P({}) = {}
  OBVIOUS
<1>3. PICK x : x \in T
  BY <1>1, <1>2, SumOfNone, FS_EmptySet
<1>4. T \in SUBSET S /\ IsFiniteSet(T) /\ T \ {x} \in SUBSET S /\ IsFiniteSet(T \ {x})
  BY <1>1, FS_Subset
<1>5. \A y \in S : IsFiniteSet(D[y]) /\ f[y] \in Int
  BY FS_Subset, FS_CardinalityType
<1>6. SumOver(f, T) = f[x] + SumOver(f, T \ {x})
  BY <1>3, <1>4, <1>5, SumWithout
<1>7. SumOver(f, T \ {x}) = Cardinality(P(T \ {x}))
  BY <1>1, <1>3, <1>4
<1> DEFINE pair == [d \in D[x] |-> <<x, d>>]
           column == {pair[d] : d \in D[x]}
<1>8. IsFiniteSet(column) /\ Cardinality(column) = f[x]
  <2>1. \A d, e \in D[x] : pair[d] = pair[e] => d = e
    OBVIOUS
  <2>2. IsFiniteSet(D[x]) /\ f[x] = Cardinality(D[x])
    BY <1>3, <1>4, <1>5
  <2> HIDE DEF pair
  <2> QED BY <2>1, <2>2, SameSize
<1>9. IsFiniteSet(P(T \ {x}))
  <2>1. IsFiniteSet((T \ {x}) \X W) /\ P(T \ {x}) \in SUBSET ((T \ {x}) \X W)
    BY <1>4, FS_Product
  <2> HIDE DEF P
  <2> QED BY <2>1, FS_Subset
<1>10. P(T) = P(T \ {x}) \cup column
  <2>1. \A d \in D[x] : d \in W
    BY <1>3, <1>4
  <2>2. \A r \in P(T) : r[1] # x => r \in P(T \ {x})
    OBVIOUS
  <2>3. \A r \in P(T) : r[1] = x => r = pair[r[2]] /\ r[2] \in D[x]
    OBVIOUS
  <2>4. \A r \in column : r \in P(T)
    <3> SUFFICES ASSUME NEW d \in D[x] PROVE <<x, d>> \in P(T)
      OBVIOUS
    <3>1. <<x, d>> \in T \X W
      BY <1>3, <2>1
    <3> QED BY <3>1
  <2>5. \A r \in P(T \ {x}) : r \in P(T)
    OBVIOUS
  <2> HIDE DEF P, pair
  <2> QED BY <2>2, <2>3, <2>4, <2>5
<1>11. P(T \ {x}) \cap column = {}
  <2>1. \A r \in P(T \ {x}) : r[1] # x
    OBVIOUS
  <2>2. \A d \in D[x] : pair[d][1] = x
    OBVIOUS
  <2> HIDE DEF P, pair
  <2> QED BY <2>1, <2>2
<1>12. Cardinality(P(T)) = Cardinality(P(T \ {x})) + f[x]
  <2> HIDE DEF P, column
  <2>1. Cardinality(P(T)) = Cardinality(P(T \ {x})) + Cardinality(column) - Cardinality(P(T \ {x}) \cap column)
    BY <1>8, <1>9, <1>10, FS_Union
  <2>2. Cardinality(P(T \ {x})) \in Nat /\ Cardinality(column) \in Nat
    BY <1>8, <1>9, FS_CardinalityType
  <2>3. Cardinality(P(T \ {x}) \cap column) = 0
    BY <1>11, FS_EmptySet
  <2> QED BY <1>8, <2>1, <2>2, <2>3
<1>13. Cardinality(P(T \ {x})) \in Nat /\ f[x] \in Int
  BY <1>3, <1>4, <1>5, <1>9, FS_CardinalityType
<1> QED
  <2>1. SumOver(f, T) # Cardinality(P(T))
    BY <1>1
  <2> HIDE DEF P
  <2> QED BY <1>6, <1>7, <1>12, <1>13, <2>1

\* The departures of a context are added up trip by trip.
LEMMA DeparturesAreSum ==
  ASSUME NEW calls, NEW trips, NEW days, NEW c, IsFiniteSet(ContextTrips(calls, c))
  PROVE  LET S == ContextTrips(calls, c)
         IN  Departures(calls, trips, days, c)
               = SumOver([t \in S |-> IF t \in DOMAIN trips THEN Cardinality(days[trips[t]]) ELSE 0], S)
<1> DEFINE S == ContextTrips(calls, c)
           f == [t \in S |-> IF t \in DOMAIN trips THEN Cardinality(days[trips[t]]) ELSE 0]
           Next(g, s) == IF s = {} THEN 0
                         ELSE (IF Chosen(s) \in DOMAIN trips THEN Cardinality(days[trips[Chosen(s)]]) ELSE 0)
                              + g[s \ {Chosen(s)}]
           It == CHOOSE g : g = [s \in SUBSET S |-> Next(g, s)]
<1>1. Departures(calls, trips, days, c) = It[S]
  BY DEF Departures, MapThenSumSet, MapThenFoldSet, Chosen
<1> HIDE DEF S
<1>2. \A g : \A s \in SUBSET S : Next(g, s) = IterStep(g, f, s)
  BY ChosenIn DEF IterStep
<1>3. \A g : [s \in SUBSET S |-> Next(g, s)] = [s \in SUBSET S |-> IterStep(g, f, s)]
  <2> HIDE DEF Next, f
  <2> QED BY <1>2
<1>4. IsFiniteSet(S) /\ IsIter(Iter(f, S), f, S)
  BY IterExists DEF S
<1> HIDE DEF Next, f
<1>5. It = [s \in SUBSET S |-> Next(It, s)]
  BY <1>3, <1>4 DEF IsIter
<1>6. IsIter(It, f, S)
  <2> HIDE DEF It
  <2> QED BY <1>3, <1>5 DEF IsIter
<1>7. It[S] = Iter(f, S)[S]
  <2> HIDE DEF It
  <2>1. PICK g, h : g = It /\ h = Iter(f, S)
    OBVIOUS
  <2>2. IsIter(g, f, S) /\ IsIter(h, f, S) /\ S \subseteq S
    BY <1>4, <1>6, <2>1
  <2>3. \A s \in SUBSET S : g[s] = h[s]
    BY <1>4, <2>2, IterUnique
  <2> QED BY <2>1, <2>3
<1> QED BY <1>1, <1>7, SumIsIter DEF f, S

\* The calls of a timetable, and the rows of the context export.
LEMMA CallsAre ==
  ASSUME NEW p
  PROVE  /\ \A c \in CallsOf(p) : /\ c = <<c[1], c[2]>> /\ c[1] \in DOMAIN p.patterns
                                  /\ c[2] \in DOMAIN p.patterns[c[1]]
         /\ \A t \in DOMAIN p.patterns : \A i \in DOMAIN p.patterns[t] : <<t, i>> \in CallsOf(p)
BY DEF CallsOf

LEMMA ExportRows ==
  ASSUME NEW p, IsTimetable(p)
  PROVE  \A q : q \in p.contextCalls <=> \E c \in CallsOf(p) : ContextOf(p, c) # None /\ q = ContextRow(p, c)
<1>1. p.contextCalls = {ContextRow(p, c) : c \in {d \in CallsOf(p) : ContextOf(p, d) # None}}
  BY DEF IsTimetable
<1> QED BY <1>1

LEMMA ContextRowIs ==
  ASSUME NEW p, NEW c
  PROVE  /\ ContextRow(p, c).context = ContextOf(p, c) /\ ContextRow(p, c).trip = c[1]
         /\ ContextRow(p, c).stop = StopOf(p, c) /\ ContextRow(p, c).occurrence = Before(p, c)
BY DEF ContextRow

\* The weights of a timetable are the departures in the window.
LEMMA CountedDepartures ==
  ASSUME pack \in Packs, PacksAreWritten, CountDepartures
  PROVE  DeparturesCounted'
<1> DEFINE trips == pack.trips
           days == [s \in Range(trips) |-> ActiveDays(pack.calendar, pack.exceptions, Window, Weekday, s)]
<1>1. departures' = ContextWeights(pack.contextCalls, trips, days) /\ pack' = pack
  BY DEF CountDepartures
<1>2. /\ IsTimetable(pack) /\ IsFiniteSet(pack.contextCalls)
      /\ IsFiniteSet(Window) /\ Window \subseteq Int
  BY PacksAssumption, TableAssumption DEF PacksAreWritten
<1> SUFFICES ASSUME NEW c \in DOMAIN departures'
             PROVE  departures'[c] = Cardinality({r \in (DOMAIN pack.trips) \X Window :
                        /\ Runs(pack.trips[r[1]], r[2])
                        /\ \E i \in DOMAIN pack.patterns[r[1]] : pack.contextAt[r[1]][i] = c})
  BY <1>1 DEF DeparturesCounted, Runs
<1> DEFINE S == ContextTrips(pack.contextCalls, c)
           f == [t \in S |-> IF t \in DOMAIN trips THEN Cardinality(days[trips[t]]) ELSE 0]
           D == [t \in S |-> IF t \in DOMAIN trips THEN days[trips[t]] ELSE {}]
<1>3. c \in {r.context : r \in pack.contextCalls} /\ departures'[c] = Departures(pack.contextCalls, trips, days, c)
  <2> HIDE DEF days
  <2> QED BY <1>1 DEF ContextWeights
<1>4. IsFiniteSet(S)
  <2> DEFINE here == {q \in pack.contextCalls : q.context = c}
             g == [q \in here |-> q.trip]
  <2>1. IsFiniteSet(here)
    BY <1>2, FS_Subset
  <2>2. S = {g[q] : q \in here}
    BY DEF ContextTrips
  <2> HIDE DEF here, g, S
  <2> QED BY <2>1, <2>2, FiniteImage
<1>5. departures'[c] = SumOver(f, S)
  <2> HIDE DEF days
  <2> QED BY <1>3, <1>4, DeparturesAreSum
<1>6. ASSUME NEW t \in DOMAIN trips
      PROVE  days[trips[t]] = {d \in Window : Runs(pack.trips[t], d)}
  <2>1. trips[t] \in Range(trips)
    BY DEF Range
  <2>2. days[trips[t]] = ActiveDays(pack.calendar, pack.exceptions, Window, Weekday, trips[t])
    BY <2>1
  <2>3. \A k \in pack.calendar : k.from \in Int /\ k.to \in Int
    BY <1>2 DEF IsTimetable
  <2> HIDE DEF days
  <2>4. ASSUME NEW d \in Window
        PROVE  d \in ActiveDays(pack.calendar, pack.exceptions, Window, Weekday, trips[t]) <=> Runs(trips[t], d)
    <3>1. d \in Int
      BY <1>2
    <3>2. \A k \in pack.calendar : d \in k.from .. k.to <=> k.from <= d /\ d <= k.to
      BY <2>3, <3>1
    <3> QED BY <3>2 DEF ActiveDays, Runs
  <2>5. \A d \in ActiveDays(pack.calendar, pack.exceptions, Window, Weekday, trips[t]) : d \in Window
    BY DEF ActiveDays
  <2> QED BY <2>2, <2>4, <2>5
<1>7. \A t \in S : D[t] \subseteq Window /\ f[t] = Cardinality(D[t])
  <2> HIDE DEF days, S
  <2> QED BY <1>6, FS_EmptySet
<1>8. departures'[c] = Cardinality({r \in S \X Window : r[2] \in D[r[1]]})
  <2> HIDE DEF f, D, S
  <2> QED BY <1>2, <1>4, <1>5, <1>7, SumOfSizes
<1>9. ASSUME NEW t \in DOMAIN trips
      PROVE  t \in S <=> \E i \in DOMAIN pack.patterns[t] : pack.contextAt[t][i] = c
  <2>1. t \in DOMAIN pack.patterns
    BY <1>2 DEF IsTimetable
  <2>2. c # None
    BY <1>2, <1>3, ExportRows, ContextRowIs
  <2>3. t \in S <=> \E q \in pack.contextCalls : q.context = c /\ q.trip = t
    BY DEF ContextTrips
  <2>4. (\E q \in pack.contextCalls : q.context = c /\ q.trip = t)
          <=> \E e \in CallsOf(pack) : e[1] = t /\ ContextOf(pack, e) = c
    <3> HIDE DEF S
    <3> QED BY <1>2, <2>2, ExportRows, ContextRowIs
  <2>5. (\E e \in CallsOf(pack) : e[1] = t /\ ContextOf(pack, e) = c)
          <=> \E i \in DOMAIN pack.patterns[t] : pack.contextAt[t][i] = c
    <3>1. \A i : ContextOf(pack, <<t, i>>) = pack.contextAt[t][i]
      BY DEF ContextOf
    <3>2. ASSUME NEW e \in CallsOf(pack), e[1] = t, ContextOf(pack, e) = c
          PROVE  \E i \in DOMAIN pack.patterns[t] : pack.contextAt[t][i] = c
      <4>1. e[2] \in DOMAIN pack.patterns[t] /\ pack.contextAt[t][e[2]] = c
        BY <3>2, CallsAre DEF ContextOf
      <4> QED BY <4>1
    <3>3. ASSUME NEW i \in DOMAIN pack.patterns[t], pack.contextAt[t][i] = c
          PROVE  \E e \in CallsOf(pack) : e[1] = t /\ ContextOf(pack, e) = c
      <4>1. <<t, i>> \in CallsOf(pack)
        BY <2>1, CallsAre
      <4>2. <<t, i>>[1] = t /\ ContextOf(pack, <<t, i>>) = c
        BY <3>1, <3>3
      <4> QED BY <4>1, <4>2
    <3> QED BY <3>2, <3>3
  <2> QED BY <2>3, <2>4, <2>5
<1>10. {r \in S \X Window : r[2] \in D[r[1]]}
         = {r \in (DOMAIN pack.trips) \X Window :
              /\ Runs(pack.trips[r[1]], r[2])
              /\ \E i \in DOMAIN pack.patterns[r[1]] : pack.contextAt[r[1]][i] = c}
  <2>1. ASSUME NEW t, NEW d \in Window
        PROVE  t \in S /\ d \in D[t] <=> /\ t \in DOMAIN trips /\ Runs(trips[t], d)
                                       /\ \E i \in DOMAIN pack.patterns[t] : pack.contextAt[t][i] = c
    <3>1. CASE t \in DOMAIN trips
      <4>1. t \in S => D[t] = {e \in Window : Runs(trips[t], e)}
        <5> HIDE DEF days, S
        <5> QED BY <1>6, <3>1
      <4> HIDE DEF S, D
      <4> QED BY <1>9, <3>1, <4>1
    <3>2. CASE t \notin DOMAIN trips
      <4>1. t \in S => D[t] = {}
        BY <3>2
      <4> HIDE DEF S, D
      <4> QED BY <3>2, <4>1
    <3> QED BY <3>1, <3>2
  <2> HIDE DEF S, D
  <2> QED BY <2>1
<1> QED BY <1>8, <1>10

\* The corrections left after the last of each movement is kept label its contexts.
LEMMA CorrectedLabels ==
  ASSUME LabelFromCorrections PROVE LatestCorrectionWins'
<1>1. PICK reviewed \in LatestCorrections(pack.corrections) :
          labels' = CorrectionLabels(reviewed, pack.contexts)
  BY DEF LabelFromCorrections
<1>2. pack' = pack
  BY DEF LabelFromCorrections
<1>3. /\ reviewed \subseteq pack.corrections
      /\ \A c \in pack.corrections : \E k \in reviewed : Movement(k) = Movement(c)
      /\ \A k, l \in reviewed : Movement(k) = Movement(l) => k = l
      /\ \A k \in reviewed : \A c \in pack.corrections : Movement(c) = Movement(k) => c.recorded <= k.recorded
  BY <1>1 DEF LatestCorrections
<1> DEFINE labelOf(c, k) == [context |-> c, at |-> k.at, label |-> IF k.verdict = "none" THEN NoCorrect ELSE Reviewed]
<1>4. \A l : l \in labels' <=> \E c \in DOMAIN pack.contexts, k \in reviewed :
                                 Movement(pack.contexts[c]) = Movement(k) /\ l = labelOf(c, k)
  <2> SUFFICES ASSUME NEW l
               PROVE  l \in CorrectionLabels(reviewed, pack.contexts) <=>
                        \E c \in DOMAIN pack.contexts, k \in reviewed :
                          Movement(pack.contexts[c]) = Movement(k) /\ l = labelOf(c, k)
    BY <1>1
  <2> DEFINE joined == {j \in (DOMAIN pack.contexts) \X reviewed : Movement(pack.contexts[j[1]]) = Movement(j[2])}
  <2>1. CorrectionLabels(reviewed, pack.contexts) = {labelOf(j[1], j[2]) : j \in joined}
    BY DEF CorrectionLabels
  <2>2. ASSUME NEW c \in DOMAIN pack.contexts, NEW k \in reviewed, Movement(pack.contexts[c]) = Movement(k)
        PROVE  labelOf(c, k) \in CorrectionLabels(reviewed, pack.contexts)
    <3>1. <<c, k>> \in joined /\ labelOf(c, k) = labelOf(<<c, k>>[1], <<c, k>>[2])
      BY <2>2
    <3> HIDE DEF labelOf, joined
    <3> QED BY <2>1, <3>1
  <2>3. \A j \in joined : /\ j[1] \in DOMAIN pack.contexts /\ j[2] \in reviewed
                          /\ Movement(pack.contexts[j[1]]) = Movement(j[2])
    OBVIOUS
  <2> HIDE DEF labelOf, joined
  <2> QED BY <2>1, <2>2, <2>3
<1>5. \A c, k : labelOf(c, k).context = c
  OBVIOUS
<1> SUFFICES ASSUME NEW c \in DOMAIN pack.contexts
             PROVE  LET about == {k \in pack.corrections : Movement(k) = Movement(pack.contexts[c])}
                        latest == {k \in about : \A j \in about : j.recorded <= k.recorded}
                    IN  {l \in labels' : l.context = c} \in
                          IF about = {} THEN {{}} ELSE {{labelOf(c, k)} : k \in latest}
  BY <1>2 DEF LatestCorrectionWins
<1> DEFINE about == {k \in pack.corrections : Movement(k) = Movement(pack.contexts[c])}
           latest == {k \in about : \A j \in about : j.recorded <= k.recorded}
<1> HIDE DEF labelOf
<1>6. CASE about = {}
  <2>1. {l \in labels' : l.context = c} = {}
    BY <1>3, <1>4, <1>5, <1>6
  <2> QED BY <1>6, <2>1
<1>7. CASE about # {}
  <2>1. PICK k \in reviewed : Movement(k) = Movement(pack.contexts[c])
    BY <1>3, <1>7
  <2>2. k \in latest
    BY <1>3, <2>1
  <2>3. {l \in labels' : l.context = c} = {labelOf(c, k)}
    BY <1>3, <1>4, <1>5, <2>1
  <2> QED BY <1>7, <2>2, <2>3
<1> QED BY <1>6, <1>7

\* Numbered in the order of stop_sequence, a call has its own number again, and its occurrence is
\* that of the context export.
LEMMA CallsNumbered ==
  ASSUME NEW p, IsTimetable(p), NEW c \in CallsOf(p)
  PROVE  /\ CallOrdinal(p.stopTimes, StopTimeRow(p, c)) = c[2]
         /\ StopOccurrence(p.stopTimes, StopTimeRow(p, c)) = Before(p, c)
<1> DEFINE t == c[1]
           i == c[2]
           n == Len(p.patterns[t])
           row == [j \in 1 .. n |-> StopTimeRow(p, <<t, j>>)]
           numbers == p.numbers[t]
<1>1. /\ t \in DOMAIN p.patterns /\ n \in Nat /\ DOMAIN p.patterns[t] = 1 .. n /\ i \in 1 .. n
      /\ \A j \in 1 .. n : numbers[j] \in Int /\ \A k \in 1 .. n : j < k => numbers[j] < numbers[k]
      /\ c = <<t, i>>
  BY CallsAre DEF IsTimetable
<1>2. \A j \in 1 .. n : row[j].trip = t /\ row[j].seq = numbers[j] /\ row[j].stop = p.patterns[t][j]
  BY DEF StopTimeRow, StopOf
<1>3. /\ StopTimeRow(p, c).trip = t /\ StopTimeRow(p, c).seq = numbers[i]
      /\ StopTimeRow(p, c).stop = StopOf(p, c) /\ StopOf(p, c) = p.patterns[t][i]
  BY DEF StopTimeRow, StopOf
<1>4. \A j, k \in 1 .. n : (numbers[j] < numbers[k] <=> j < k) /\ (numbers[j] = numbers[k] <=> j = k)
  <2> HIDE DEF n, numbers
  <2> QED BY <1>1
<1>5. p.stopTimes = {StopTimeRow(p, d) : d \in CallsOf(p)}
  BY DEF IsTimetable
<1>6. \A q : q \in p.stopTimes /\ q.trip = t <=> \E j \in 1 .. n : q = row[j]
  <2>1. ASSUME NEW q \in p.stopTimes, q.trip = t PROVE \E j \in 1 .. n : q = row[j]
    <3>1. PICK d \in CallsOf(p) : q = StopTimeRow(p, d)
      BY <1>5
    <3>2. d = <<d[1], d[2]>> /\ d[2] \in DOMAIN p.patterns[d[1]]
      BY CallsAre
    <3>3. d[1] = t
      BY <2>1, <3>1 DEF StopTimeRow
    <3>4. d = <<t, d[2]>> /\ d[2] \in 1 .. n
      BY <1>1, <3>2, <3>3
    <3>5. q = row[d[2]]
      BY <3>1, <3>4
    <3> QED BY <3>4, <3>5
  <2>2. ASSUME NEW j \in 1 .. n PROVE row[j] \in p.stopTimes
    <3>1. <<t, j>> \in CallsOf(p)
      BY <1>1, CallsAre
    <3> QED BY <1>5, <3>1
  <2> HIDE DEF row
  <2> QED BY <1>2, <2>1, <2>2
<1> HIDE DEF row, n, numbers
<1>7. \A j, k \in 1 .. n : row[j] = row[k] => j = k
  BY <1>2, <1>4
<1>8. ASSUME NEW J \in SUBSET (1 .. n)
      PROVE  Cardinality({row[j] : j \in J}) = Cardinality(J)
  <2>1. IsFiniteSet(1 .. n)
    <3>1. 1 \in Int /\ n \in Int
      BY <1>1
    <3> QED BY <3>1, FS_Interval
  <2>2. IsFiniteSet(J)
    BY <2>1, FS_Subset
  <2>3. \A j, k \in J : row[j] = row[k] => j = k
    BY <1>7
  <2> QED BY <2>2, <2>3, SameSize
<1>9. CallOrdinal(p.stopTimes, StopTimeRow(p, c)) = i
  <2>1. 1 .. i \in SUBSET (1 .. n) /\ i \in Nat
    BY <1>1
  <2>2. {q \in p.stopTimes : q.trip = t /\ q.seq <= numbers[i]} = {row[j] : j \in 1 .. i}
    <3>1. ASSUME NEW j \in 1 .. n PROVE numbers[j] <= numbers[i] <=> j \in 1 .. i
      BY <1>1, <1>4
    <3>2. \A j \in 1 .. i : j \in 1 .. n
      BY <2>1
    <3> QED BY <1>2, <1>6, <3>1, <3>2
  <2>3. Cardinality(1 .. i) = i
    BY <2>1, FS_Interval
  <2> QED BY <1>3, <1>8, <2>1, <2>2, <2>3 DEF CallOrdinal
<1>10. StopOccurrence(p.stopTimes, StopTimeRow(p, c)) = Before(p, c)
  <2> DEFINE J == {j \in 1 .. (i - 1) : p.patterns[t][j] = StopOf(p, c)}
  <2>1. J \in SUBSET (1 .. n)
    BY <1>1
  <2>2. {q \in p.stopTimes : q.trip = t /\ q.stop = StopOf(p, c) /\ q.seq < numbers[i]} = {row[j] : j \in J}
    <3>1. ASSUME NEW j \in 1 .. n
          PROVE  row[j].stop = StopOf(p, c) /\ row[j].seq < numbers[i] <=> j \in J
      <4>1. numbers[j] < numbers[i] <=> j \in 1 .. (i - 1)
        BY <1>1, <1>4
      <4> QED BY <1>2, <4>1
    <3>2. \A j \in J : j \in 1 .. n
      BY <2>1
    <3> HIDE DEF J
    <3> QED BY <1>2, <1>6, <3>1, <3>2
  <2>3. Cardinality({row[j] : j \in J}) = Cardinality(J)
    <3> HIDE DEF J
    <3> QED BY <1>8, <2>1
  <2> QED BY <1>3, <2>2, <2>3 DEF StopOccurrence, Before
<1> QED BY <1>9, <1>10

\* The stop and the occurrence tell the calls of a trip apart.
LEMMA OccurrencesTell ==
  ASSUME NEW p, IsTimetable(p), NEW c \in CallsOf(p), NEW d \in CallsOf(p),
         c[1] = d[1], StopOf(p, c) = StopOf(p, d), Before(p, c) = Before(p, d)
  PROVE  c = d
<1> DEFINE t == c[1]
           seen(i) == {j \in 1 .. (i - 1) : p.patterns[t][j] = StopOf(p, c)}
<1>1. /\ c = <<t, c[2]>> /\ d = <<t, d[2]>> /\ c[2] \in Nat \ {0} /\ d[2] \in Nat \ {0}
      /\ StopOf(p, c) = p.patterns[t][c[2]] /\ StopOf(p, c) = p.patterns[t][d[2]]
  <2>1. /\ c = <<c[1], c[2]>> /\ d = <<d[1], d[2]>> /\ t \in DOMAIN p.patterns
        /\ c[2] \in DOMAIN p.patterns[t] /\ d[2] \in DOMAIN p.patterns[t]
    BY CallsAre
  <2>2. DOMAIN p.patterns[t] = 1 .. Len(p.patterns[t]) /\ Len(p.patterns[t]) \in Nat
    BY <2>1 DEF IsTimetable
  <2> QED BY <2>1, <2>2 DEF StopOf
<1>2. Cardinality(seen(c[2])) = Cardinality(seen(d[2]))
  BY DEF Before
<1>3. ASSUME NEW i \in Nat \ {0}, NEW j \in Nat \ {0}, i < j, p.patterns[t][i] = StopOf(p, c)
      PROVE  Cardinality(seen(i)) # Cardinality(seen(j))
  <2>1. seen(i) \subseteq seen(j) /\ i \in seen(j) /\ i \notin seen(i)
    BY <1>3
  <2>2. IsFiniteSet(seen(j))
    <3>1. IsFiniteSet(1 .. (j - 1))
      <4>1. 1 \in Int /\ j - 1 \in Int
        OBVIOUS
      <4> QED BY <4>1, FS_Interval
    <3>2. seen(j) \in SUBSET (1 .. (j - 1))
      OBVIOUS
    <3> HIDE DEF seen
    <3> QED BY <3>1, <3>2, FS_Subset
  <2> HIDE DEF seen
  <2> QED BY <2>1, <2>2, FS_Subset
<1> HIDE DEF seen
<1>4. ~(c[2] < d[2]) /\ ~(d[2] < c[2])
  BY <1>1, <1>2, <1>3
<1>5. c[2] = d[2]
  BY <1>1, <1>4
<1> QED BY <1>1, <1>5

\* The source calls on trips of the base timetable, as <<trip, number, post>>.
Placed == {c \in UNION {{<<b.base, i, b.posts[i]>> : i \in DOMAIN b.posts} : b \in Unedited(pack)} :
             c[3] \in DOMAIN pack.sourceStops}
SourceCalls == SourceCallsOnBase(pack.callMaps, pack.tripMaps, pack.sourceStops, Source)
SourceCallOf(c) == [trip |-> c[1], ordinal |-> c[2], post |-> c[3]]

LEMMA PlacedAre ==
  /\ \A c \in Placed : /\ c = <<c[1], c[2], c[3]>> /\ c[3] \in DOMAIN pack.sourceStops
                       /\ \E b \in Unedited(pack) : c[1] = b.base /\ c[2] \in DOMAIN b.posts /\ c[3] = b.posts[c[2]]
  /\ \A b \in Unedited(pack) : \A i \in DOMAIN b.posts :
        b.posts[i] \in DOMAIN pack.sourceStops => <<b.base, i, b.posts[i]>> \in Placed
<1>1. \A c \in Placed : \E b \in Unedited(pack) : \E i \in DOMAIN b.posts :
          c = <<b.base, i, b.posts[i]>> /\ c[3] \in DOMAIN pack.sourceStops
  BY DEF Placed
<1>2. ASSUME NEW b \in Unedited(pack), NEW i \in DOMAIN b.posts, b.posts[i] \in DOMAIN pack.sourceStops
      PROVE  <<b.base, i, b.posts[i]>> \in Placed
  <2>1. <<b.base, i, b.posts[i]>> \in UNION {{<<d.base, j, d.posts[j]>> : j \in DOMAIN d.posts} : d \in Unedited(pack)}
    OBVIOUS
  <2> QED BY <1>2, <2>1 DEF Placed
<1> QED BY <1>1, <1>2

\* Joined through the mappings, they are the source calls.
LEMMA CallsPlaced ==
  ASSUME IsOverlay(pack)
  PROVE  \A q : q \in SourceCalls <=> \E c \in Placed : q = SourceCallOf(c)
<1> DEFINE trips == {t \in pack.tripMaps : t.source = Source /\ t.base # None /\ t.edits = 0}
           known == {c \in pack.callMaps : c.source = Source /\ c.post \in DOMAIN pack.sourceStops}
           joined == {j \in known \X trips : j[1].sourceTrip = j[2].sourceTrip /\ j[1].output = j[2].output}
           tripMap(b) == [source |-> b.source, sourceTrip |-> b.sourceTrip, output |-> b.output, base |-> b.base,
                          edits |-> b.edits]
           callMap(b, i) == [source |-> b.source, sourceTrip |-> b.sourceTrip, output |-> b.output,
                             ordinal |-> i, post |-> b.posts[i]]
           placed(k, t) == [trip |-> t.base, ordinal |-> k.ordinal, post |-> k.post]
<1>1. SourceCalls = {placed(j[1], j[2]) : j \in joined}
  BY DEF SourceCalls, SourceCallsOnBase
<1>2. \A t \in trips : \E d \in Unedited(pack) : t = tripMap(d)
  <2>1. pack.tripMaps = {tripMap(b) : b \in pack.bindings}
    BY DEF IsOverlay
  <2> SUFFICES ASSUME NEW t \in trips PROVE \E d \in Unedited(pack) : t = tripMap(d)
    OBVIOUS
  <2>2. PICK d \in pack.bindings : t = tripMap(d)
    BY <2>1
  <2>3. d.source = Source /\ d.base # None /\ d.edits = 0
    BY <2>2
  <2> QED BY <2>2, <2>3 DEF Unedited
<1>3. \A d \in Unedited(pack) : tripMap(d) \in trips
  <2>1. pack.tripMaps = {tripMap(b) : b \in pack.bindings}
    BY DEF IsOverlay
  <2> QED BY <2>1 DEF Unedited
<1>4. pack.callMaps = UNION {{callMap(b, i) : i \in DOMAIN b.posts} : b \in pack.bindings}
  BY DEF IsOverlay
<1>5. \A k \in known : \E b \in pack.bindings : \E i \in DOMAIN b.posts :
          k = callMap(b, i) /\ b.source = Source /\ b.posts[i] \in DOMAIN pack.sourceStops
  <2> SUFFICES ASSUME NEW k \in known
               PROVE  \E b \in pack.bindings : \E i \in DOMAIN b.posts :
                        k = callMap(b, i) /\ b.source = Source /\ b.posts[i] \in DOMAIN pack.sourceStops
    OBVIOUS
  <2>1. PICK b \in pack.bindings : \E i \in DOMAIN b.posts : k = callMap(b, i)
    <3> HIDE DEF callMap
    <3> QED BY <1>4
  <2>2. PICK i \in DOMAIN b.posts : k = callMap(b, i)
    BY <2>1
  <2> QED BY <2>2
<1>6. ASSUME NEW d \in Unedited(pack), NEW i \in DOMAIN d.posts, d.posts[i] \in DOMAIN pack.sourceStops
      PROVE  callMap(d, i) \in known
  <2>1. d \in pack.bindings /\ d.source = Source
    BY DEF Unedited
  <2>2. callMap(d, i) \in pack.callMaps
    <3> HIDE DEF callMap
    <3> QED BY <1>4, <2>1
  <2> QED BY <1>6, <2>1, <2>2
<1>7. ASSUME NEW c \in Placed PROVE SourceCallOf(c) \in SourceCalls
  <2>1. PICK d \in Unedited(pack) : c[1] = d.base /\ c[2] \in DOMAIN d.posts /\ c[3] = d.posts[c[2]]
    BY PlacedAre
  <2>2. callMap(d, c[2]) \in known /\ tripMap(d) \in trips
    BY <1>3, <1>6, <2>1, PlacedAre
  <2>3. callMap(d, c[2]).sourceTrip = tripMap(d).sourceTrip /\ callMap(d, c[2]).output = tripMap(d).output
    OBVIOUS
  <2>4. <<callMap(d, c[2]), tripMap(d)>> \in joined
    <3> HIDE DEF callMap, tripMap, known, trips
    <3> QED BY <2>2, <2>3
  <2>5. SourceCallOf(c) = placed(callMap(d, c[2]), tripMap(d))
    BY <2>1 DEF SourceCallOf
  <2> HIDE DEF callMap, tripMap, joined, placed
  <2>6. placed(callMap(d, c[2]), tripMap(d))
          = placed(<<callMap(d, c[2]), tripMap(d)>>[1], <<callMap(d, c[2]), tripMap(d)>>[2])
    OBVIOUS
  <2> QED BY <1>1, <2>4, <2>5, <2>6
<1>8. ASSUME NEW q \in SourceCalls PROVE \E c \in Placed : q = SourceCallOf(c)
  <2>1. PICK j \in joined : q = placed(j[1], j[2])
    BY <1>1
  <2>2. /\ j[1] \in known /\ j[2] \in trips
        /\ j[1].sourceTrip = j[2].sourceTrip /\ j[1].output = j[2].output
    OBVIOUS
  <2>3. PICK b \in pack.bindings : \E i \in DOMAIN b.posts :
          j[1] = callMap(b, i) /\ b.source = Source /\ b.posts[i] \in DOMAIN pack.sourceStops
    BY <1>5, <2>2
  <2>4. PICK i \in DOMAIN b.posts :
          j[1] = callMap(b, i) /\ b.source = Source /\ b.posts[i] \in DOMAIN pack.sourceStops
    BY <2>3
  <2>5. PICK d \in Unedited(pack) : j[2] = tripMap(d)
    BY <1>2, <2>2
  <2>6. b.sourceTrip = d.sourceTrip /\ b.output = d.output
    BY <2>2, <2>4, <2>5
  <2>7. b.posts = d.posts
    BY <2>4, <2>6 DEF IsOverlay
  <2>8. <<d.base, i, b.posts[i]>> \in Placed
    BY <2>4, <2>7, PlacedAre
  <2>9. q = SourceCallOf(<<d.base, i, b.posts[i]>>)
    BY <2>1, <2>4, <2>5 DEF SourceCallOf
  <2> QED BY <2>8, <2>9
<1> QED BY <1>7, <1>8

Observed == ContextSourcePosts(SourceCalls, BaseCalls(pack.stopTimes), pack.contextCalls)
BaseCallOf(e) == [trip |-> e[1], ordinal |-> e[2], stop |-> StopOf(pack, e), occurrence |-> Before(pack, e)]
ObservationOf(c) == [context |-> ContextOf(pack, c), stop |-> StopOf(pack, c), post |-> c[3], trip |-> c[1], ordinal |-> c[2]]

LEMMA BaseCallsAre ==
  ASSUME IsTimetable(pack)
  PROVE  \A q : q \in BaseCalls(pack.stopTimes) <=> \E e \in CallsOf(pack) : q = BaseCallOf(e)
<1> DEFINE numbered(r) == [trip |-> r.trip, ordinal |-> CallOrdinal(pack.stopTimes, r), stop |-> r.stop,
                           occurrence |-> StopOccurrence(pack.stopTimes, r)]
<1>1. BaseCalls(pack.stopTimes) = {numbered(r) : r \in pack.stopTimes}
  BY DEF BaseCalls
<1>2. pack.stopTimes = {StopTimeRow(pack, e) : e \in CallsOf(pack)}
  BY DEF IsTimetable
<1>3. \A e \in CallsOf(pack) : numbered(StopTimeRow(pack, e)) = BaseCallOf(e)
  <2> SUFFICES ASSUME NEW e \in CallsOf(pack) PROVE numbered(StopTimeRow(pack, e)) = BaseCallOf(e)
    OBVIOUS
  <2>1. StopTimeRow(pack, e).trip = e[1] /\ StopTimeRow(pack, e).stop = StopOf(pack, e)
    BY DEF StopTimeRow
  <2> QED BY <2>1, CallsNumbered DEF BaseCallOf
<1> HIDE DEF numbered
<1> QED BY <1>1, <1>2, <1>3

\* A placed call is a call of the base timetable.
LEMMA PlacedIsCall ==
  ASSUME IsOverlay(pack), NEW c \in Placed
  PROVE  /\ <<c[1], c[2]>> \in CallsOf(pack)
         /\ StopOf(pack, <<c[1], c[2]>>) = StopOf(pack, c) /\ ContextOf(pack, <<c[1], c[2]>>) = ContextOf(pack, c)
<1>1. PICK d \in Unedited(pack) : c[1] = d.base /\ c[2] \in DOMAIN d.posts
  BY PlacedAre
<1>2. d.base \in DOMAIN pack.patterns /\ DOMAIN d.posts \subseteq DOMAIN pack.patterns[d.base]
  BY DEF IsOverlay
<1>3. <<c[1], c[2]>> \in CallsOf(pack)
  BY <1>1, <1>2, CallsAre
<1> QED BY <1>3 DEF StopOf, ContextOf

\* Joined with the timetable and the context export, they are observed in the context of their call.
LEMMA ObservedAre ==
  ASSUME IsTimetable(pack), IsOverlay(pack)
  PROVE  \A o : o \in Observed <=> \E c \in Placed : ContextOf(pack, c) # None /\ o = ObservationOf(c)
<1> DEFINE base == BaseCalls(pack.stopTimes)
           exported == pack.contextCalls
           placed == {p \in SourceCalls \X base : p[1].trip = p[2].trip /\ p[1].ordinal = p[2].ordinal}
           joined == {j \in placed \X exported :
                        /\ j[1][2].trip = j[2].trip
                        /\ j[1][2].stop = j[2].stop
                        /\ j[1][2].occurrence = j[2].occurrence}
           seen(s, r) == [context |-> r.context, stop |-> r.stop, post |-> s.post, trip |-> r.trip, ordinal |-> s.ordinal]
<1>1. Observed = {seen(j[1][1], j[2]) : j \in joined}
  BY DEF Observed, ContextSourcePosts
<1>2. \A s, b, r : (/\ s \in SourceCalls /\ b \in base /\ r \in exported
                    /\ s.trip = b.trip /\ s.ordinal = b.ordinal
                    /\ b.trip = r.trip /\ b.stop = r.stop /\ b.occurrence = r.occurrence)
                   => seen(s, r) \in Observed
  <2> SUFFICES ASSUME NEW s \in SourceCalls, NEW b \in base, NEW r \in exported,
                      s.trip = b.trip, s.ordinal = b.ordinal,
                      b.trip = r.trip, b.stop = r.stop, b.occurrence = r.occurrence
               PROVE  seen(s, r) \in Observed
    OBVIOUS
  <2> HIDE DEF base, exported, seen
  <2>1. <<s, b>> \in placed
    OBVIOUS
  <2> DEFINE j == <<<<s, b>>, r>>
  <2>2. j[1] = <<s, b>> /\ j[1][1] = s /\ j[1][2] = b /\ j[2] = r
    OBVIOUS
  <2>3. j \in placed \X exported
    BY <2>1
  <2> HIDE DEF j, placed
  <2>4. j \in joined
    BY <2>2, <2>3
  <2>5. seen(j[1][1], j[2]) \in Observed
    <3> HIDE DEF joined
    <3> QED BY <1>1, <2>4
  <2> QED BY <2>2, <2>5
<1>3. \A o \in Observed : \E s \in SourceCalls, b \in base, r \in exported :
          /\ s.trip = b.trip /\ s.ordinal = b.ordinal
          /\ b.trip = r.trip /\ b.stop = r.stop /\ b.occurrence = r.occurrence
          /\ o = seen(s, r)
  <2> SUFFICES ASSUME NEW o \in Observed
               PROVE  \E s \in SourceCalls, b \in base, r \in exported :
                        /\ s.trip = b.trip /\ s.ordinal = b.ordinal
                        /\ b.trip = r.trip /\ b.stop = r.stop /\ b.occurrence = r.occurrence
                        /\ o = seen(s, r)
    OBVIOUS
  <2> HIDE DEF base, exported, seen
  <2>1. PICK j \in joined : o = seen(j[1][1], j[2])
    <3> HIDE DEF joined
    <3> QED BY <1>1
  <2>2. /\ j[1] \in placed /\ j[2] \in exported
        /\ j[1][2].trip = j[2].trip /\ j[1][2].stop = j[2].stop /\ j[1][2].occurrence = j[2].occurrence
    OBVIOUS
  <2>3. /\ j[1][1] \in SourceCalls /\ j[1][2] \in base
        /\ j[1][1].trip = j[1][2].trip /\ j[1][1].ordinal = j[1][2].ordinal
    BY <2>2
  <2> QED BY <2>1, <2>2, <2>3
<1> HIDE DEF base, exported, placed, joined
<1>4. ASSUME NEW c \in Placed, ContextOf(pack, c) # None PROVE ObservationOf(c) \in Observed
  <2> DEFINE e == <<c[1], c[2]>>
  <2>1. /\ e \in CallsOf(pack) /\ StopOf(pack, e) = StopOf(pack, c) /\ ContextOf(pack, e) = ContextOf(pack, c)
        /\ e[1] = c[1] /\ e[2] = c[2]
    BY PlacedIsCall
  <2> HIDE DEF e
  <2>2. SourceCallOf(c) \in SourceCalls /\ BaseCallOf(e) \in base /\ ContextRow(pack, e) \in exported
    BY <1>4, <2>1, CallsPlaced, BaseCallsAre, ExportRows DEF base, exported
  <2>3. /\ SourceCallOf(c).trip = BaseCallOf(e).trip /\ SourceCallOf(c).ordinal = BaseCallOf(e).ordinal
        /\ BaseCallOf(e).trip = ContextRow(pack, e).trip /\ BaseCallOf(e).stop = ContextRow(pack, e).stop
        /\ BaseCallOf(e).occurrence = ContextRow(pack, e).occurrence
    BY <2>1 DEF SourceCallOf, BaseCallOf, ContextRow
  <2>4. seen(SourceCallOf(c), ContextRow(pack, e)) \in Observed
    <3> HIDE DEF seen
    <3> QED BY <1>2, <2>2, <2>3
  <2>5. seen(SourceCallOf(c), ContextRow(pack, e)) = ObservationOf(c)
    BY <2>1 DEF SourceCallOf, ContextRow, ObservationOf
  <2> QED BY <2>4, <2>5
<1>5. ASSUME NEW o \in Observed
      PROVE  \E c \in Placed : ContextOf(pack, c) # None /\ o = ObservationOf(c)
  <2>1. PICK s \in SourceCalls, b \in base, r \in exported :
          /\ s.trip = b.trip /\ s.ordinal = b.ordinal
          /\ b.trip = r.trip /\ b.stop = r.stop /\ b.occurrence = r.occurrence
          /\ o = seen(s, r)
    <3> HIDE DEF seen
    <3> QED BY <1>3
  <2>2. PICK c \in Placed : s = SourceCallOf(c)
    BY CallsPlaced
  <2>3. PICK e \in CallsOf(pack) : b = BaseCallOf(e)
    BY BaseCallsAre DEF base
  <2>4. PICK d \in CallsOf(pack) : ContextOf(pack, d) # None /\ r = ContextRow(pack, d)
    BY ExportRows DEF exported
  <2>5. c[1] = e[1] /\ c[2] = e[2]
    BY <2>1, <2>2, <2>3 DEF SourceCallOf, BaseCallOf
  <2>6. e[1] = d[1] /\ StopOf(pack, e) = StopOf(pack, d) /\ Before(pack, e) = Before(pack, d)
    BY <2>1, <2>3, <2>4 DEF BaseCallOf, ContextRow
  <2>7. e = d
    BY <2>6, OccurrencesTell
  <2>8. StopOf(pack, d) = StopOf(pack, c) /\ ContextOf(pack, d) = ContextOf(pack, c)
    <3>1. d = <<c[1], c[2]>>
      BY <2>5, <2>7, CallsAre
    <3> QED BY <3>1, PlacedIsCall
  <2>9. o = ObservationOf(c)
    BY <2>1, <2>2, <2>4, <2>5, <2>7, <2>8 DEF SourceCallOf, ContextRow, ObservationOf
  <2> QED BY <2>4, <2>8, <2>9
<1> QED BY <1>4, <1>5

\* As many calls are observed in a context, and of a post there, as were made.
LEMMA ServedCounted ==
  ASSUME pack \in Packs, PacksAreWritten, NEW c \in DOMAIN pack.contexts
  PROVE  /\ IsFiniteSet(Served(c))
         /\ Cardinality({o \in Observed : o.context = c}) = Cardinality(Served(c))
         /\ \A p : CallsAt(Observed, c, p) = Cardinality({s \in Served(c) : s[3] = p})
<1>1. /\ IsTimetable(pack) /\ IsOverlay(pack) /\ c # None
      /\ IsFiniteSet(Observed)
  BY ObservedCalls DEF PacksAreWritten, IsEvidence, Observed, SourceCalls
<1>2. Served(c) = {s \in Placed : ContextOf(pack, s) = c}
  BY DEF Served, Placed, ContextOf
<1> DEFINE here == {o \in Observed : o.context = c}
           f == [o \in here |-> <<o.trip, o.ordinal, o.post>>]
<1>3. \A s \in Placed : /\ ObservationOf(s).context = ContextOf(pack, s) /\ ObservationOf(s).post = s[3]
                        /\ <<ObservationOf(s).trip, ObservationOf(s).ordinal, ObservationOf(s).post>> = s
  BY PlacedAre DEF ObservationOf
<1>4. \A o \in here : \E s \in Served(c) : o = ObservationOf(s) /\ f[o] = s
  <2> SUFFICES ASSUME NEW o \in here PROVE \E s \in Served(c) : o = ObservationOf(s) /\ f[o] = s
    OBVIOUS
  <2>1. PICK s \in Placed : o = ObservationOf(s)
    BY <1>1, ObservedAre
  <2>2. o.context = c /\ f[o] = <<o.trip, o.ordinal, o.post>>
    OBVIOUS
  <2> HIDE DEF here, f
  <2>3. s \in Served(c)
    <3>1. ContextOf(pack, s) = c
      BY <1>3, <2>1, <2>2
    <3> QED BY <1>2, <2>1, <3>1
  <2>4. f[o] = s
    BY <1>3, <2>1, <2>2
  <2> QED BY <2>1, <2>3, <2>4
<1>5. \A s \in Served(c) : ObservationOf(s) \in here /\ f[ObservationOf(s)] = s
  <2> SUFFICES ASSUME NEW s \in Served(c) PROVE ObservationOf(s) \in here /\ f[ObservationOf(s)] = s
    OBVIOUS
  <2>1. s \in Placed /\ ContextOf(pack, s) = c
    BY <1>2
  <2>2. ObservationOf(s) \in here
    <3>1. ObservationOf(s) \in Observed
      BY <1>1, <2>1, ObservedAre
    <3>2. ObservationOf(s).context = c
      BY <1>3, <2>1
    <3> QED BY <3>1, <3>2
  <2>3. f[ObservationOf(s)] = <<ObservationOf(s).trip, ObservationOf(s).ordinal, ObservationOf(s).post>>
    BY <2>2
  <2> HIDE DEF here, f
  <2> QED BY <1>3, <2>1, <2>2, <2>3
<1>6. \A o \in here : o.post = f[o][3]
  OBVIOUS
<1>7. IsFiniteSet(here)
  BY <1>1, FS_Subset
<1> HIDE DEF here, f
<1>8. \A o, q \in here : f[o] = f[q] => o = q
  BY <1>4
<1>9. Served(c) = {f[o] : o \in here}
  BY <1>4, <1>5
<1>10. IsFiniteSet(Served(c)) /\ Cardinality(here) = Cardinality(Served(c))
  BY <1>7, <1>8, <1>9, SameSize
<1>11. ASSUME NEW p PROVE CallsAt(Observed, c, p) = Cardinality({s \in Served(c) : s[3] = p})
  <2> DEFINE by == {o \in here : o.post = p}
  <2>1. IsFiniteSet(by) /\ \A o, q \in by : f[o] = f[q] => o = q
    BY <1>7, <1>8, FS_Subset
  <2>2. {s \in Served(c) : s[3] = p} = {f[o] : o \in by}
    BY <1>6, <1>9
  <2>3. Cardinality({f[o] : o \in by}) = Cardinality(by)
    <3> HIDE DEF by
    <3> QED BY <2>1, SameSize
  <2>4. CallsAt(Observed, c, p) = Cardinality(by)
    <3>1. {o \in Observed : o.context = c /\ o.post = p} = by
      BY DEF here
    <3> QED BY <3>1 DEF CallsAt
  <2> QED BY <2>2, <2>3, <2>4
<1> QED BY <1>10, <1>11 DEF here

\* The posts that have four fifths of the calls of a context.
MainPosts(c) == {p \in DOMAIN pack.sourceStops :
                    /\ 5 * Cardinality({s \in Served(c) : s[3] = p}) >= 4 * Cardinality(Served(c))
                    /\ {s \in Served(c) : s[3] = p} # {}}
Majorities == MajorityPosts(Observed)

\* There is one at most, and the majority of the context agrees on it.
LEMMA AgreedIsMain ==
  ASSUME pack \in Packs, PacksAreWritten, NEW c \in DOMAIN pack.contexts
  PROVE  /\ MainPosts(c) # {} => \E m \in Majorities : m.context = c
         /\ \A m \in Majorities : m.context = c => /\ m.stop = pack.contexts[c].stop
                                                /\ MainPosts(c) = IF Agreeing(m) THEN {m.post} ELSE {}
<1>1. /\ IsTimetable(pack) /\ IsOverlay(pack) /\ c # None
      /\ IsFiniteSet(Observed) /\ \A o \in Observed : o.post \in DOMAIN pack.sourceStops
  BY ObservedCalls DEF PacksAreWritten, IsEvidence, Observed, SourceCalls
<1>2. \A o \in Observed : o.post \in Int
  BY <1>1, PacksAssumption
<1> DEFINE at(p) == {s \in Served(c) : s[3] = p}
           all == Cardinality(Served(c))
           entry(d) ==
             [context |-> d, stop |-> (CHOOSE o \in Observed : o.context = d).stop, post |-> MajorityOf(Observed, d),
              calls |-> CallsAt(Observed, d, MajorityOf(Observed, d)),
              total |-> Cardinality({o \in Observed : o.context = d})]
<1>3. Majorities = {entry(d) : d \in {o.context : o \in Observed}}
  BY DEF Majorities, MajorityPosts
<1>4. /\ IsFiniteSet(Served(c)) /\ Cardinality({o \in Observed : o.context = c}) = all
      /\ \A p : CallsAt(Observed, c, p) = Cardinality(at(p))
  BY ServedCounted
<1>5. \A p : IsFiniteSet(at(p)) /\ Cardinality(at(p)) \in Nat /\ at(p) \subseteq Served(c)
  BY <1>4, FS_Subset, FS_CardinalityType
<1>6. all \in Nat /\ (all = 0 <=> Served(c) = {})
  BY <1>4, FS_CardinalityType, FS_EmptySet
<1>7. (\E o \in Observed : o.context = c) <=> Served(c) # {}
  <2>1. IsFiniteSet({o \in Observed : o.context = c})
    BY <1>1, FS_Subset
  <2>2. {o \in Observed : o.context = c} = {} <=> Served(c) = {}
    BY <1>4, <1>6, <2>1, FS_EmptySet
  <2> QED BY <2>2
<1>8. MainPosts(c) # {} => \E m \in Majorities : m.context = c
  <2>1. MainPosts(c) # {} => Served(c) # {}
    BY DEF MainPosts
  <2>2. entry(c).context = c
    OBVIOUS
  <2> HIDE DEF entry
  <2> QED BY <1>3, <1>7, <2>1, <2>2
<1>9. ASSUME NEW m \in Majorities, m.context = c
      PROVE  m.stop = pack.contexts[c].stop /\ MainPosts(c) = IF Agreeing(m) THEN {m.post} ELSE {}
  <2>1. m = entry(c) /\ \E o \in Observed : o.context = c
    <3>1. PICK d \in {o.context : o \in Observed} : m = entry(d)
      <4> HIDE DEF entry
      <4> QED BY <1>3
    <3>2. d = c
      BY <1>9, <3>1
    <3> QED BY <3>1, <3>2
  <2>2. PICK o \in Observed : o.context = c /\ o = CHOOSE q \in Observed : q.context = c
    BY <2>1
  <2>3. m.stop = pack.contexts[c].stop
    <3>1. m.stop = o.stop
      BY <2>1, <2>2
    <3>2. PICK s \in Placed : o = ObservationOf(s)
      BY <1>1, ObservedAre
    <3>3. ContextOf(pack, s) = c /\ o.stop = StopOf(pack, s) /\ <<s[1], s[2]>> \in CallsOf(pack)
      BY <1>1, <2>2, <3>2, PlacedIsCall DEF ObservationOf
    <3>4. s[1] \in DOMAIN pack.patterns /\ s[2] \in DOMAIN pack.patterns[s[1]]
      BY <3>3, CallsAre
    <3>5. pack.contexts[c].stop = StopOf(pack, s)
      BY <1>1, <3>3, <3>4 DEF IsTimetable, ContextOf, StopOf
    <3> QED BY <3>1, <3>3, <3>5
  <2> DEFINE most == MajorityOf(Observed, c)
  <2>4. m.post = most /\ m.calls = Cardinality(at(most)) /\ m.total = all
    <3> HIDE DEF at, all
    <3> QED BY <1>4, <2>1
  <2>5. /\ \E q \in Observed : q.context = c /\ q.post = most
        /\ \A q \in Observed : q.context = c => CallsAt(Observed, c, most) >= CallsAt(Observed, c, q.post)
    BY <1>1, <1>2, <2>2, MajorityIsObserved
  <2>6. \A p : (\E q \in Observed : q.context = c /\ q.post = p) <=> at(p) # {}
    <3> SUFFICES ASSUME NEW p PROVE (\E q \in Observed : q.context = c /\ q.post = p) <=> at(p) # {}
      OBVIOUS
    <3>1. IsFiniteSet({q \in Observed : q.context = c /\ q.post = p})
      BY <1>1, FS_Subset
    <3>2. Cardinality({q \in Observed : q.context = c /\ q.post = p}) = Cardinality(at(p))
      <4> HIDE DEF at
      <4> QED BY <1>4 DEF CallsAt
    <3>3. {q \in Observed : q.context = c /\ q.post = p} = {} <=> at(p) = {}
      <4> HIDE DEF at
      <4> QED BY <1>5, <3>1, <3>2, FS_EmptySet
    <3> HIDE DEF at
    <3> QED BY <3>3
  <2> HIDE DEF most, entry
  <2>7. \A p : at(p) # {} => Cardinality(at(most)) >= Cardinality(at(p))
    <3> HIDE DEF at
    <3> QED BY <1>4, <2>5, <2>6
  <2>8. at(most) # {} /\ most \in DOMAIN pack.sourceStops
    <3> HIDE DEF at
    <3> QED BY <1>1, <2>5, <2>6
  <2>9. all > 0 /\ (Agreeing(m) <=> 5 * Cardinality(at(most)) >= 4 * all)
    <3>1. all > 0
      <4>1. Served(c) # {}
        BY <1>7, <2>1
      <4> HIDE DEF all
      <4> QED BY <1>6, <4>1
    <3> HIDE DEF at, all
    <3> QED BY <1>5, <1>6, <2>4, <3>1 DEF Agreeing, MinimumShare, MinimumCalls
  <2>10. \A p : p \in MainPosts(c) <=> /\ p \in DOMAIN pack.sourceStops /\ at(p) # {}
                                     /\ 5 * Cardinality(at(p)) >= 4 * all
    BY DEF MainPosts
  <2>11. ASSUME NEW p \in MainPosts(c) PROVE p = most /\ Agreeing(m)
    <3>1. at(p) # {} /\ 5 * Cardinality(at(p)) >= 4 * all
      BY <2>10
    <3>2. Cardinality(at(most)) >= Cardinality(at(p)) /\ Cardinality(at(p)) \in Nat /\ Cardinality(at(most)) \in Nat
      BY <1>5, <2>7, <3>1
    <3>3. Cardinality(at(p)) + Cardinality(at(most)) > all /\ 5 * Cardinality(at(most)) >= 4 * all
      <4> HIDE DEF at, all
      <4> QED BY <1>6, <2>9, <3>1, <3>2
    <3>4. at(p) \cap at(most) # {}
      <4>1. at(p) \subseteq Served(c) /\ at(most) \subseteq Served(c)
        OBVIOUS
      <4> HIDE DEF at
      <4> QED BY <1>4, <3>3, <4>1, FS_MajoritiesIntersect
    <3>5. p = most
      BY <3>4
    <3> QED BY <2>9, <3>3, <3>5
  <2>12. Agreeing(m) => most \in MainPosts(c)
    <3> HIDE DEF at, all
    <3> QED BY <2>8, <2>9, <2>10
  <2>13. MainPosts(c) = IF Agreeing(m) THEN {m.post} ELSE {}
    BY <2>4, <2>11, <2>12
  <2> QED BY <2>3, <2>13
<1> QED BY <1>8, <1>9

\* The nearest route point of a stop is one of its points, and at the least distance.
LEMMA NearestIsPoint ==
  ASSUME NEW at, at.x \in Int, at.y \in Int, NEW stop,
         NEW P, IsFiniteSet(P), \A r \in P : r.x \in Int /\ r.y \in Int /\ r.id \in Int,
         \A r, s \in P : r.id = s.id => r = s
  PROVE  LET points == {r \in P : r.stop = stop}
             gaps == {SquaredDistance(at, r) : r \in points}
         IN  IF points = {} THEN NearestPoint(at, stop, P) = None
             ELSE /\ NearestPoint(at, stop, P) \in points
                  /\ SquaredDistance(at, NearestPoint(at, stop, P)) = Min(gaps)
                  /\ Min(gaps) \in Int
<1> DEFINE points == {r \in P : r.stop = stop}
           gap == [r \in points |-> SquaredDistance(at, r)]
           gaps == {SquaredDistance(at, r) : r \in points}
<1>1. CASE points = {}
  BY <1>1 DEF NearestPoint
<1>2. CASE points # {}
  <2>1. IsFiniteSet(points) /\ \A r \in points : gap[r] \in Int
    BY FS_Subset DEF SquaredDistance
  <2>2. IsFiniteSet(gaps) /\ gaps # {} /\ gaps \subseteq Int
    <3>1. gaps = {gap[r] : r \in points}
      OBVIOUS
    <3> HIDE DEF gap, gaps, points
    <3>2. IsFiniteSet({gap[r] : r \in points})
      BY <2>1, FiniteImage
    <3> QED BY <1>2, <2>1, <3>1, <3>2
  <2>3. Min(gaps) \in gaps /\ \A g \in gaps : Min(gaps) <= g
    <3> HIDE DEF gaps
    <3> QED BY <2>2, MinIsLeast
  <2> DEFINE ties == {r \in points : gap[r] = Min(gaps)}
             number == [r \in ties |-> r.id]
  <2>4. IsFiniteSet(ties) /\ ties # {} /\ \A r \in ties : number[r] \in Int
    <3>1. ties \in SUBSET points
      OBVIOUS
    <3>2. \E r \in points : gap[r] = Min(gaps)
      BY <2>3
    <3> QED BY <2>1, <3>1, <3>2, FS_Subset
  <2>5. PICK n \in ties : \A r \in ties : number[n] <= number[r]
    <3> HIDE DEF ties, number
    <3> QED BY <2>4, Extremes
  <2> DEFINE Nearer(r, s) == \/ SquaredDistance(at, r) < SquaredDistance(at, s)
                             \/ SquaredDistance(at, r) = SquaredDistance(at, s) /\ r.id < s.id
  <2>6. ASSUME NEW r \in points \ {n} PROVE Nearer(n, r)
    <3>1. /\ n \in points /\ gap[n] = Min(gaps) /\ gap[n] <= gap[r] /\ gap[r] \in Int /\ gap[n] \in Int
          /\ SquaredDistance(at, n) = gap[n] /\ SquaredDistance(at, r) = gap[r]
      BY <2>1, <2>3, <2>5
    <3>2. n.id \in Int /\ r.id \in Int /\ n.id # r.id
      BY <3>1
    <3>3. gap[r] = Min(gaps) => n.id <= r.id
      BY <2>5
    <3> HIDE DEF gap, gaps, points, ties, number
    <3> QED BY <3>1, <3>2, <3>3
  <2>7. NearestPoint(at, stop, P) = CHOOSE r \in points : \A s \in points \ {r} : Nearer(r, s)
    BY <1>2 DEF NearestPoint
  <2>8. NearestPoint(at, stop, P) \in points /\ \A s \in points \ {NearestPoint(at, stop, P)} : Nearer(NearestPoint(at, stop, P), s)
    <3>1. n \in points
      BY <2>5
    <3> HIDE DEF points, Nearer
    <3> QED BY <2>6, <2>7, <3>1
  <2>9. PICK k : k = NearestPoint(at, stop, P)
    OBVIOUS
  <2>10. k \in points /\ \A s \in points \ {k} : gap[k] <= gap[s]
    <3>1. k \in points
      BY <2>8, <2>9
    <3>2. ASSUME NEW s \in points \ {k} PROVE gap[k] <= gap[s]
      <4>1. Nearer(k, s)
        BY <2>8, <2>9
      <4>2. gap[k] = SquaredDistance(at, k) /\ gap[s] = SquaredDistance(at, s) /\ gap[k] \in Int /\ gap[s] \in Int
        BY <2>1, <3>1
      <4> HIDE DEF gap
      <4> QED BY <4>1, <4>2
    <3> QED BY <3>1, <3>2
  <2>11. gap[k] = Min(gaps)
    <3>1. gap[k] \in gaps /\ gap[k] \in Int
      BY <2>1, <2>10
    <3>2. PICK s \in points : Min(gaps) = gap[s]
      BY <2>3
    <3>3. Min(gaps) <= gap[k] /\ gap[s] \in Int
      BY <2>1, <2>3, <3>1
    <3>4. gap[k] <= gap[s]
      <4> HIDE DEF gap, gaps, points
      <4>1. CASE s = k
        BY <3>1, <4>1
      <4>2. CASE s # k
        BY <2>10, <3>2, <4>2
      <4> QED BY <4>1, <4>2
    <3> HIDE DEF gap, gaps, points
    <3> QED BY <3>1, <3>2, <3>3, <3>4
  <2>12. SquaredDistance(at, k) = Min(gaps) /\ Min(gaps) \in Int
    BY <2>1, <2>10, <2>11
  <2> QED BY <1>2, <2>9, <2>10, <2>12
<1> QED BY <1>1, <1>2

\* The label of a post by the square of its distance to the nearest point.
LEMMA LabelByGap ==
  ASSUME NEW at, NEW n, n # None, n.id # None, SquaredDistance(at, n) \in Int
  PROVE  LET g == SquaredDistance(at, n)
         IN  /\ Suspect(at, n) <=> g > 90000
             /\ Label(at, n) = IF g <= 400 THEN n.id ELSE IF g > 1225 THEN NoCorrect ELSE None
<1>1. \A metres \in {20, 35, 300} : Within(at, n, metres) <=> SquaredDistance(at, n) <= metres * metres
  BY DEF Within
<1> DEFINE g == SquaredDistance(at, n)
<1>2. /\ Within(at, n, 20) <=> g <= 400
      /\ Within(at, n, 35) <=> g <= 1225
      /\ Within(at, n, 300) <=> g <= 90000
  BY <1>1
<1>3. g \in Int
  OBVIOUS
<1> HIDE DEF g
<1>4. Suspect(at, n) <=> g > 90000
  BY <1>2, <1>3 DEF Suspect, Guard
<1>5. Label(at, n) = IF g <= 400 THEN n.id ELSE IF g > 1225 THEN NoCorrect ELSE None
  BY <1>2, <1>3 DEF Label, Tolerance, NoCandidate
<1> QED BY <1>4, <1>5 DEF g

\* What LabelsFollowTheCalls says of a context, in parts.
PointsOf(c) == {r \in pack.routePoints : r.stop = pack.contexts[c].stop}
LeastGap(c, p) == Min({SquaredDistance(pack.sourceStops[p], r) : r \in PointsOf(c)})
GoodPosts(c) == {p \in MainPosts(c) : PointsOf(c) # {} /\ LeastGap(c, p) <= 400}
AwayPosts(c) == {p \in MainPosts(c) : PointsOf(c) # {} /\ LeastGap(c, p) > 1225 /\ LeastGap(c, p) <= 90000}
IsLabelOf(l, c) ==
    /\ l.at \in {pack.sourceStops[p] : p \in GoodPosts(c) \cup AwayPosts(c)}
    /\ l.label = NoCorrect <=> GoodPosts(c) = {}
    /\ GoodPosts(c) # {} => \E r \in PointsOf(c) :
                               /\ l.label = r.id
                               /\ SquaredDistance(l.at, r) = LeastGap(c, CHOOSE p \in GoodPosts(c) : TRUE)
FollowsIn(c, found) ==
    LET mine == {l \in found : l.context = c}
    IN  (mine # {} <=> GoodPosts(c) \cup AwayPosts(c) # {}) /\ \A l \in mine : IsLabelOf(l, c)

\* Together, the parts say what LabelsFollowTheCalls says; and of the next state, if the pack stays.
LEMMA FollowsEverywhere ==
  LabelsFollowTheCalls <=>
    (pack.labelling = "overlay" /\ stage # "labels" => \A c \in DOMAIN pack.contexts : FollowsIn(c, labels))
BY DEF LabelsFollowTheCalls, FollowsIn, IsLabelOf, GoodPosts, AwayPosts, LeastGap, PointsOf, MainPosts

\* The label a majority gives its context.
PlaceOf(m) == pack.sourceStops[m.post]
NearPoint(m) == NearestPoint(PlaceOf(m), m.stop, pack.routePoints)
Clear(m) == ~Suspect(PlaceOf(m), NearPoint(m)) /\ Label(PlaceOf(m), NearPoint(m)) # None
Given(m) == [context |-> m.context, label |-> Label(PlaceOf(m), NearPoint(m)), at |-> PlaceOf(m)]
Agreed == {m \in {n \in Majorities : n.context \in DOMAIN pack.contexts} : Agreeing(m)}

LEMMA LabelsAreGiven ==
  ASSUME LabelFromOverlay
  PROVE  \A l : l \in labels' <=> \E m \in Agreed : Clear(m) /\ l = Given(m)
<1> DEFINE attached == AttachLabels(Agreed, pack.routePoints, pack.sourceStops)
           Attached(m) == [context |-> m.context, at |-> PlaceOf(m), suspect |-> Suspect(PlaceOf(m), NearPoint(m)),
                           label |-> Label(PlaceOf(m), NearPoint(m))]
           Trimmed(a) == [context |-> a.context, label |-> a.label, at |-> a.at]
<1>1. labels' = KeptLabels(attached)
  BY DEF LabelFromOverlay, Agreed, Majorities, Observed, SourceCalls
<1>2. attached = {Attached(m) : m \in Agreed}
  BY DEF AttachLabels, PlaceOf, NearPoint
<1>3. labels' = {Trimmed(a) : a \in {b \in attached : ~b.suspect /\ b.label # None}}
  BY <1>1 DEF KeptLabels
<1>4. \A m : /\ Trimmed(Attached(m)) = Given(m)
             /\ ~Attached(m).suspect /\ Attached(m).label # None <=> Clear(m)
  BY DEF Given, Clear
<1> HIDE DEF Attached, Trimmed, attached
<1> QED BY <1>2, <1>3, <1>4

\* It is kept if its post is clearly at a point or clearly away from all.
LEMMA GivenByGap ==
  ASSUME pack \in Packs, PacksAreWritten, NEW m, NEW c, m.stop = pack.contexts[c].stop,
         m.post \in DOMAIN pack.sourceStops
  PROVE  LET g == LeastGap(c, m.post)
         IN  IF PointsOf(c) = {} THEN ~Clear(m)
             ELSE /\ g \in Int
                  /\ Clear(m) <=> g <= 400 \/ (g > 1225 /\ g <= 90000)
                  /\ g <= 400 => \E r \in PointsOf(c) : Given(m).label = r.id /\ SquaredDistance(PlaceOf(m), r) = g
                  /\ Clear(m) => (Given(m).label = NoCorrect <=> g > 400)
<1> DEFINE P == pack.routePoints
           g == LeastGap(c, m.post)
<1>1. IsEvidence(pack) /\ PlaceOf(m).x \in Int /\ PlaceOf(m).y \in Int
  BY PacksAssumption DEF PacksAreWritten, PlaceOf
<1>2. /\ IsFiniteSet(P) /\ None \notin P /\ None # NoCorrect
      /\ \A r \in P : r.id \in Int /\ r.x \in Int /\ r.y \in Int /\ r.id # None /\ r.id # NoCorrect
      /\ \A r, s \in P : r.id = s.id => r = s
  BY <1>1, TableAssumption DEF IsEvidence
<1>3. PICK at : at = PlaceOf(m)
  OBVIOUS
<1>4. IF PointsOf(c) = {} THEN NearPoint(m) = None
      ELSE NearPoint(m) \in PointsOf(c) /\ SquaredDistance(PlaceOf(m), NearPoint(m)) = g /\ g \in Int
  <2>1. at.x \in Int /\ at.y \in Int
    BY <1>1, <1>3
  <2>2. LET points == {r \in P : r.stop = m.stop}
            gaps == {SquaredDistance(at, r) : r \in points}
        IN  IF points = {} THEN NearestPoint(at, m.stop, P) = None
            ELSE /\ NearestPoint(at, m.stop, P) \in points
                 /\ SquaredDistance(at, NearestPoint(at, m.stop, P)) = Min(gaps)
                 /\ Min(gaps) \in Int
    <3>1. /\ IsFiniteSet(P)
          /\ \A r \in P : r.x \in Int /\ r.y \in Int /\ r.id \in Int
          /\ \A r, s \in P : r.id = s.id => r = s
      BY <1>2
    <3> HIDE DEF P
    <3> QED BY <2>1, <3>1, NearestIsPoint
  <2>3. PointsOf(c) = {r \in P : r.stop = m.stop}
    BY DEF PointsOf
  <2>4. g = Min({SquaredDistance(at, r) : r \in PointsOf(c)})
    BY <1>3 DEF LeastGap, PlaceOf
  <2> HIDE DEF P, g
  <2> QED BY <1>3, <2>2, <2>3, <2>4 DEF NearPoint, P
<1>5. PointsOf(c) = {} => ~Clear(m)
  BY <1>4 DEF Clear, Suspect
<1>6. CASE PointsOf(c) # {}
  <2>1. PICK n : n = NearPoint(m)
    OBVIOUS
  <2>2. /\ n \in PointsOf(c) /\ SquaredDistance(at, n) = g /\ g \in Int
        /\ n # None /\ n.id # None /\ n.id # NoCorrect
    <3>1. n \in PointsOf(c) /\ SquaredDistance(at, n) = g /\ g \in Int
      BY <1>3, <1>4, <1>6, <2>1
    <3>2. n \in P
      BY <3>1 DEF PointsOf
    <3> QED BY <1>2, <3>1, <3>2
  <2> HIDE DEF g
  <2>3. /\ Suspect(at, n) <=> g > 90000
        /\ Label(at, n) = IF g <= 400 THEN n.id ELSE IF g > 1225 THEN NoCorrect ELSE None
    BY <2>2, LabelByGap
  <2>4. (Clear(m) <=> ~Suspect(at, n) /\ Label(at, n) # None) /\ Given(m).label = Label(at, n)
    BY <1>3, <2>1 DEF Clear, Given
  <2>5. Clear(m) <=> g <= 400 \/ (g > 1225 /\ g <= 90000)
    BY <2>2, <2>3, <2>4, <1>2
  <2>6. Clear(m) => (Given(m).label = NoCorrect <=> g > 400)
    BY <2>2, <2>3, <2>4, <1>2
  <2>7. g <= 400 => Given(m).label = n.id
    BY <2>3, <2>4
  <2> QED BY <1>3, <1>6, <2>2, <2>5, <2>6, <2>7 DEF g
<1> QED BY <1>5, <1>6

LEMMA LabelsOfContext ==
  ASSUME pack \in Packs, PacksAreWritten, LabelFromOverlay, NEW c \in DOMAIN pack.contexts
  PROVE  FollowsIn(c, labels')
<1> DEFINE mine == {l \in labels' : l.context = c}
<1>1. \A l : l \in labels' <=> \E m \in Agreed : Clear(m) /\ l = Given(m)
  BY LabelsAreGiven
<1>2. /\ MainPosts(c) # {} => \E m \in Majorities : m.context = c
      /\ \A m \in Majorities : m.context = c => /\ m.stop = pack.contexts[c].stop
                                             /\ MainPosts(c) = IF Agreeing(m) THEN {m.post} ELSE {}
  BY AgreedIsMain
<1>3. \A m : Given(m).context = m.context /\ Given(m).at = PlaceOf(m)
  BY DEF Given
<1>4. \A m : m \in Agreed <=> m \in Majorities /\ m.context \in DOMAIN pack.contexts /\ Agreeing(m)
  BY DEF Agreed
<1> SUFFICES (mine # {} <=> GoodPosts(c) \cup AwayPosts(c) # {}) /\ \A l \in mine : IsLabelOf(l, c)
  BY DEF FollowsIn
<1>5. CASE MainPosts(c) = {}
  <2>1. mine = {}
    BY <1>1, <1>2, <1>3, <1>4, <1>5
  <2>2. GoodPosts(c) = {} /\ AwayPosts(c) = {}
    BY <1>5 DEF GoodPosts, AwayPosts
  <2> HIDE DEF mine
  <2> QED BY <2>1, <2>2
<1>6. CASE MainPosts(c) # {}
  <2>1. PICK m \in Majorities : m.context = c
    BY <1>2, <1>6
  <2>2. MainPosts(c) = {m.post} /\ m.stop = pack.contexts[c].stop /\ Agreeing(m)
    BY <1>2, <1>6, <2>1
  <2>3. \A n \in Majorities : n.context = m.context => n = m
    BY <2>1, MajorityByContext DEF Majorities
  <2>4. mine = IF Clear(m) THEN {Given(m)} ELSE {}
    BY <1>1, <1>3, <1>4, <2>1, <2>2, <2>3
  <2>5. m.post \in DOMAIN pack.sourceStops
    BY <2>2 DEF MainPosts
  <2> HIDE DEF mine
  <2> DEFINE g == LeastGap(c, m.post)
  <2>6. /\ GoodPosts(c) = IF PointsOf(c) # {} /\ g <= 400 THEN {m.post} ELSE {}
        /\ AwayPosts(c) = IF PointsOf(c) # {} /\ g > 1225 /\ g <= 90000 THEN {m.post} ELSE {}
    BY <2>2 DEF GoodPosts, AwayPosts
  <2>7. IF PointsOf(c) = {} THEN ~Clear(m)
        ELSE /\ g \in Int
             /\ Clear(m) <=> g <= 400 \/ (g > 1225 /\ g <= 90000)
             /\ g <= 400 => \E r \in PointsOf(c) : Given(m).label = r.id /\ SquaredDistance(PlaceOf(m), r) = g
             /\ Clear(m) => (Given(m).label = NoCorrect <=> g > 400)
    BY <2>2, <2>5, GivenByGap
  <2>8. GoodPosts(c) # {} => LeastGap(c, CHOOSE p \in GoodPosts(c) : TRUE) = g
    <3>1. GoodPosts(c) # {} => GoodPosts(c) = {m.post}
      BY <2>6
    <3>2. GoodPosts(c) # {} => (CHOOSE p \in GoodPosts(c) : TRUE) = m.post
      BY <3>1
    <3> QED BY <3>2
  <2> HIDE DEF g
  <2>9. Clear(m) <=> GoodPosts(c) \cup AwayPosts(c) # {}
    BY <2>6, <2>7
  <2>10. ASSUME Clear(m) PROVE IsLabelOf(Given(m), c)
    <3>1. m.post \in GoodPosts(c) \cup AwayPosts(c) /\ Given(m).at = pack.sourceStops[m.post]
      BY <1>3, <2>6, <2>9, <2>10 DEF PlaceOf
    <3>2. Given(m).label = NoCorrect <=> GoodPosts(c) = {}
      BY <2>6, <2>7, <2>10
    <3>3. ASSUME GoodPosts(c) # {}
          PROVE  \E r \in PointsOf(c) :
                    /\ Given(m).label = r.id
                    /\ SquaredDistance(Given(m).at, r) = LeastGap(c, CHOOSE p \in GoodPosts(c) : TRUE)
      <4>1. PointsOf(c) # {} /\ g <= 400
        BY <2>6, <3>3
      <4>2. PICK r \in PointsOf(c) : Given(m).label = r.id /\ SquaredDistance(PlaceOf(m), r) = g
        BY <2>7, <4>1
      <4>3. SquaredDistance(Given(m).at, r) = LeastGap(c, CHOOSE p \in GoodPosts(c) : TRUE)
        <5>1. Given(m).at = PlaceOf(m)
          BY <1>3
        <5> QED BY <2>8, <3>3, <4>2, <5>1
      <4> QED BY <4>2, <4>3
    <3>4. Given(m).at \in {pack.sourceStops[p] : p \in GoodPosts(c) \cup AwayPosts(c)}
      BY <3>1
    <3> QED BY <3>2, <3>3, <3>4 DEF IsLabelOf
  <2> QED BY <2>4, <2>9, <2>10
<1> QED BY <1>5, <1>6

LEMMA FollowsNext ==
  ASSUME pack' = pack
  PROVE  LabelsFollowTheCalls' <=>
           (pack.labelling = "overlay" /\ stage' # "labels" => \A c \in DOMAIN pack.contexts : FollowsIn(c, labels'))
BY DEF LabelsFollowTheCalls, FollowsIn, IsLabelOf, GoodPosts, AwayPosts, LeastGap, PointsOf, MainPosts, Served, Unedited

LEMMA FollowsStill ==
  ASSUME LabelsFollowTheCalls, pack' = pack, labels' = labels, stage = "labels" => stage' = "labels"
  PROVE  LabelsFollowTheCalls'
BY FollowsEverywhere, FollowsNext

LEMMA OverlayFollows ==
  ASSUME pack \in Packs, PacksAreWritten, LabelFromOverlay
  PROVE  LabelsFollowTheCalls'
<1>1. pack' = pack
  BY DEF LabelFromOverlay
<1> QED BY <1>1, FollowsNext, LabelsOfContext

\* Evidence is of its context from the step that gives it on: later steps leave it alone.
ContextInv ==
    /\ pack \in Packs
    /\ stage \in {"labels", "facts", "posts", "areas", "rows", "positives", "weights", "done"}
    /\ EvidenceIsOfTheContext

LEMMA ContextStep ==
  ASSUME PacksAreWritten, ContextInv, [TableNext]_tableVars
  PROVE  ContextInv'
<1> USE DEF ContextInv, EvidenceIsOfTheContext
<1>1. CASE LabelFromOverlay
  <2>1. LabelsFollowTheCalls'
    BY <1>1, OverlayFollows
  <2>2. pack' = pack /\ pack.labelling = "overlay" /\ stage' = "facts"
    BY <1>1 DEF LabelFromOverlay
  <2> QED BY <2>1, <2>2 DEF LatestCorrectionWins, DeparturesCounted
<1>2. CASE LabelFromCorrections
  <2>1. LatestCorrectionWins'
    BY <1>2, CorrectedLabels
  <2>2. pack' = pack /\ pack.labelling = "corrections" /\ stage' = "facts"
    BY <1>2 DEF LabelFromCorrections
  <2> QED BY <2>1, <2>2 DEF LabelsFollowTheCalls, DeparturesCounted
<1>3. CASE LabelFromAuthored
  <2>1. pack' = pack /\ pack.labelling = "authored" /\ stage' = "facts"
    BY <1>3 DEF LabelFromAuthored
  <2> QED BY <2>1 DEF LabelsFollowTheCalls, LatestCorrectionWins, DeparturesCounted
<1>4. CASE BuildFacts \/ MergePosts \/ PostsSettled \/ MergeAreas \/ AreasSettled \/ SelectRows \/ MarkPositives
  <2>1. /\ pack' = pack /\ labels' = labels /\ stage # "labels"
        /\ stage' \in {"posts", "areas", "rows", "positives", "weights"}
    BY <1>4 DEF BuildFacts, MergePosts, PostsSettled, MergeAreas, AreasSettled, SelectRows, MarkPositives
  <2>2. LabelsFollowTheCalls'
    BY <2>1, FollowsStill
  <2>3. LatestCorrectionWins'
    BY <2>1 DEF LatestCorrectionWins
  <2> QED BY <2>1, <2>2, <2>3 DEF DeparturesCounted
<1>5. CASE CountDepartures
  <2>1. DeparturesCounted'
    BY <1>5, CountedDepartures
  <2>2. pack' = pack /\ labels' = labels /\ stage # "labels" /\ stage' = "done"
    BY <1>5 DEF CountDepartures
  <2>3. LabelsFollowTheCalls'
    BY <2>2, FollowsStill
  <2>4. LatestCorrectionWins'
    BY <2>2 DEF LatestCorrectionWins
  <2> QED BY <2>1, <2>2, <2>3, <2>4
<1>6. CASE Complete \/ UNCHANGED tableVars
  <2>1. pack' = pack /\ labels' = labels /\ stage' = stage /\ departures' = departures
    BY <1>6 DEF Complete, tableVars
  <2>2. LabelsFollowTheCalls'
    BY <2>1, FollowsStill
  <2>3. LatestCorrectionWins'
    BY <2>1 DEF LatestCorrectionWins
  <2>4. DeparturesCounted'
    BY <2>1 DEF DeparturesCounted, Runs
  <2> QED BY <2>1, <2>2, <2>3, <2>4
<1> QED BY <1>1, <1>2, <1>3, <1>4, <1>5, <1>6 DEF TableNext

\* Of tables written from one timetable and one overlay: the label of a context is that of the calls
\* really made there or of the latest correction of its movement, and its weight counts the
\* departures from it, however trips come back to a stop, skip call numbers or are cut into outputs
\* (labels.py:63-248, corrections.py:27-54, weights.py:26-60).
THEOREM EvidenceOfTheContext == PacksAreWritten => (TableSpec => []EvidenceIsOfTheContext)
<1>1. TableInit => ContextInv
  BY DEF TableInit, ContextInv, EvidenceIsOfTheContext, LabelsFollowTheCalls, LatestCorrectionWins, DeparturesCounted
<1>2. PacksAreWritten /\ ContextInv /\ [TableNext]_tableVars => ContextInv'
  BY ContextStep
<1>3. ContextInv => EvidenceIsOfTheContext
  BY DEF ContextInv
<1>4. PacksAreWritten \in BOOLEAN
  BY DEF PacksAreWritten
<1> SUFFICES ASSUME PacksAreWritten PROVE TableSpec => []EvidenceIsOfTheContext
  OBVIOUS
<1>5. ContextInv /\ [TableNext]_tableVars => ContextInv'
  BY <1>2
<1> QED BY <1>1, <1>3, <1>5, PTL DEF TableSpec

-----------------------------------------------------------------------------
\* Training.

\* The two parts of a split have no fold in common, and a finished model is judged on the second.
SplitByFold == \A j \in training, k \in validation : FoldOf(j) # FoldOf(k)
JudgedModel == phase \in {"score", "second", "calibrate", "report"} => model = training
LeakInv == SplitByFold /\ JudgedModel /\ NoLeakage

\* Contexts of different folds are of different stops.
LEMMA FoldsApart ==
    ASSUME NEW s, NEW t, \A j \in s, k \in t : FoldOf(j) # FoldOf(k)
    PROVE  StopsOf(s) \cap StopsOf(t) = {}
BY DEF StopsOf, FoldOf

\* Parts of the held-out contexts are as far from the training contexts as all of them.
LEMMA HeldOutApart ==
    ASSUME SplitByFold, NEW part \in SUBSET validation
    PROVE  StopsOf(training) \cap StopsOf(part) = {}
BY FoldsApart DEF SplitByFold

LEMMA LeakStep == LeakInv /\ [ScorerNext]_scorerVars => LeakInv'
<1> SUFFICES ASSUME LeakInv, [ScorerNext]_scorerVars PROVE LeakInv'
  OBVIOUS
<1>1. CASE PoolRegions
  <2>1. /\ training' = {k \in pooled' \cap DOMAIN correct : Head(jobs).final \/ FoldOf(k) # 0}
        /\ validation' = {k \in pooled' \cap DOMAIN correct : ~Head(jobs).final /\ FoldOf(k) = 0}
        /\ phase' = "folds" /\ scorings' = scorings
    BY <1>1 DEF PoolRegions
  <2>2. SplitByFold'
    BY <2>1 DEF SplitByFold, FoldOf
  <2> QED
    BY <2>1, <2>2 DEF LeakInv, JudgedModel, NoLeakage
<1>2. CASE TrainFold
  <2> DEFINE fold == Min(foldsLeft)
  <2>1. /\ scorings' = scorings \cup {Use(OtherFolds(fold), InFold(fold), "fold")}
        /\ UNCHANGED <<phase, training, validation, model>>
    BY <1>2 DEF TrainFold
  <2>2. StopsOf(OtherFolds(fold)) \cap StopsOf(InFold(fold)) = {}
    <3> HIDE DEF fold
    <3>1. \A j \in OtherFolds(fold), k \in InFold(fold) : FoldOf(j) # FoldOf(k)
      BY DEF OtherFolds, InFold
    <3> QED
      BY <3>1, FoldsApart
  <2>3. NoLeakage'
    <3> HIDE DEF fold
    <3> QED
      BY <2>1, <2>2 DEF LeakInv, NoLeakage, Use
  <2> QED
    BY <2>1, <2>3 DEF LeakInv, SplitByFold, JudgedModel, FoldOf
<1>3. CASE TrainStages
  BY <1>3 DEF TrainStages, LeakInv, SplitByFold, JudgedModel, NoLeakage, FoldOf
<1>4. CASE ScoreFirstStage \/ ScoreSecondStage \/ Fail \/ WriteModel
  <2>1. UNCHANGED <<training, validation, model, scorings>>
    BY <1>4 DEF ScoreFirstStage, ScoreSecondStage, Fail, WriteModel
  <2>2. phase' \in {"score", "second", "calibrate", "report"} => phase \in {"score", "second"}
    BY <1>4 DEF ScoreFirstStage, ScoreSecondStage, Fail, WriteModel
  <2> QED
    BY <2>1, <2>2 DEF LeakInv, SplitByFold, JudgedModel, NoLeakage, FoldOf
<1>5. CASE Calibrate
  <2>1. /\ scorings' = scorings \cup {Use(model, validation, "calibration")}
        /\ UNCHANGED <<training, validation, model>> /\ model = training
    BY <1>5 DEF Calibrate, LeakInv, JudgedModel
  <2>2. StopsOf(training) \cap StopsOf(validation) = {}
    BY HeldOutApart DEF LeakInv
  <2>3. NoLeakage'
    BY <2>1, <2>2 DEF LeakInv, NoLeakage, Use
  <2> QED
    BY <2>1, <2>3 DEF LeakInv, SplitByFold, JudgedModel, FoldOf
<1>6. CASE Report
  <2>1. /\ scorings' = scorings \cup {Use(model, part, "held out") : part \in HeldOutParts}
                                \cup {Use(model, whole, "transfer") : whole \in OtherTables}
        /\ UNCHANGED <<training, validation, model>> /\ model = training
        /\ phase' \in {"done", "pool"}
    BY <1>6 DEF Report, LeakInv, JudgedModel
  <2>2. \A part \in HeldOutParts : part \in SUBSET validation
    BY DEF HeldOutParts
  <2>3. \A part \in HeldOutParts : StopsOf(model) \cap StopsOf(part) = {}
    BY <2>1, <2>2, HeldOutApart DEF LeakInv
  <2>4. ASSUME NEW s \in scorings', s.purpose # "transfer"
        PROVE  StopsOf(s.model) \cap StopsOf(s.on) = {}
    <3>1. CASE s \in scorings
      BY <2>4, <3>1 DEF LeakInv, NoLeakage
    <3>2. CASE s \notin scorings
      <4>1. \A other : Use(model, other, "transfer").purpose = "transfer"
        BY DEF Use
      <4>2. PICK part \in HeldOutParts : s = Use(model, part, "held out")
        BY <2>1, <2>4, <3>2, <4>1
      <4> QED
        BY <2>3, <4>2 DEF Use
    <3> QED
      BY <3>1, <3>2
  <2>5. NoLeakage'
    BY <2>4 DEF NoLeakage, StopsOf
  <2> QED
    BY <2>1, <2>5 DEF LeakInv, SplitByFold, JudgedModel, FoldOf
<1>7. CASE UNCHANGED scorerVars
  BY <1>7 DEF scorerVars, LeakInv, SplitByFold, JudgedModel, NoLeakage, FoldOf
<1> QED
  BY <1>1, <1>2, <1>3, <1>4, <1>5, <1>6, <1>7 DEF ScorerNext, ScorerComplete

\* Whatever the regions, labels and folds, no first stage of the folds, no calibration and no
\* held-out row uses a model on a stop that it was trained on (train_two_stage, fit_region).
THEOREM NoStopLeaks == ScorerSpec => []NoLeakage
<1>1. ScorerInit => LeakInv
  BY DEF ScorerInit, LeakInv, SplitByFold, JudgedModel, NoLeakage
<1> QED
  BY <1>1, LeakStep, PTL DEF ScorerSpec, LeakInv

-----------------------------------------------------------------------------
\* Pooling.

Names == {Contexts[k].region : k \in DOMAIN Contexts}
JobsInv ==
    /\ jobs \in Seq([regions : Seq(Names), final : BOOLEAN])
    /\ \A i \in DOMAIN jobs : jobs[i].final => i = Len(jobs)
    /\ phase = "write" => Head(jobs).final
    /\ phase \notin {"done", "raised"} => jobs # <<>>
PooledInv == (phase # "pool" /\ jobs # <<>>) => pooled = Pooled(Head(jobs).regions)

\* Only the model written at the end is trained on all stops.
LEMMA FirstJobs == ScorerInit => JobsInv
<1> SUFFICES ASSUME ScorerInit PROVE JobsInv
  OBVIOUS
<1> DEFINE JobSet == [regions : Seq(Names), final : BOOLEAN]
<1>1. PICK n \in DOMAIN Regions : given = SubSeq(Regions, 1, n)
  BY DEF ScorerInit
<1>2. given \in Seq(Names)
  <2>1. Regions \in Seq(Names)
    BY RegionsAssumption DEF Names
  <2> QED BY <1>1, <2>1
<1>3. phase = "pool" /\ jobs = JobsOf(command, given) /\ command \in {"train", "crossval"}
  BY DEF ScorerInit
<1>4. given # <<>>
  <2>1. Regions \in Seq(Names) /\ n \in 1 .. Len(Regions)
    BY RegionsAssumption DEF Names
  <2>2. Len(given) = n
    BY <1>1, <2>1
  <2> QED BY <2>1, <2>2
<1>5. CASE command = "train"
  <2>1. PICK a, b : a = Job(given, FALSE) /\ b = Job(given, TRUE) /\ jobs = <<a, b>>
    BY <1>3, <1>5 DEF JobsOf
  <2>2. a \in JobSet /\ b \in JobSet /\ ~a.final
    BY <1>2, <2>1 DEF Job
  <2> HIDE DEF JobSet
  <2>3. jobs \in Seq(JobSet) /\ Len(jobs) = 2 /\ jobs[1] = a
    <3>1. <<a, b>> \in Seq(JobSet)
      BY <2>2
    <3>2. Len(<<a, b>>) = 2 /\ <<a, b>>[1] = a
      OBVIOUS
    <3>3. jobs = <<a, b>>
      BY <2>1
    <3> QED BY <3>1, <3>2, <3>3, Zenon
  <2>4. \A i \in DOMAIN jobs : jobs[i].final => i = Len(jobs)
    BY <2>2, <2>3
  <2> QED BY <1>3, <2>3, <2>4 DEF JobsInv, JobSet
<1>6. CASE command = "crossval"
  <2> DEFINE each == [i \in DOMAIN given |-> Job(<<given[i]>>, FALSE)]
             all == IF Len(given) > 1 THEN <<Job(given, FALSE)>> ELSE <<>>
             Tests == {job \in JobSet : ~job.final}
  <2>1. jobs = each \o all
    BY <1>3, <1>6 DEF JobsOf
  <2>2. each \in Seq(Tests) /\ each # <<>>
    <3>1. \A i \in DOMAIN given : <<given[i]>> \in Seq(Names)
      BY <1>2
    <3>2. \A i \in DOMAIN given : each[i] \in Tests
      BY <3>1 DEF Job
    <3>3. DOMAIN given = 1 .. Len(given) /\ Len(given) \in Nat /\ Len(given) > 0
      BY <1>2, <1>4
    <3>4. DOMAIN each = 1 .. Len(given) /\ each = [i \in 1 .. Len(given) |-> each[i]]
      BY <3>3
    <3> HIDE DEF Tests, each
    <3>5. each \in [1 .. Len(given) -> Tests]
      BY <3>2, <3>3, <3>4
    <3>6. each \in Seq(Tests)
      BY <3>3, <3>5, IsASeq
    <3>7. 1 \in DOMAIN each
      BY <3>3, <3>4
    <3>8. DOMAIN <<>> = {}
      OBVIOUS
    <3> QED BY <3>6, <3>7, <3>8, Zenon
  <2>3. all \in Seq(Tests)
    <3>1. PICK a : a = Job(given, FALSE)
      OBVIOUS
    <3>2. a \in Tests /\ all = (IF Len(given) > 1 THEN <<a>> ELSE <<>>)
      BY <1>2, <3>1 DEF Job
    <3> HIDE DEF Tests, all
    <3> QED BY <3>2
  <2>4. jobs \in Seq(Tests) /\ jobs # <<>>
    <3> HIDE DEF each, all, Tests
    <3> QED BY <2>1, <2>2, <2>3
  <2>5. \A i \in DOMAIN jobs : jobs[i] \in Tests
    <3> HIDE DEF Tests
    <3> QED BY <2>4
  <2>6. jobs \in Seq(JobSet)
    <3>1. Tests \subseteq JobSet
      OBVIOUS
    <3> HIDE DEF Tests, JobSet
    <3> QED BY <2>4, <3>1, SeqMonotonic
  <2>7. \A i \in DOMAIN jobs : ~jobs[i].final
    BY <2>5
  <2> HIDE DEF Tests
  <2> QED BY <1>3, <2>4, <2>6, <2>7 DEF JobsInv
<1> QED BY <1>3, <1>5, <1>6

LEMMA JobsStep == JobsInv /\ PooledInv /\ [ScorerNext]_scorerVars => JobsInv' /\ PooledInv'
<1> SUFFICES ASSUME JobsInv, PooledInv, [ScorerNext]_scorerVars PROVE JobsInv' /\ PooledInv'
  OBVIOUS
<1>1. CASE PoolRegions
  <2>1. /\ pooled' = Pooled(Head(jobs).regions)
        /\ jobs' = jobs /\ phase = "pool" /\ phase' = "folds"
    BY <1>1 DEF PoolRegions
  <2>2. PooledInv'
    BY <2>1 DEF PooledInv
  <2>3. JobsInv'
    BY <2>1 DEF JobsInv
  <2> QED BY <2>2, <2>3
<1>2. CASE Report \/ WriteModel
  <2>1. /\ jobs # <<>> /\ jobs' = Tail(jobs)
        /\ phase' \in {"pool", "done"}
        /\ phase' = "pool" => Tail(jobs) # <<>>
        /\ phase' = "done" => Tail(jobs) = <<>> \/ phase = "write"
    BY <1>2 DEF Report, WriteModel, JobsInv
  <2>2. /\ Head(jobs) = jobs[1] /\ Tail(jobs) \in Seq([regions : Seq(Names), final : BOOLEAN])
        /\ Len(Tail(jobs)) = Len(jobs) - 1 /\ Len(jobs) \in Nat
        /\ DOMAIN jobs = 1 .. Len(jobs) /\ DOMAIN Tail(jobs) = 1 .. Len(Tail(jobs))
        /\ \A i \in 1 .. Len(Tail(jobs)) : Tail(jobs)[i] = jobs[i + 1]
    <3> DEFINE JobSet == [regions : Seq(Names), final : BOOLEAN]
    <3>1. jobs \in Seq(JobSet)
      BY DEF JobsInv
    <3> HIDE DEF JobSet
    <3>2. /\ Head(jobs) = jobs[1] /\ Tail(jobs) \in Seq(JobSet)
          /\ Len(Tail(jobs)) = Len(jobs) - 1 /\ Len(jobs) \in Nat
          /\ DOMAIN jobs = 1 .. Len(jobs) /\ DOMAIN Tail(jobs) = 1 .. Len(Tail(jobs))
          /\ \A i \in 1 .. Len(Tail(jobs)) : Tail(jobs)[i] = jobs[i + 1]
      BY <2>1, <3>1, HeadTailProperties
    <3> QED BY <3>2 DEF JobSet
  <2>3. ASSUME NEW i \in DOMAIN Tail(jobs), Tail(jobs)[i].final PROVE i = Len(Tail(jobs))
    <3>1. i \in Nat /\ i + 1 \in DOMAIN jobs /\ jobs[i + 1].final
      BY <2>2, <2>3
    <3>2. i + 1 = Len(jobs)
      BY <3>1 DEF JobsInv
    <3>3. Len(Tail(jobs)) = Len(jobs) - 1 /\ Len(jobs) \in Nat
      BY <2>2, Zenon
    <3>4. ASSUME NEW n \in Nat, NEW rest, rest = n - 1, i + 1 = n PROVE i = rest
      BY <3>1, <3>4
    <3> QED BY <3>2, <3>3, <3>4, Zenon
  <2>4. phase = "write" => Tail(jobs) = <<>>
    <3> SUFFICES ASSUME phase = "write" PROVE Tail(jobs) = <<>>
      OBVIOUS
    <3>1. Len(jobs) # 0
      BY <2>1, <2>2, EmptySeq DEF JobsInv
    <3>2. jobs[1].final /\ 1 \in DOMAIN jobs
      BY <2>2, <3>1 DEF JobsInv
    <3>3. Len(jobs) = 1
      BY <3>2 DEF JobsInv
    <3>4. Len(Tail(jobs)) = 0
      BY <2>2, <3>3
    <3> QED BY <2>2, <3>4, EmptySeq
  <2>5. PooledInv'
    BY <2>1, <2>4 DEF PooledInv
  <2>6. JobsInv'
    BY <2>1, <2>2, <2>3 DEF JobsInv
  <2> QED BY <2>5, <2>6
<1>3. CASE TrainStages
  <2>1. /\ jobs' = jobs /\ pooled' = pooled /\ phase = "folds"
        /\ phase' = IF Head(jobs).final THEN "write" ELSE "score"
    BY <1>3 DEF TrainStages
  <2> QED BY <2>1 DEF JobsInv, PooledInv
<1>4. CASE TrainFold \/ ScoreFirstStage \/ ScoreSecondStage \/ Calibrate \/ Fail
  <2>1. /\ jobs' = jobs /\ pooled' = pooled
        /\ phase \in {"folds", "score", "second", "calibrate", "report"}
        /\ phase' \in {"folds", "second", "calibrate", "report", "raised"}
    BY <1>4 DEF TrainFold, ScoreFirstStage, ScoreSecondStage, Calibrate, Fail
  <2> QED BY <2>1 DEF JobsInv, PooledInv
<1>5. CASE UNCHANGED scorerVars
  BY <1>5 DEF scorerVars, JobsInv, PooledInv
<1> QED BY <1>1, <1>2, <1>3, <1>4, <1>5 DEF ScorerNext, ScorerComplete

\* What of the table of the i-th region is kept: its stops that no earlier region has.
Earlier(regions, i) == StopsOf(UNION {RegionContexts(regions[j]) : j \in 1 .. (i - 1)})
Kept(regions, i) == {k \in RegionContexts(regions[i]) : Contexts[k].stop \notin Earlier(regions, i)}

LEMMA PooledIsKept ==
  ASSUME NEW regions, NEW k
  PROVE  k \in Pooled(regions) <=> \E i \in DOMAIN regions : k \in Kept(regions, i)
BY DEF Pooled, Kept, Earlier

LEMMA StopEarlier ==
  ASSUME NEW regions, NEW i, NEW s
  PROVE  s \in Earlier(regions, i) <=> \E j \in 1 .. (i - 1) : s \in StopsOf(RegionContexts(regions[j]))
BY DEF Earlier, StopsOf

\* Two contexts of one stop are kept from one region.
LEMMA KeptFromOne ==
  ASSUME NEW regions, DOMAIN regions \subseteq Nat \ {0},
         NEW i \in DOMAIN regions, NEW j \in DOMAIN regions,
         NEW a \in Kept(regions, i), NEW b \in Kept(regions, j),
         Contexts[a].stop = Contexts[b].stop
  PROVE  i = j
<1>1. i \in Nat \ {0} /\ j \in Nat \ {0}
  OBVIOUS
<1>2. /\ a \in RegionContexts(regions[i]) /\ Contexts[a].stop \notin Earlier(regions, i)
      /\ b \in RegionContexts(regions[j]) /\ Contexts[b].stop \notin Earlier(regions, j)
  BY DEF Kept
<1>3. ~(i < j)
  <2> SUFFICES ASSUME i < j PROVE FALSE
    OBVIOUS
  <2>1. i \in 1 .. (j - 1)
    BY <1>1
  <2>2. Contexts[a].stop \in StopsOf(RegionContexts(regions[i]))
    BY <1>2 DEF StopsOf
  <2> QED BY <1>2, <2>1, <2>2, StopEarlier
<1>4. ~(j < i)
  <2> SUFFICES ASSUME j < i PROVE FALSE
    OBVIOUS
  <2>1. j \in 1 .. (i - 1)
    BY <1>1
  <2>2. Contexts[b].stop \in StopsOf(RegionContexts(regions[j]))
    BY <1>2 DEF StopsOf
  <2> QED BY <1>2, <2>1, <2>2, StopEarlier
<1> QED BY <1>1, <1>3, <1>4

LEMMA PooledOnce ==
  ASSUME NEW regions, DOMAIN regions \subseteq Nat \ {0}
  PROVE  /\ \A j, k \in Pooled(regions) : j # k => Contexts[j].id # Contexts[k].id
         /\ \A i \in DOMAIN regions : \A s \in StopsOf(RegionContexts(regions[i])) :
                \/ {k \in Pooled(regions) : Contexts[k].stop = s}
                       = {k \in RegionContexts(regions[i]) : Contexts[k].stop = s}
                \/ \E j \in 1 .. (i - 1) : s \in StopsOf(RegionContexts(regions[j]))
<1>1. ASSUME NEW a \in Pooled(regions), NEW b \in Pooled(regions), a # b, Contexts[a].id = Contexts[b].id
      PROVE  FALSE
  <2>1. PICK i \in DOMAIN regions, j \in DOMAIN regions : a \in Kept(regions, i) /\ b \in Kept(regions, j)
    BY PooledIsKept
  <2>2. /\ a \in DOMAIN Contexts /\ Contexts[a].region = regions[i]
        /\ b \in DOMAIN Contexts /\ Contexts[b].region = regions[j]
    BY <2>1 DEF Kept, RegionContexts
  <2>3. Contexts[a].stop = Contexts[b].stop /\ Contexts[a].region # Contexts[b].region
    BY <1>1, <2>2, ContextsAssumption
  <2>4. i = j
    BY <2>1, <2>3, KeptFromOne
  <2> QED BY <2>2, <2>3, <2>4
<1>2. ASSUME NEW i \in DOMAIN regions, NEW s \in StopsOf(RegionContexts(regions[i])),
             s \notin Earlier(regions, i)
      PROVE  {k \in Pooled(regions) : Contexts[k].stop = s}
                 = {k \in RegionContexts(regions[i]) : Contexts[k].stop = s}
  <2>1. PICK a \in RegionContexts(regions[i]) : Contexts[a].stop = s
    BY DEF StopsOf
  <2>2. a \in Kept(regions, i)
    BY <1>2, <2>1 DEF Kept
  <2>3. ASSUME NEW k \in Pooled(regions), Contexts[k].stop = s PROVE k \in RegionContexts(regions[i])
    <3>1. PICK j \in DOMAIN regions : k \in Kept(regions, j)
      BY PooledIsKept
    <3>2. i = j
      BY <2>1, <2>2, <2>3, <3>1, KeptFromOne
    <3> QED BY <3>1, <3>2 DEF Kept
  <2>4. ASSUME NEW k \in RegionContexts(regions[i]), Contexts[k].stop = s PROVE k \in Pooled(regions)
    <3>1. k \in Kept(regions, i)
      BY <1>2, <2>4 DEF Kept
    <3> QED BY <3>1, PooledIsKept
  <2> QED BY <2>3, <2>4
<1> QED BY <1>1, <1>2, StopEarlier

\* Whatever the regions, a pooled table has no context twice, though a border stop has the same
\* contexts in two of them, and every stop has exactly the contexts of the first region with it (pool).
THEOREM PooledTables == ScorerSpec => []StopsPooledOnce
<1>1. ScorerInit => PooledInv
  BY DEF ScorerInit, PooledInv
<1>2. JobsInv /\ PooledInv => StopsPooledOnce
  <2> SUFFICES ASSUME JobsInv, PooledInv, phase # "pool", jobs # <<>> PROVE StopsPooledOnce
    BY DEF StopsPooledOnce
  <2> DEFINE regions == Head(jobs).regions
             JobSet == [regions : Seq(Names), final : BOOLEAN]
  <2>1. Head(jobs) \in JobSet
    <3>1. jobs \in Seq(JobSet) /\ jobs # <<>>
      BY DEF JobsInv
    <3> HIDE DEF JobSet
    <3> QED BY <3>1, HeadTailProperties
  <2>2. regions \in Seq(Names)
    BY <2>1
  <2>3. pooled = Pooled(regions)
    BY DEF PooledInv
  <2>4. DOMAIN regions \subseteq Nat \ {0}
    <3> HIDE DEF regions
    <3> QED BY <2>2
  <2>5. StopsPooledOnce <=>
            /\ \A j, k \in pooled : j # k => Contexts[j].id # Contexts[k].id
            /\ \A i \in DOMAIN regions : \A s \in StopsOf(RegionContexts(regions[i])) :
                \/ {k \in pooled : Contexts[k].stop = s}
                       = {k \in RegionContexts(regions[i]) : Contexts[k].stop = s}
                \/ \E j \in 1 .. (i - 1) : s \in StopsOf(RegionContexts(regions[j]))
    BY Zenon DEF StopsPooledOnce
  <2> HIDE DEF regions
  <2> QED BY <2>3, <2>4, <2>5, PooledOnce, Zenon
<1> QED
  BY <1>1, <1>2, FirstJobs, JobsStep, PTL DEF ScorerSpec

-----------------------------------------------------------------------------
\* Collective features.

\* The beliefs of a stage about some contexts.
Believed(beliefs) ==
    /\ DOMAIN beliefs \subseteq DOMAIN Contexts
    /\ \A k \in DOMAIN beliefs : beliefs[k] \in [Contexts[k].choices -> 0 .. 100]
EvidenceInv ==
    /\ validation \subseteq DOMAIN Contexts
    /\ phase = "second" => /\ Believed(first)
                           /\ evidence = CollectiveFeatures(first)

\* Masses are sums of whole hundredths.
LEMMA MassIsSum ==
  ASSUME NEW k, NEW belief, NEW post
  PROVE  Mass(k, belief, post) = SumOver(belief, {h \in Contexts[k].choices : Candidates[h].post = post})
BY DEF Mass, SumOver

LEMMA MassIsNat ==
  ASSUME NEW k \in DOMAIN Contexts, NEW belief \in [Contexts[k].choices -> 0 .. 100], NEW post
  PROVE  Mass(k, belief, post) \in Nat
<1> DEFINE S == {h \in Contexts[k].choices : Candidates[h].post = post}
<1>1. IsFiniteSet(S) /\ S \in SUBSET S /\ \A h \in S : belief[h] \in Nat
  <2>1. IsFiniteSet(Contexts[k].choices) /\ S \subseteq Contexts[k].choices
    BY ContextsAssumption
  <2> QED BY <2>1, FS_Subset
<1>2. SumOver(belief, S) \in Nat
  <2> HIDE DEF S
  <2> QED BY <1>1, SumOfFewer
<1> QED BY <1>2, MassIsSum

\* The masses of a group are added up.
LEMMA TotalIsSum ==
  ASSUME NEW beliefs, NEW post, NEW S, IsFiniteSet(S)
  PROVE  Total(beliefs, S, post) = SumOver([j \in S |-> Mass(j, beliefs[j], post)], S)
<1> DEFINE f == [j \in S |-> Mass(j, beliefs[j], post)]
           Next(g, s) == IF s = {} THEN 0 ELSE Mass(Chosen(s), beliefs[Chosen(s)], post) + g[s \ {Chosen(s)}]
           It == CHOOSE g : g = [s \in SUBSET S |-> Next(g, s)]
<1>1. Total(beliefs, S, post) = It[S]
  BY DEF Total, MapThenSumSet, MapThenFoldSet, Chosen
<1>2. \A g : \A s \in SUBSET S : Next(g, s) = IterStep(g, f, s)
  BY ChosenIn DEF IterStep
<1>3. \A g : [s \in SUBSET S |-> Next(g, s)] = [s \in SUBSET S |-> IterStep(g, f, s)]
  <2> HIDE DEF Next, f
  <2> QED BY <1>2
<1>4. IsIter(Iter(f, S), f, S)
  BY IterExists
<1> HIDE DEF Next, f
<1>5. It = [s \in SUBSET S |-> Next(It, s)]
  BY <1>3, <1>4 DEF IsIter
<1>6. IsIter(It, f, S)
  <2> HIDE DEF It
  <2> QED BY <1>3, <1>5 DEF IsIter
<1>7. It[S] = Iter(f, S)[S]
  <2> HIDE DEF It
  <2>1. PICK g, h : g = It /\ h = Iter(f, S)
    OBVIOUS
  <2>2. \A s \in SUBSET S : g[s] = h[s]
    BY <1>4, <1>6, <2>1, IterUnique
  <2> QED BY <2>1, <2>2
<1> QED BY <1>1, <1>7, SumIsIter DEF f

\* Two scorings of the same contexts that differ in one of them only.
DifferOnlyAt(k, b, c) ==
    /\ Believed(b) /\ Believed(c) /\ DOMAIN b = DOMAIN c
    /\ k \in DOMAIN b /\ \A j \in DOMAIN b \ {k} : b[j] = c[j]

\* What the others of a group say is the same in both.
LEMMA OthersAlone ==
  ASSUME NEW k, NEW b, NEW c, DifferOnlyAt(k, b, c), NEW G, G \subseteq DOMAIN b, k \in G \/ G = {}, NEW post
  PROVE  OfTheOthers(b, G, k, post) = OfTheOthers(c, G, k, post)
<1>1. IsFiniteSet(G) /\ \A j \in G : Mass(j, b[j], post) \in Int /\ Mass(j, c[j], post) \in Int
  <2>1. IsFiniteSet(DOMAIN Contexts) /\ G \subseteq DOMAIN Contexts
    BY ContextsAssumption DEF DifferOnlyAt, Believed
  <2>2. ASSUME NEW j \in G PROVE Mass(j, b[j], post) \in Nat /\ Mass(j, c[j], post) \in Nat
    <3>1. /\ j \in DOMAIN Contexts
          /\ b[j] \in [Contexts[j].choices -> 0 .. 100] /\ c[j] \in [Contexts[j].choices -> 0 .. 100]
      BY DEF DifferOnlyAt, Believed
    <3> QED BY <3>1, MassIsNat
  <2> QED BY <2>1, <2>2, FS_Subset
<1>2. CASE k \in G
  <2> DEFINE f == [j \in G |-> Mass(j, b[j], post)]
             g == [j \in G |-> Mass(j, c[j], post)]
  <2>1. \A j \in G : f[j] \in Int /\ g[j] \in Int
    BY <1>1
  <2>2. \A j \in G \ {k} : f[j] = g[j]
    BY DEF DifferOnlyAt
  <2>3. f[k] = Mass(k, b[k], post) /\ g[k] = Mass(k, c[k], post)
    BY <1>2
  <2>4. Total(b, G, post) = SumOver(f, G) /\ Total(c, G, post) = SumOver(g, G)
    BY <1>1, TotalIsSum
  <2> HIDE DEF f, g
  <2>5. IsFiniteSet(G \ {k}) /\ \A j \in G \ {k} : f[j] \in Int
    BY <1>1, <2>1, FS_Subset
  <2>6. SumOver(f, G \ {k}) = SumOver(g, G \ {k}) /\ SumOver(f, G \ {k}) \in Int
    BY <2>2, <2>5, SumOfEquals, SumIsInt
  <2>7. /\ SumOver(f, G) = f[k] + SumOver(f, G \ {k})
        /\ SumOver(g, G) = g[k] + SumOver(g, G \ {k})
    BY <1>1, <1>2, <2>1, SumWithout
  <2>8. Total(b, G, post) - Mass(k, b[k], post) = Total(c, G, post) - Mass(k, c[k], post)
    BY <1>2, <2>1, <2>3, <2>4, <2>6, <2>7
  <2> QED BY <2>8 DEF OfTheOthers
<1>3. CASE G = {}
  BY <1>3, FS_EmptySet DEF OfTheOthers
<1> QED BY <1>2, <1>3

\* The total of a group without k is the same in both.
LEMMA GroupWithout ==
  ASSUME NEW k, NEW b, NEW c, DifferOnlyAt(k, b, c), NEW G, G \subseteq DOMAIN b, k \notin G, NEW post
  PROVE  Total(b, G, post) = Total(c, G, post)
<1>1. IsFiniteSet(G)
  <2>1. IsFiniteSet(DOMAIN Contexts) /\ G \subseteq DOMAIN Contexts
    BY ContextsAssumption DEF DifferOnlyAt, Believed
  <2> QED BY <2>1, FS_Subset
<1>2. [j \in G |-> Mass(j, b[j], post)] = [j \in G |-> Mass(j, c[j], post)]
  BY DEF DifferOnlyAt
<1>3. /\ Total(b, G, post) = SumOver([j \in G |-> Mass(j, b[j], post)], G)
      /\ Total(c, G, post) = SumOver([j \in G |-> Mass(j, c[j], post)], G)
  BY <1>1, TotalIsSum
<1> QED BY <1>2, <1>3, Zenon

LEMMA FeaturesAlone ==
  ASSUME NEW k, NEW b, NEW c, DifferOnlyAt(k, b, c)
  PROVE  CollectiveFeatures(b)[k] = CollectiveFeatures(c)[k]
<1>1. k \in DOMAIN b /\ DOMAIN b = DOMAIN c
  BY DEF DifferOnlyAt
<1>2. SameStop(b, k) = SameStop(c, k) /\ k \in SameStop(b, k) /\ SameStop(b, k) \subseteq DOMAIN b
  BY <1>1 DEF SameStop
<1>3. /\ SameMovement(b, k) = SameMovement(c, k) /\ SameNext(b, k) = SameNext(c, k)
      /\ SamePrevious(b, k) = SamePrevious(c, k) /\ ReverseMovement(b, k) = ReverseMovement(c, k)
  BY <1>2 DEF SameMovement, SameNext, SamePrevious, ReverseMovement
<1>4. /\ k \in SameMovement(b, k) /\ (k \in SameNext(b, k) \/ SameNext(b, k) = {})
      /\ (k \in SamePrevious(b, k) \/ SamePrevious(b, k) = {}) /\ k \notin ReverseMovement(b, k)
  <2>1. k \in SameMovement(b, k)
    BY <1>2 DEF SameMovement
  <2>2. k \in SameNext(b, k) \/ SameNext(b, k) = {}
    BY <1>2 DEF SameNext
  <2>3. k \in SamePrevious(b, k) \/ SamePrevious(b, k) = {}
    BY <1>2 DEF SamePrevious
  <2>4. k \notin ReverseMovement(b, k)
    BY DEF ReverseMovement
  <2> QED BY <2>1, <2>2, <2>3, <2>4
<1>5. \A G \in {SameMovement(b, k), SameNext(b, k), SamePrevious(b, k), ReverseMovement(b, k)} : G \subseteq DOMAIN b
  BY <1>2 DEF SameMovement, SameNext, SamePrevious, ReverseMovement
<1>6. ASSUME NEW post
      PROVE  /\ OfTheOthers(b, SameMovement(b, k), k, post) = OfTheOthers(c, SameMovement(c, k), k, post)
             /\ OfTheOthers(b, SameNext(b, k), k, post) = OfTheOthers(c, SameNext(c, k), k, post)
             /\ OfTheOthers(b, SamePrevious(b, k), k, post) = OfTheOthers(c, SamePrevious(c, k), k, post)
             /\ Total(b, ReverseMovement(b, k), post) = Total(c, ReverseMovement(c, k), post)
  <2>1. OfTheOthers(b, SameMovement(b, k), k, post) = OfTheOthers(c, SameMovement(b, k), k, post)
    BY <1>4, <1>5, OthersAlone
  <2>2. OfTheOthers(b, SameNext(b, k), k, post) = OfTheOthers(c, SameNext(b, k), k, post)
    BY <1>4, <1>5, OthersAlone
  <2>3. OfTheOthers(b, SamePrevious(b, k), k, post) = OfTheOthers(c, SamePrevious(b, k), k, post)
    BY <1>4, <1>5, OthersAlone
  <2>4. Total(b, ReverseMovement(b, k), post) = Total(c, ReverseMovement(b, k), post)
    BY <1>4, <1>5, GroupWithout
  <2> QED BY <1>3, <2>1, <2>2, <2>3, <2>4
<1>7. \A post : CollectiveOf(b, k, post) = CollectiveOf(c, k, post)
  BY <1>3, <1>6 DEF CollectiveOf
<1>8. [post \in PostsIn(k) |-> CollectiveOf(b, k, post)] = [post \in PostsIn(k) |-> CollectiveOf(c, k, post)]
  BY <1>7, Zenon
<1> QED BY <1>1, <1>8 DEF CollectiveFeatures

LEMMA EvidenceStep == EvidenceInv /\ [ScorerNext]_scorerVars => EvidenceInv'
<1> SUFFICES ASSUME EvidenceInv, [ScorerNext]_scorerVars PROVE EvidenceInv'
  OBVIOUS
<1>1. CASE PoolRegions
  <2>1. /\ pooled' = Pooled(Head(jobs).regions) /\ validation' \subseteq pooled' /\ phase' = "folds"
    BY <1>1 DEF PoolRegions
  <2>2. pooled' \subseteq DOMAIN Contexts
    BY <2>1 DEF Pooled, RegionContexts
  <2> QED BY <2>1, <2>2 DEF EvidenceInv
<1>2. CASE ScoreFirstStage
  <2>1. PICK opinion \in [validation -> FirstOpinions] :
            first' = [k \in validation |-> FirstBeliefs[k][opinion[k]]]
    BY <1>2 DEF ScoreFirstStage
  <2>2. evidence' = CollectiveFeatures(first') /\ validation' = validation
    BY <1>2 DEF ScoreFirstStage
  <2>3. validation \subseteq DOMAIN Contexts
    BY DEF EvidenceInv
  <2>4. DOMAIN first' = validation /\ \A k \in validation : first'[k] = FirstBeliefs[k][opinion[k]]
    BY <2>1
  <2>5. \A k \in validation : first'[k] \in [Contexts[k].choices -> 0 .. 100]
    BY <2>1, <2>3, <2>4, BeliefsAssumption
  <2>6. Believed(first')
    BY <2>3, <2>4, <2>5 DEF Believed
  <2>7. Believed(first)' 
    BY <2>6 DEF Believed
  <2>8. (evidence = CollectiveFeatures(first))'
    BY <2>2
  <2> QED BY <2>2, <2>3, <2>7, <2>8 DEF EvidenceInv
<1>3. CASE TrainFold \/ TrainStages \/ ScoreSecondStage \/ Calibrate \/ Report \/ WriteModel \/ Fail
  <2>1. validation' = validation /\ phase' # "second"
    BY <1>3 DEF TrainFold, TrainStages, ScoreSecondStage, Calibrate, Report, WriteModel, Fail
  <2> QED BY <2>1 DEF EvidenceInv
<1>4. CASE UNCHANGED scorerVars
  <2>1. /\ validation' = validation /\ phase' = phase /\ first' = first /\ evidence' = evidence
    BY <1>4 DEF scorerVars
  <2>2. EvidenceInv' <=> EvidenceInv
    BY <2>1 DEF EvidenceInv
  <2> QED BY <2>2
<1> QED BY <1>1, <1>2, <1>3, <1>4 DEF ScorerNext, ScorerComplete

\* Whatever the contexts and the beliefs, the features the second stage is given of a context are
\* the same for any first belief about that context (collective_features).
THEOREM EvidenceOfOthers == ScorerSpec => []OwnBeliefIsNoEvidence
<1>1. ScorerInit => EvidenceInv
  BY DEF ScorerInit, EvidenceInv
<1>2. EvidenceInv => OwnBeliefIsNoEvidence
  <2> SUFFICES ASSUME EvidenceInv, phase = "second", NEW k \in DOMAIN first, NEW i \in FirstOpinions
               PROVE  CollectiveFeatures([first EXCEPT ![k] = FirstBeliefs[k][i]])[k] = evidence[k]
    BY DEF OwnBeliefIsNoEvidence
  <2>1. Believed(first) /\ evidence = CollectiveFeatures(first)
    BY DEF EvidenceInv
  <2>2. PICK other : other = [first EXCEPT ![k] = FirstBeliefs[k][i]]
    OBVIOUS
  <2>3. k \in DOMAIN Contexts /\ FirstBeliefs[k][i] \in [Contexts[k].choices -> 0 .. 100]
    BY <2>1, BeliefsAssumption DEF Believed
  <2>4. /\ DOMAIN other = DOMAIN first /\ other[k] = FirstBeliefs[k][i]
        /\ \A j \in DOMAIN first \ {k} : other[j] = first[j]
    BY <2>2
  <2>5. \A j \in DOMAIN first : other[j] \in [Contexts[j].choices -> 0 .. 100]
    BY <2>1, <2>3, <2>4 DEF Believed
  <2>6. DifferOnlyAt(k, other, first)
    BY <2>1, <2>4, <2>5 DEF DifferOnlyAt, Believed
  <2>7. CollectiveFeatures(other)[k] = CollectiveFeatures(first)[k]
    BY <2>6, FeaturesAlone
  <2> QED BY <2>1, <2>2, <2>7
<1> QED
  BY <1>1, <1>2, EvidenceStep, PTL DEF ScorerSpec

-----------------------------------------------------------------------------
\* Calibration.

Standings == [k \in validation |-> Standing(k, scored[k])]
\* The second stage's beliefs about the held-out contexts, of exclusive choices.
ScoredInv ==
    /\ DOMAIN scored = validation
    /\ \A k \in validation : /\ scored[k] \in [Contexts[k].choices -> 0 .. 100]
                             /\ SumOver(scored[k], Contexts[k].choices) <= 100
CalibratedInv ==
    /\ validation \subseteq DOMAIN Contexts
    /\ phase \in {"calibrate", "report"} => ScoredInv
    /\ phase = "report" => thresholds = CalibrateStratified(Standings, correct, weight)

\* No mass exceeds a hundred, so none reaches the threshold Never.
Measured(standings) == \A k \in DOMAIN standings :
    /\ standings[k].postMass \in Int /\ standings[k].postMass <= 100
    /\ standings[k].areaMass \in Int /\ standings[k].areaMass <= 100

LEMMA MassesMeasured ==
  ASSUME NEW k \in DOMAIN Contexts, NEW belief \in [Contexts[k].choices -> 0 .. 100],
         SumOver(belief, Contexts[k].choices) <= 100
  PROVE  /\ \A post : PostMass(k, belief, post) \in Int /\ PostMass(k, belief, post) <= 100
         /\ \A area : AreaMass(k, belief, area) \in Int /\ AreaMass(k, belief, area) <= 100
<1>1. IsFiniteSet(Contexts[k].choices) /\ \A h \in Contexts[k].choices : belief[h] \in Nat
  BY ContextsAssumption
<1>2. ASSUME NEW post PROVE PostMass(k, belief, post) \in Int /\ PostMass(k, belief, post) <= 100
  <2>1. PICK m \in Nat : m = Mass(k, belief, post)
    BY MassIsNat
  <2>2. IsFiniteSet({100, m})
    <3>1. IsFiniteSet({100})
      BY FS_Singleton
    <3>2. {100, m} = {100} \cup {m}
      OBVIOUS
    <3> QED BY <3>1, <3>2, FS_AddElement
  <2>3. Min({100, m}) \in {100, m} /\ Min({100, m}) <= 100
    <3> DEFINE S == {100, m}
    <3>1. IsFiniteSet(S) /\ S # {} /\ S \subseteq Int /\ 100 \in S
      BY <2>2
    <3> HIDE DEF S
    <3>2. Min(S) \in S /\ Min(S) <= 100
      BY <3>1, MinIsLeast
    <3> QED BY <3>2 DEF S
  <2> QED BY <2>1, <2>3 DEF PostMass
<1>3. ASSUME NEW area PROVE AreaMass(k, belief, area) \in Int /\ AreaMass(k, belief, area) <= 100
  <2> DEFINE S == {h \in Contexts[k].choices : Candidates[h].area = area}
  <2>1. AreaMass(k, belief, area) = SumOver(belief, S)
    BY DEF AreaMass, SumOver
  <2>2. S \in SUBSET Contexts[k].choices
    OBVIOUS
  <2>3. Contexts[k].choices \in SUBSET Contexts[k].choices
    OBVIOUS
  <2> HIDE DEF S
  <2>4. SumOver(belief, S) \in Nat /\ SumOver(belief, Contexts[k].choices) \in Nat
        /\ SumOver(belief, S) <= SumOver(belief, Contexts[k].choices)
    BY <1>1, <2>2, <2>3, SumOfFewer
  <2> QED BY <2>1, <2>4
<1> QED BY <1>2, <1>3

LEMMA StandingsMeasured ==
  ASSUME CalibratedInv, ScoredInv
  PROVE  Measured(Standings)
<1> SUFFICES ASSUME NEW k \in validation
             PROVE  /\ Standing(k, scored[k]).postMass \in Int /\ Standing(k, scored[k]).postMass <= 100
                    /\ Standing(k, scored[k]).areaMass \in Int /\ Standing(k, scored[k]).areaMass <= 100
  BY Zenon DEF Measured, Standings
<1>1. /\ k \in DOMAIN Contexts /\ scored[k] \in [Contexts[k].choices -> 0 .. 100]
      /\ SumOver(scored[k], Contexts[k].choices) <= 100
  BY DEF CalibratedInv, ScoredInv
<1>2. /\ Standing(k, scored[k]).postMass = PostMass(k, scored[k], Candidates[Top(k, scored[k])].post)
      /\ Standing(k, scored[k]).areaMass = AreaMass(k, scored[k], Candidates[AreaTop(k, scored[k])].area)
  BY DEF Standing
<1> QED BY <1>1, <1>2, MassesMeasured

\* A calibrated threshold is one of its grid that reached the target, or Never.
LEMMA LeastIsOfGrid ==
  ASSUME NEW grid, IsFiniteSet(grid), grid \subseteq Int
  PROVE  IF grid = {} THEN LeastOrNever(grid) = Never ELSE LeastOrNever(grid) \in grid
BY MinIsLeast DEF LeastOrNever

LEMMA ReachesIsOnTarget ==
  ASSUME NEW part, NEW good, Reaches(weight, good, part)
  PROVE  OnTarget(part, good)
BY DEF Reaches, OnTarget, WeightIn

LEMMA NothingIsOnTarget == OnTarget({}, {})
<1>1. WeightIn({}) = 0
  <2>1. WeightIn({}) = SumOver(weight, {})
    BY DEF WeightIn, SumOver
  <2> QED BY <2>1, SumOfNone
<1>2. TargetPrecision[1] \in Nat /\ TargetPrecision[2] \in Nat
  BY ThresholdsAssumption
<1> QED BY <1>1, <1>2 DEF OnTarget

LEMMA ThresholdShare ==
  ASSUME NEW standings, Measured(standings), NEW part, part \subseteq DOMAIN standings,
         NEW t, t = CalibrateThreshold(part, standings, correct, weight)
  PROVE  OnTarget({k \in part : standings[k].postMass >= t},
                  {k \in part : standings[k].postMass >= t /\ standings[k].post \in correct[k]})
<1> DEFINE published(u) == {k \in part : standings[k].postMass >= u}
           good(u) == {k \in published(u) : standings[k].post \in correct[k]}
           grid == {u \in PostGrid : Reaches(weight, good(u), published(u))}
<1>1. t = LeastOrNever(grid)
  BY Zenon DEF CalibrateThreshold
<1>2. IsFiniteSet(grid) /\ grid \subseteq Int
  <2>1. IsFiniteSet(PostGrid) /\ PostGrid \in SUBSET Int /\ grid \subseteq PostGrid
    BY ThresholdsAssumption
  <2> HIDE DEF grid
  <2> QED BY <2>1, FS_Subset
<1>3. OnTarget(published(t), good(t))
  <2>1. CASE grid = {}
    <3>1. t = 101
      <4> HIDE DEF grid
      <4> QED BY <1>1, <1>2, <2>1, LeastIsOfGrid DEF Never
    <3>2. published(t) = {} /\ good(t) = {}
      BY <3>1 DEF Measured
    <3> HIDE DEF published, good
    <3> QED BY <3>2, NothingIsOnTarget
  <2>2. CASE grid # {}
    <3>1. t \in grid
      <4> HIDE DEF grid
      <4> QED BY <1>1, <1>2, <2>2, LeastIsOfGrid
    <3>2. Reaches(weight, good(t), published(t))
      <4> HIDE DEF published, good
      <4> QED BY <3>1
    <3> HIDE DEF published, good
    <3> QED BY <3>2, ReachesIsOnTarget
  <2> QED BY <2>1, <2>2
<1>4. good(t) = {k \in part : standings[k].postMass >= t /\ standings[k].post \in correct[k]}
  OBVIOUS
<1> QED BY <1>3, <1>4

LEMMA AreaShare ==
  ASSUME NEW standings, Measured(standings), NEW simple, NEW complex, NEW limits,
         limits = [simple |-> simple, complex |-> complex,
                   area |-> CalibrateArea(standings, correct, weight, simple, complex)]
  PROVE  OnTarget({k \in DOMAIN standings : Decision(k, standings[k], limits) = "Area"},
                  {k \in DOMAIN standings : /\ Decision(k, standings[k], limits) = "Area"
                                            /\ HasTruth(k, standings[k].area, correct)})
<1> DEFINE with(u) == [simple |-> simple, complex |-> complex, area |-> u]
           published(u) == {k \in DOMAIN standings : Decision(k, standings[k], with(u)) = "Area"}
           good(u) == {k \in published(u) : HasTruth(k, standings[k].area, correct)}
           grid == {u \in AreaGrid : Reaches(weight, good(u), published(u))}
<1>1. PICK t : t = LeastOrNever(grid)
  OBVIOUS
<1>2. CalibrateArea(standings, correct, weight, simple, complex) = t
  BY <1>1, Zenon DEF CalibrateArea
<1>3. limits = with(t)
  BY <1>2
<1>4. IsFiniteSet(grid) /\ grid \subseteq Int
  <2>1. IsFiniteSet(AreaGrid) /\ AreaGrid \in SUBSET Int /\ grid \subseteq AreaGrid
    BY ThresholdsAssumption
  <2> HIDE DEF grid
  <2> QED BY <2>1, FS_Subset
<1>5. OnTarget(published(t), good(t))
  <2>1. CASE grid = {}
    <3>1. t = 101
      <4> HIDE DEF grid
      <4> QED BY <1>1, <1>4, <2>1, LeastIsOfGrid DEF Never
    <3>2. ASSUME NEW k \in DOMAIN standings PROVE Decision(k, standings[k], with(t)) # "Area"
      <4>1. ~(standings[k].areaMass >= with(t).area)
        BY <3>1 DEF Measured
      <4> HIDE DEF with
      <4> QED BY <4>1 DEF Decision
    <3>3. published(t) = {} /\ good(t) = {}
      <4> HIDE DEF with
      <4> QED BY <3>2
    <3> HIDE DEF published, good
    <3> QED BY <3>3, NothingIsOnTarget
  <2>2. CASE grid # {}
    <3>1. t \in grid
      <4> HIDE DEF grid
      <4> QED BY <1>1, <1>4, <2>2, LeastIsOfGrid
    <3>2. Reaches(weight, good(t), published(t))
      <4> HIDE DEF published, good
      <4> QED BY <3>1
    <3> HIDE DEF published, good
    <3> QED BY <3>2, ReachesIsOnTarget
  <2> QED BY <2>1, <2>2
<1>6. /\ published(t) = {k \in DOMAIN standings : Decision(k, standings[k], limits) = "Area"}
      /\ good(t) = {k \in DOMAIN standings : /\ Decision(k, standings[k], limits) = "Area"
                                             /\ HasTruth(k, standings[k].area, correct)}
  <2> HIDE DEF with
  <2> QED BY <1>3
<1> QED BY <1>5, <1>6

LEMMA CalibratedStep == CalibratedInv /\ [ScorerNext]_scorerVars => CalibratedInv'
<1> SUFFICES ASSUME CalibratedInv, [ScorerNext]_scorerVars PROVE CalibratedInv'
  OBVIOUS
<1>1. CASE PoolRegions
  <2>1. pooled' = Pooled(Head(jobs).regions) /\ validation' \subseteq pooled' /\ phase' = "folds"
    BY <1>1 DEF PoolRegions
  <2>2. pooled' \subseteq DOMAIN Contexts
    BY <2>1 DEF Pooled, RegionContexts
  <2> QED BY <2>1, <2>2 DEF CalibratedInv
<1>2. CASE ScoreSecondStage
  <2>1. PICK opinion \in [validation -> SecondOpinions] :
            scored' = [k \in validation |-> SecondBeliefs[k][opinion[k]]]
    BY <1>2 DEF ScoreSecondStage
  <2>2. validation' = validation /\ phase' = "calibrate" /\ validation \subseteq DOMAIN Contexts
    BY <1>2 DEF ScoreSecondStage, CalibratedInv
  <2>3. ASSUME NEW k \in validation
        PROVE  /\ scored'[k] \in [Contexts[k].choices -> 0 .. 100]
               /\ SumOver(scored'[k], Contexts[k].choices) <= 100
    <3>1. PICK belief : belief = SecondBeliefs[k][opinion[k]]
      OBVIOUS
    <3>2. scored'[k] = belief /\ k \in DOMAIN Contexts /\ opinion[k] \in SecondOpinions
      BY <2>1, <2>2, <3>1
    <3>3. /\ SecondBeliefs[k][opinion[k]] \in [Contexts[k].choices -> 0 .. 100]
          /\ SumOver(SecondBeliefs[k][opinion[k]], Contexts[k].choices) <= 100
      BY <3>2, BeliefsAssumption, Zenon DEF SumOver
    <3> QED BY <3>1, <3>2, <3>3
  <2>4. DOMAIN scored' = validation
    BY <2>1
  <2>5. ScoredInv'
    BY <2>2, <2>3, <2>4 DEF ScoredInv
  <2> QED BY <2>2, <2>5 DEF CalibratedInv
<1>3. CASE Calibrate
  <2>1. /\ thresholds' = CalibrateStratified(Standings, correct, weight)
        /\ UNCHANGED <<validation, scored, correct, weight>> /\ phase = "calibrate"
    BY <1>3 DEF Calibrate, Standings
  <2>2. Standings' = Standings
    BY <2>1 DEF Standings
  <2>3. ScoredInv'
    BY <2>1 DEF CalibratedInv, ScoredInv
  <2>4. (thresholds = CalibrateStratified(Standings, correct, weight))'
    BY <2>1, <2>2
  <2> QED BY <2>1, <2>3, <2>4 DEF CalibratedInv
<1>4. CASE TrainFold \/ TrainStages \/ ScoreFirstStage \/ Report \/ WriteModel \/ Fail
  <2>1. validation' = validation /\ phase' \notin {"calibrate", "report"}
    BY <1>4 DEF TrainFold, TrainStages, ScoreFirstStage, Report, WriteModel, Fail
  <2> QED BY <2>1 DEF CalibratedInv
<1>5. CASE UNCHANGED scorerVars
  <2>1. UNCHANGED <<phase, validation, scored, thresholds, correct, weight>>
    BY <1>5 DEF scorerVars
  <2>2. Standings' = Standings /\ (ScoredInv' <=> ScoredInv)
    BY <2>1 DEF Standings, ScoredInv
  <2>3. (CalibrateStratified(Standings, correct, weight))' = CalibrateStratified(Standings, correct, weight)
    BY <2>1, <2>2
  <2> QED BY <2>1, <2>2, <2>3 DEF CalibratedInv
<1> QED BY <1>1, <1>2, <1>3, <1>4, <1>5 DEF ScorerNext, ScorerComplete

\* What the thresholds decide of the held-out contexts.
LEMMA SharesKept ==
  ASSUME NEW standings, Measured(standings), NEW limits,
         limits = CalibrateStratified(standings, correct, weight)
  PROVE  /\ \A complex \in BOOLEAN :
                LET part == {k \in DOMAIN standings : /\ Decision(k, standings[k], limits) = "Physical"
                                                      /\ Complex(k) = complex}
                IN  OnTarget(part, {k \in part : Published(k, standings[k], limits) \in correct[k]})
         /\ LET part == {k \in DOMAIN standings : Decision(k, standings[k], limits) = "Area"}
            IN  OnTarget(part, {k \in part : HasTruth(k, Published(k, standings[k], limits), correct)})
<1>1. PICK simple, complex :
            /\ simple = CalibrateThreshold(Stratum(standings, FALSE), standings, correct, weight)
            /\ complex = CalibrateThreshold(Stratum(standings, TRUE), standings, correct, weight)
  OBVIOUS
<1>2. limits = [simple |-> simple, complex |-> complex,
                area |-> CalibrateArea(standings, correct, weight, simple, complex)]
  BY <1>1, Zenon DEF CalibrateStratified
<1>3. limits.simple = simple /\ limits.complex = complex
  BY <1>2
<1>4. \A k : /\ Decision(k, standings[k], limits) = "Physical" <=> standings[k].postMass >= ThresholdOf(limits, k)
             /\ Decision(k, standings[k], limits) = "Physical" =>
                    Published(k, standings[k], limits) = standings[k].post
             /\ Decision(k, standings[k], limits) = "Area" =>
                    Published(k, standings[k], limits) = standings[k].area
  BY DEF Decision, Published
<1>5. ASSUME NEW many \in BOOLEAN
      PROVE  OnTarget({k \in DOMAIN standings : /\ Decision(k, standings[k], limits) = "Physical"
                                                /\ Complex(k) = many},
                      {k \in {k \in DOMAIN standings : /\ Decision(k, standings[k], limits) = "Physical"
                                                       /\ Complex(k) = many} :
                            Published(k, standings[k], limits) \in correct[k]})
  <2> DEFINE stratum == {k \in DOMAIN standings : Complex(k) = many}
  <2>1. PICK t : t = CalibrateThreshold(stratum, standings, correct, weight)
    OBVIOUS
  <2>2. stratum = Stratum(standings, many) /\ stratum \subseteq DOMAIN standings
    BY DEF Stratum
  <2>3. t = IF many THEN complex ELSE simple
    <3> HIDE DEF stratum
    <3>1. CASE many = TRUE
      BY <1>1, <2>1, <2>2, <3>1
    <3>2. CASE many = FALSE
      BY <1>1, <2>1, <2>2, <3>2
    <3> QED BY <3>1, <3>2
  <2>4. \A k \in stratum : ThresholdOf(limits, k) = t
    <3>1. ASSUME NEW k \in stratum PROVE ThresholdOf(limits, k) = t
      <4>1. Complex(k) = many
        OBVIOUS
      <4> QED BY <4>1, <1>3, <2>3 DEF ThresholdOf
    <3> QED BY <3>1
  <2>5. OnTarget({k \in stratum : standings[k].postMass >= t},
                 {k \in stratum : standings[k].postMass >= t /\ standings[k].post \in correct[k]})
    <3> HIDE DEF stratum
    <3> QED BY <2>1, <2>2, ThresholdShare
  <2>6. {k \in DOMAIN standings : Decision(k, standings[k], limits) = "Physical" /\ Complex(k) = many}
            = {k \in stratum : standings[k].postMass >= t}
    <3>1. ASSUME NEW k \in stratum
          PROVE  Decision(k, standings[k], limits) = "Physical" <=> standings[k].postMass >= t
      BY <1>4, <2>4
    <3> QED BY <3>1
  <2>7. {k \in {k \in stratum : standings[k].postMass >= t} : Published(k, standings[k], limits) \in correct[k]}
            = {k \in stratum : standings[k].postMass >= t /\ standings[k].post \in correct[k]}
    <3>1. ASSUME NEW k \in stratum, standings[k].postMass >= t
          PROVE  Published(k, standings[k], limits) = standings[k].post
      BY <1>4, <2>4, <3>1
    <3> HIDE DEF stratum
    <3> QED BY <3>1
  <2> HIDE DEF stratum
  <2> QED BY <2>5, <2>6, <2>7
<1>6. OnTarget({k \in DOMAIN standings : Decision(k, standings[k], limits) = "Area"},
               {k \in {k \in DOMAIN standings : Decision(k, standings[k], limits) = "Area"} :
                    HasTruth(k, Published(k, standings[k], limits), correct)})
  <2>1. {k \in {k \in DOMAIN standings : Decision(k, standings[k], limits) = "Area"} :
              HasTruth(k, Published(k, standings[k], limits), correct)}
        = {k \in DOMAIN standings : /\ Decision(k, standings[k], limits) = "Area"
                                    /\ HasTruth(k, standings[k].area, correct)}
    <3>1. ASSUME NEW k \in DOMAIN standings, Decision(k, standings[k], limits) = "Area"
          PROVE  HasTruth(k, Published(k, standings[k], limits), correct)
                     <=> HasTruth(k, standings[k].area, correct)
      BY <1>4, <3>1
    <3> QED BY <3>1
  <2>2. OnTarget({k \in DOMAIN standings : Decision(k, standings[k], limits) = "Area"},
                 {k \in DOMAIN standings : /\ Decision(k, standings[k], limits) = "Area"
                                           /\ HasTruth(k, standings[k].area, correct)})
    BY <1>2, AreaShare
  <2> QED BY <2>1, <2>2
<1> QED BY <1>5, <1>6, Zenon

\* Whatever the second stage believes of the held-out contexts, the thresholds found for it keep the
\* target precision when used together, whether or not one was found (calibrate_stratified).
THEOREM SharesAreCalibrated == ScorerSpec => []CalibratedShares
<1>1. ScorerInit => CalibratedInv
  BY DEF ScorerInit, CalibratedInv
<1>2. CalibratedInv => CalibratedShares
  <2> SUFFICES ASSUME CalibratedInv, phase = "report" PROVE CalibratedShares
    BY DEF CalibratedShares
  <2>1. ScoredInv /\ thresholds = CalibrateStratified(Standings, correct, weight)
    BY DEF CalibratedInv
  <2>2. Measured(Standings)
    BY <2>1, StandingsMeasured
  <2>3. PICK standings : standings = Standings
    OBVIOUS
  <2>4. DOMAIN standings = validation /\ standings \in {[k \in validation |-> Standing(k, scored[k])]}
    BY <2>3 DEF Standings
  <2>5. /\ \A complex \in BOOLEAN :
              LET part == {k \in validation : /\ Decision(k, standings[k], thresholds) = "Physical"
                                              /\ Complex(k) = complex}
              IN  OnTarget(part, {k \in part : Published(k, standings[k], thresholds) \in correct[k]})
        /\ LET part == {k \in validation : Decision(k, standings[k], thresholds) = "Area"}
           IN  OnTarget(part, {k \in part : HasTruth(k, Published(k, standings[k], thresholds), correct)})
    BY <2>1, <2>2, <2>3, <2>4, SharesKept
  <2>6. \A complex : {k \in validation : /\ Decision(k, standings[k], thresholds) = "Physical"
                                         /\ Complex(k) = complex}
                     = {k \in {k \in validation : Decision(k, standings[k], thresholds) = "Physical"} :
                            Complex(k) = complex}
    OBVIOUS
  <2> QED BY <2>4, <2>5, <2>6 DEF CalibratedShares
<1> QED
  BY <1>1, <1>2, CalibratedStep, PTL DEF ScorerSpec

=============================================================================
