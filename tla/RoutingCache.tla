------------------------------ MODULE RoutingCache ------------------------------
(***************************************************************************)
(* The routing cache (RoutingContextCache in JdfRoutingCache.fs) over the  *)
(* packed graph whose regions and stable edges it uses, with the thread    *)
(* cache of the graph (localThreadIdentity in GeoData/Osm.fs).             *)
(*                                                                         *)
(* Runs of the converter, one after the other or side by side, each with a *)
(* graph of its own, share the cache file.  Within a run several workers   *)
(* route contexts and share the cache of finished walks.  Saving may fail  *)
(* or be killed, in the middle of writing the file too.                    *)
(*                                                                         *)
(* Nodes lie on a line, one to a tile; a graph is a set of undirected      *)
(* edges.  What a context's evidence depends on is reduced to the thread   *)
(* of its snap edge: the maximal chain of nodes with one onward neighbour. *)
(***************************************************************************)
EXTENDS Integers, FiniteSets, FiniteSetsExt

CONSTANTS
  Runs, Workers,
  Nodes,     \* OSM identities, which are also the places on the line
  Graphs,    \* the graphs a run may open: sets of edges {u, v}
  Contexts,  \* routing keys: the two nodes of the edge next to the stop
  None

ASSUME NodesAssumption == Nodes \subseteq Int /\ IsFiniteSet(Nodes)
ASSUME GraphsAssumption == \A g \in Graphs : \A e \in g : \E u \in Nodes, v \in Nodes : u # v /\ e = {u, v}
ASSUME NoneAssumption == None \notin Nodes \X BOOLEAN
ASSUME ContextsAssumption == Contexts \subseteq {c \in Nodes \X Nodes : c[1] # c[2]}

VARIABLES
  pc,         \* the stage of a run
  graph,      \* the graph it has opened, NoGraph before and after
  stored,     \* the entries it has read
  cut,        \* those of them whose payload was cut short
  used,       \* the entries it has used or made
  answers,    \* the evidence its contexts got
  threadEnd,  \* the finished walks, by the step they go through
  work,       \* what each worker does
  open,       \* the name the file it is writing has now
  path, temporary  \* the cache file and the file it is written to first

runVars == <<pc, graph, stored, cut, answers>>
routeVars == <<used, threadEnd, work>>
fileVars == <<open, path, temporary>>
vars == <<runVars, routeVars, fileVars>>

Set(f, r, value) == [f EXCEPT ![r] = value]
SetIn(f, r, x, value) == [f EXCEPT ![r] = [f[r] EXCEPT ![x] = value]]

--------------------------------------------------------------------------------
(***************************************************************************)
(* Graphs.                                                                 *)
(***************************************************************************)
Adjacent(g, node) == {n \in Nodes : {n, node} \in g}

NoGraph == {}
Opened == Graphs \cup {NoGraph}

\* A step of a walk is where it came from and where it is.
Steps == Nodes \X Nodes
Onward(g, step) == {<<step[2], n>> : n \in Adjacent(g, step[2]) \ {step[1]}}

\* The smallest box around some nodes.
Box(nodes) == IF nodes = {} THEN {} ELSE {n \in Nodes : Min(nodes) <= n /\ n <= Max(nodes)}

\* What the fingerprints of a box's tiles are made of.
RegionDigest(g, box) == {e \in g : e \cap box # {}}

\* Edges are numbered in the order of the nodes, so the number of an edge changes
\* with edges far away.
EdgeIndex(g, edge) ==
  Cardinality({e \in g : Min(e) < Min(edge) \/ (Min(e) = Min(edge) /\ Max(e) < Max(edge))})

Edge(context) == {context[1], context[2]}

\* The walk without a cache, every step it goes through: the smallest set that has the
\* first step and, after a step with one onward step, that one.
OneOnward(g, step) == Cardinality(Onward(g, step)) = 1
GoesOn(g, steps) == \A s \in steps : OneOnward(g, s) => Onward(g, s) \subseteq steps
Walk(g, step) ==
  LET trail == {step} \cup {s \in Steps : {s[1], s[2]} \in g}
      through == {steps \in SUBSET trail : step \in steps /\ GoesOn(g, steps)}
  IN  {s \in trail : \A steps \in through : s \in steps}

\* Where it ends, and for a walk round a cycle the smallest node of the cycle.
Last(g, step) == {s \in Walk(g, step) : ~OneOnward(g, s)}
Passed(g, step) == {s[2] : s \in Walk(g, step)}
End(g, step) ==
  IF Last(g, step) = {} THEN <<Min(Passed(g, step)), TRUE>>
  ELSE <<(CHOOSE s \in Last(g, step) : TRUE)[2], FALSE>>

--------------------------------------------------------------------------------
(***************************************************************************)
(* Evidence and entries.                                                   *)
(***************************************************************************)
Ends == Nodes \X BOOLEAN
Evidence == [ends : SUBSET Ends, snap : Int \cup {None}]
Unsnapped == [ends |-> {}, snap |-> None]
Entries == [ends : SUBSET Ends, edge : SUBSET Nodes, box : SUBSET Nodes, digest : SUBSET SUBSET Nodes]
Stages == {"idle", "routing", "routed", "misread", "saving", "broken", "written", "done", "failed", "killed"}
Files == [entries : [Contexts -> Entries \cup {None}], cut : SUBSET Contexts, whole : BOOLEAN]
Work == [context : Contexts, side : {"left", "right"}, step : Steps, visited : SUBSET Steps,
         read : SUBSET Nodes, box : SUBSET Nodes, result : Ends \cup {None}, ends : SUBSET Ends]

TypeOK ==
  /\ pc \in [Runs -> Stages] /\ graph \in [Runs -> Opened]
  /\ stored \in [Runs -> [Contexts -> Entries \cup {None}]] /\ cut \in [Runs -> SUBSET Contexts]
  /\ used \in [Runs -> [Contexts -> Entries \cup {None}]]
  /\ answers \in [Runs -> [Contexts -> Evidence \cup {None}]]
  /\ threadEnd \in [Runs -> [Steps -> [end : Ends, box : SUBSET Nodes] \cup {None}]]
  /\ work \in [Runs -> [Workers -> Work \cup {None}]]
  /\ open \in [Runs -> {"no", "temporary", "path", "replaced"}]
  /\ path \in Files \cup {None} /\ temporary \in Files \cup {None}
  /\ \A r \in Runs : open[r] # "no" => pc[r] = "saving"
  /\ \A r \in Runs, s \in Runs : open[r] = "temporary" /\ open[s] = "temporary" => r = s

\* The evidence routing would find.
Routed(g, c) ==
  IF Edge(c) \in g
  THEN [ends |-> {End(g, c), End(g, <<c[2], c[1]>>)}, snap |-> EdgeIndex(g, Edge(c))]
  ELSE Unsnapped

Threads == {[graph |-> g, step |-> s, end |-> End(g, s), passed |-> Passed(g, s)] : g \in Opened, s \in Steps}
Findings == {<<g, c, Routed(g, c)>> : g \in Opened, c \in Contexts}

Entry(g, box, ends, edge) == [ends |-> ends, edge |-> edge, box |-> Box(box), digest |-> RegionDigest(g, Box(box))]

\* Reused while its region is the same, and if its edge is found in this graph.
Current(entry, g) == entry # None /\ entry.digest = RegionDigest(g, entry.box)
Restorable(entry, g) == Current(entry, g) /\ entry.edge \in g \cup {{}}

Restored(entry, g) == [ends |-> entry.ends, snap |-> IF entry.edge = {} THEN None ELSE EdgeIndex(g, entry.edge)]

Nothing == [c \in Contexts |-> None]
NoWalks == [s \in Steps |-> None]
NoWork == [w \in Workers |-> None]

Init ==
  /\ pc = [r \in Runs |-> "idle"] /\ graph = [r \in Runs |-> NoGraph]
  /\ stored = [r \in Runs |-> Nothing] /\ cut = [r \in Runs |-> {}] /\ used = [r \in Runs |-> Nothing]
  /\ answers = [r \in Runs |-> Nothing]
  /\ threadEnd = [r \in Runs |-> NoWalks]
  /\ work = [r \in Runs |-> NoWork]
  /\ open = [r \in Runs |-> "no"]
  /\ path = None /\ temporary = None

\* A run's graph, with nothing found on it yet; with NoGraph, all of it is forgotten.
StartsOver(r, g) ==
  /\ graph' = Set(graph, r, g) /\ answers' = Set(answers, r, Nothing)
  /\ threadEnd' = Set(threadEnd, r, NoWalks) /\ work' = Set(work, r, NoWork)

ForgetEntries(r) ==
  stored' = Set(stored, r, Nothing) /\ cut' = Set(cut, r, {}) /\ used' = Set(used, r, Nothing)

--------------------------------------------------------------------------------
(***************************************************************************)
(* A run reads the file and its workers route.                             *)
(***************************************************************************)
\* A bound: a run reads the file when no other is in the middle of routing.  Runs
\* share nothing while they route, so another order of those steps changes nothing.
NoOtherRoutes(r) == \A s \in Runs \ {r} : pc[s] # "routing"

\* What reading a file may give.  One that is missing, still being written or too
\* short counts as empty; but one that ends within its last payload is read, with
\* that payload cut short.
Reads(file) ==
  IF file = None THEN {[entries |-> Nothing, cut |-> {}]}
  ELSE IF file.whole THEN {[entries |-> file.entries, cut |-> file.cut]}
  ELSE {[entries |-> Nothing, cut |-> {}]} \cup
       {[entries |-> file.entries, cut |-> file.cut \cup {c}] :
          c \in {x \in Contexts : file.entries[x] # None /\ \A s \in Runs : open[s] # "path"}}

Load(r) ==
  /\ pc[r] = "idle" /\ NoOtherRoutes(r)
  /\ pc' = Set(pc, r, "routing")
  /\ \E read \in Reads(path) : stored' = Set(stored, r, read.entries) /\ cut' = Set(cut, r, read.cut)
  /\ \E g \in Graphs : StartsOver(r, g)
  /\ UNCHANGED <<used, fileVars>>

Free(r, w, c) ==
  /\ pc[r] = "routing" /\ work[r][w] = None
  /\ answers[r][c] = None /\ \A v \in Workers : work[r][v] # None => work[r][v].context # c

\* A payload is looked at when the digest of its region is still the same.
Spoilt(r, c) == c \in cut[r] /\ Current(stored[r][c], graph[r])
Miss(r, c) == ~Restorable(stored[r][c], graph[r]) /\ ~Spoilt(r, c)

Hit(r, w, c) ==
  /\ Free(r, w, c) /\ Restorable(stored[r][c], graph[r]) /\ ~Spoilt(r, c)
  /\ used' = SetIn(used, r, c, stored[r][c])
  /\ answers' = SetIn(answers, r, c, Restored(stored[r][c], graph[r]))
  /\ UNCHANGED <<pc, graph, stored, cut, threadEnd, work, fileVars>>

\* A payload that was cut short cannot be parsed, and nothing catches that: the run fails.
HitFails(r, w, c) ==
  /\ Free(r, w, c) /\ Spoilt(r, c)
  /\ pc' = Set(pc, r, "misread")
  /\ StartsOver(r, NoGraph) /\ ForgetEntries(r) /\ UNCHANGED fileVars

\* Nothing to snap to: only the surroundings of the stop have been read.
RouteUnsnapped(r, w, c) ==
  /\ Free(r, w, c) /\ Miss(r, c) /\ Edge(c) \notin graph[r]
  /\ used' = SetIn(used, r, c, Entry(graph[r], Edge(c), {}, {}))
  /\ answers' = SetIn(answers, r, c, Unsnapped)
  /\ UNCHANGED <<pc, graph, stored, cut, threadEnd, work, fileVars>>

\* The snap edge is read, then walked from in both directions.
StartWalk(r, w, c) ==
  /\ Free(r, w, c) /\ Miss(r, c) /\ Edge(c) \in graph[r]
  /\ work' = SetIn(work, r, w, [context |-> c, side |-> "left", step |-> <<c[2], c[1]>>, visited |-> {},
                                read |-> Edge(c), box |-> {}, result |-> None, ends |-> {}])
  /\ UNCHANGED <<runVars, used, threadEnd, fileVars>>

Walking(r, w) == pc[r] = "routing" /\ work[r][w] # None /\ work[r][w].result = None
At(r, w) == work[r][w].step
OnNew(r, w) ==
  /\ Walking(r, w) /\ threadEnd[r][At(r, w)] = None
  /\ \A s \in work[r][w].visited : s[2] # At(r, w)[2]

\* Faulty variant: the part that was not walked does not count as read.
HitThreadUnread(r, w) ==
  /\ Walking(r, w) /\ threadEnd[r][At(r, w)] # None
  /\ work' = SetIn(work, r, w, [work[r][w] EXCEPT !.result = threadEnd[r][At(r, w)].end])
  /\ UNCHANGED <<runVars, used, threadEnd, fileVars>>

\* Another walk has been here: its end, and what it has read, are taken over.
HitThread(r, w) ==
  /\ Walking(r, w) /\ threadEnd[r][At(r, w)] # None
  /\ work' = SetIn(work, r, w, [work[r][w] EXCEPT !.result = threadEnd[r][At(r, w)].end,
                                                  !.box = Box(@ \cup threadEnd[r][At(r, w)].box)])
  /\ UNCHANGED <<runVars, used, threadEnd, fileVars>>

\* Round a cycle and back at a node of this walk.
CloseCycle(r, w) ==
  /\ Walking(r, w) /\ threadEnd[r][At(r, w)] = None
  /\ \E s \in work[r][w].visited : s[2] = At(r, w)[2]
  /\ work' = SetIn(work, r, w, [work[r][w] EXCEPT !.result = <<Min({s[2] : s \in work[r][w].visited}), TRUE>>])
  /\ UNCHANGED <<runVars, used, threadEnd, fileVars>>

Visiting(r, w) == [work[r][w] EXCEPT !.visited = @ \cup {At(r, w)}, !.box = Box(@ \cup {At(r, w)[2]})]

StepOn(r, w) ==
  /\ OnNew(r, w)
  /\ \E next \in Onward(graph[r], At(r, w)) :
       /\ Onward(graph[r], At(r, w)) = {next}
       /\ work' = SetIn(work, r, w, [Visiting(r, w) EXCEPT !.step = next])
  /\ UNCHANGED <<runVars, used, threadEnd, fileVars>>

EndThread(r, w) ==
  /\ OnNew(r, w) /\ Cardinality(Onward(graph[r], At(r, w))) # 1
  /\ work' = SetIn(work, r, w, [Visiting(r, w) EXCEPT !.result = <<At(r, w)[2], FALSE>>])
  /\ UNCHANGED <<runVars, used, threadEnd, fileVars>>

Ended(r, w) == pc[r] = "routing" /\ work[r][w] # None /\ work[r][w].result # None

\* Faulty variant: what is read from this step on is all that is kept with it.
PublishOwn(r, w, s) ==
  /\ Ended(r, w) /\ s \in work[r][w].visited
  /\ threadEnd' = SetIn(threadEnd, r, s, [end |-> work[r][w].result, box |-> {s[2]}])
  /\ work' = SetIn(work, r, w, [work[r][w] EXCEPT !.visited = @ \ {s}])
  /\ UNCHANGED <<runVars, used, fileVars>>

\* Every step of the walk is given the walk's end, unless another worker was there first.
Publish(r, w, s) ==
  /\ Ended(r, w) /\ s \in work[r][w].visited
  /\ threadEnd' = IF threadEnd[r][s] # None THEN threadEnd
                  ELSE SetIn(threadEnd, r, s, [end |-> work[r][w].result, box |-> work[r][w].box])
  /\ work' = SetIn(work, r, w, [work[r][w] EXCEPT !.visited = @ \ {s}])
  /\ UNCHANGED <<runVars, used, fileVars>>

TurnAround(r, w) ==
  /\ Ended(r, w) /\ work[r][w].visited = {} /\ work[r][w].side = "left"
  /\ work' = SetIn(work, r, w, [work[r][w] EXCEPT !.side = "right", !.step = work[r][w].context, !.box = {},
                                                  !.read = @ \cup work[r][w].box, !.ends = {work[r][w].result},
                                                  !.result = None])
  /\ UNCHANGED <<runVars, used, threadEnd, fileVars>>

Remember(r, w) ==
  LET item == work[r][w]
      ends == item.ends \cup {item.result}
  IN  /\ Ended(r, w) /\ item.visited = {} /\ item.side = "right"
      /\ answers' = SetIn(answers, r, item.context, [ends |-> ends, snap |-> EdgeIndex(graph[r], Edge(item.context))])
      /\ used' = SetIn(used, r, item.context, Entry(graph[r], item.read \cup item.box, ends, Edge(item.context)))
      /\ work' = SetIn(work, r, w, None)
      /\ UNCHANGED <<pc, graph, stored, cut, threadEnd, fileVars>>

--------------------------------------------------------------------------------
(***************************************************************************)
(* Saving: every run writes the same temporary file and moves it.          *)
(***************************************************************************)
\* A run needs some of the contexts; when they are answered it goes on to save, and
\* keeps what it saves.
FinishRouting(r) ==
  /\ pc[r] = "routing" /\ \A w \in Workers : work[r][w] = None
  /\ pc' = Set(pc, r, "routed")
  /\ StartsOver(r, NoGraph)
  /\ UNCHANGED <<stored, cut, used, fileVars>>

\* The entries used, and of the others read those that are not too old, which may
\* be any of them, with whatever payload they have.
SaveCreate(r) ==
  /\ pc[r] = "routed" /\ \A s \in Runs : open[s] # "temporary"
  /\ \E kept \in SUBSET {c \in Contexts : used[r][c] = None /\ stored[r][c] # None} :
       temporary' = [entries |-> [c \in Contexts |-> IF c \in kept THEN stored[r][c] ELSE used[r][c]],
                     cut |-> kept \cap cut[r], whole |-> FALSE]
  /\ open' = Set(open, r, "temporary") /\ pc' = Set(pc, r, "saving")
  /\ ForgetEntries(r)
  /\ UNCHANGED <<graph, answers, threadEnd, work, path>>

SaveWrite(r) ==
  /\ pc[r] = "saving"
  /\ temporary' = IF open[r] = "temporary" THEN [temporary EXCEPT !.whole = TRUE] ELSE temporary
  /\ path' = IF open[r] = "path" THEN [path EXCEPT !.whole = TRUE] ELSE path
  /\ open' = Set(open, r, "no") /\ pc' = Set(pc, r, "written")
  /\ UNCHANGED <<graph, stored, cut, answers, routeVars>>

\* Writing breaks off, on a full disk say: the file stays as it is, wherever it is.
SaveBreaks(r) ==
  /\ pc[r] = "saving"
  /\ pc' = Set(pc, r, "broken") /\ open' = Set(open, r, "no")
  /\ UNCHANGED <<graph, stored, cut, answers, routeVars, path, temporary>>

\* Faulty variant: the file is moved before it is closed.
SaveMoveOpen(r) ==
  /\ pc[r] = "saving" /\ temporary # None
  /\ path' = temporary /\ temporary' = None
  /\ open' = Set(open, r, "no")
  /\ pc' = Set(pc, r, "done")
  /\ UNCHANGED <<graph, stored, cut, answers, routeVars>>

\* What is at the temporary name is moved, be it another run's.
SaveMove(r) ==
  /\ pc[r] = "written" /\ temporary # None
  /\ path' = temporary /\ temporary' = None
  /\ open' = [s \in Runs |-> IF open[s] = "temporary" THEN "path" ELSE IF open[s] = "path" THEN "replaced" ELSE open[s]]
  /\ pc' = Set(pc, r, "done")
  /\ UNCHANGED <<graph, stored, cut, answers, routeVars>>

\* The temporary file is another run's: still open, or moved already.
SaveFails(r) ==
  /\ \/ pc[r] = "routed" /\ \E s \in Runs : open[s] = "temporary"
     \/ pc[r] = "written" /\ temporary = None
  /\ pc' = Set(pc, r, "failed")
  /\ StartsOver(r, NoGraph) /\ ForgetEntries(r) /\ UNCHANGED fileVars

Kill(r) ==
  /\ pc[r] \in {"saving", "written"}
  /\ pc' = Set(pc, r, "killed") /\ open' = Set(open, r, "no")
  /\ UNCHANGED <<graph, stored, cut, answers, routeVars, path, temporary>>

GetOrRoute(r, w) ==
  \/ \E c \in Contexts : Hit(r, w, c) \/ HitFails(r, w, c) \/ RouteUnsnapped(r, w, c) \/ StartWalk(r, w, c)
  \/ HitThread(r, w) \/ CloseCycle(r, w) \/ StepOn(r, w) \/ EndThread(r, w)
  \/ \E s \in Steps : Publish(r, w, s)
  \/ TurnAround(r, w) \/ Remember(r, w)

Save(r) ==
  \/ FinishRouting(r)
  \/ SaveCreate(r) \/ SaveWrite(r) \/ SaveBreaks(r) \/ SaveMove(r) \/ SaveFails(r)

Done == (\A r \in Runs : pc[r] \in {"misread", "broken", "done", "failed", "killed"}) /\ UNCHANGED vars

Next ==
  \/ \E r \in Runs : Load(r) \/ (\E w \in Workers : GetOrRoute(r, w)) \/ Save(r) \/ Kill(r)
  \/ Done

Spec == Init /\ [][Next]_vars

--------------------------------------------------------------------------------
\* Whether it was routed now or kept from a run with another graph, whichever walks
\* of other workers it was put together from, evidence is exactly what routing
\* finds on this graph (JdfRoutingCache.fs: "a hit returns exactly what routing would").
AnswersAreRouting ==
  \A r \in Runs, c \in Contexts : answers[r][c] # None => <<graph[r], c, answers[r][c]>> \in Findings

\* What a step's walk is remembered for is its end from there, in whichever order
\* workers got there, with a box around everything the walk passes ("the same from
\* every start on the thread").
ThreadsAgree ==
  \A r \in Runs, s \in Steps : threadEnd[r][s] # None =>
    \E t \in Threads : /\ t.graph = graph[r] /\ t.step = s
                       /\ threadEnd[r][s].end = t.end /\ t.passed \subseteq threadEnd[r][s].box

\* No run on its own leaves a file cut short at the path, or an entry that a later
\* run fails over: it takes one run that is killed, or breaks off, while it writes and
\* another that has moved the file from under it.
WholeWhenQuiet ==
  /\ path # None /\ ~path.whole =>
       \E r, s \in Runs : pc[r] \in {"saving", "broken", "killed"} /\ pc[s] = "done"
  /\ \A r \in Runs : pc[r] = "misread" =>
       \E s, t \in Runs : pc[s] \in {"broken", "killed"} /\ pc[t] = "done"
=================================================================================
