----------------------------- MODULE RoutingCacheProofs -----------------------------
(***************************************************************************)
(* What the routing cache promises, for any number of runs, workers,       *)
(* graphs and contexts: no run on its own spoils the file; a thread's end  *)
(* is the same from wherever it was found; a hit is what routing would     *)
(* return.                                                                 *)
(***************************************************************************)
EXTENDS RoutingCache, FiniteSetTheorems, WellFoundedInduction, TLAPS

(***************************************************************************)
(* A file that is cut short has somebody who is still writing it, or whose *)
(* writing has ended early; no two runs write one file; and there is a     *)
(* file at the path only when a run has moved it there.                    *)
(***************************************************************************)
FileTyped ==
  /\ pc \in [Runs -> Stages]
  /\ open \in [Runs -> {"no", "temporary", "path", "replaced"}]
IsFile(f) == f = [entries |-> f.entries, cut |-> f.cut, whole |-> f.whole]
EndedEarly == \E r \in Runs : pc[r] \in {"broken", "killed"}
Moved == \E r \in Runs : pc[r] = "done"
FilesThere ==
  \A r \in Runs : (open[r] = "temporary" => IsFile(temporary)) /\ (open[r] = "path" => IsFile(path))
WritersSave == \A r \in Runs : open[r] # "no" => pc[r] = "saving"
OneWriter == \A r, s \in Runs : open[r] = open[s] /\ open[r] \in {"temporary", "path"} => r = s
TemporaryWritten == temporary # None /\ ~temporary.whole => EndedEarly \/ \E r \in Runs : open[r] = "temporary"
PathWritten == path # None /\ ~path.whole => EndedEarly \/ \E r \in Runs : open[r] = "path"
PathMoved == path # None \/ (\E r \in Runs : open[r] = "path") => Moved

\* Payloads that were cut short, in a file or read from it, and runs that failed over one.
CutSomewhere ==
  \/ (\E r \in Runs : cut[r] # {} \/ pc[r] = "misread")
  \/ ((temporary # None \/ \E r \in Runs : open[r] = "temporary") /\ temporary.cut # {})
  \/ ((path # None \/ \E r \in Runs : open[r] = "path") /\ path.cut # {})
CutByTwo == DOMAIN cut = Runs /\ (CutSomewhere => EndedEarly /\ Moved)

FileInv ==
  FileTyped /\ FilesThere /\ WritersSave /\ OneWriter /\ TemporaryWritten /\ PathWritten /\ PathMoved /\ CutByTwo

LEMMA FileInit == Init => FileInv
  BY DEF Init, FileInv, FileTyped, FilesThere, WritersSave, OneWriter, TemporaryWritten, PathWritten,
         PathMoved, CutByTwo, CutSomewhere, Stages

\* What has happened to a run has happened.
LEMMA EndsStay ==
  ASSUME FileTyped, NEW r \in Runs, NEW stage, pc' = [pc EXCEPT ![r] = stage],
         pc[r] \notin {"broken", "killed", "done"}
  PROVE  (EndedEarly => EndedEarly') /\ (Moved => Moved')
BY DEF FileTyped, EndedEarly, Moved

\* A run that forgets its entries has none that were cut short.
LEMMA ForgottenIsNotCut ==
  ASSUME DOMAIN cut = Runs, NEW r \in Runs, ForgetEntries(r)
  PROVE  DOMAIN cut' = Runs /\ \A q \in Runs : cut'[q] \in {cut[q], {}}
BY DEF ForgetEntries, Set

\* A step that is not one of saving leaves the files alone.
LEMMA OthersLeaveFiles ==
  ASSUME FileInv, UNCHANGED fileVars, DOMAIN cut' = Runs,
         \/ pc' = pc
         \/ \E r \in Runs : /\ pc[r] \in {"idle", "routing", "routed", "written"}
                           /\ \E s \in {"routing", "routed", "misread", "failed"} : pc' = [pc EXCEPT ![r] = s],
         CutSomewhere' => CutSomewhere \/ (EndedEarly /\ Moved)
  PROVE  FileInv'
<1>1. UNCHANGED <<open, path, temporary>>
  BY DEF fileVars
<1>2. (EndedEarly => EndedEarly') /\ (Moved => Moved')
  BY EndsStay DEF FileInv, FileTyped, EndedEarly, Moved
<1>3. FileTyped' /\ FilesThere' /\ WritersSave'
  BY <1>1 DEF FileInv, FileTyped, FilesThere, WritersSave, Stages
<1>4. CutByTwo'
  BY <1>2 DEF FileInv, CutByTwo
<1>5. OneWriter' /\ TemporaryWritten' /\ PathWritten' /\ PathMoved'
  BY <1>1, <1>2 DEF FileInv, OneWriter, TemporaryWritten, PathWritten, PathMoved
<1> QED
  BY <1>3, <1>4, <1>5 DEF FileInv

LEMMA FileStep == FileInv /\ [Next]_vars => FileInv'
<1> SUFFICES ASSUME FileInv, [Next]_vars PROVE FileInv'
  OBVIOUS
<1>0. /\ FileTyped /\ FilesThere /\ WritersSave /\ OneWriter /\ TemporaryWritten /\ PathWritten /\ PathMoved /\ CutByTwo
      /\ pc \in [Runs -> Stages] /\ open \in [Runs -> {"no", "temporary", "path", "replaced"}] /\ DOMAIN cut = Runs
  BY DEF FileInv, FileTyped, CutByTwo
<1> USE DEF Set
<1>1. ASSUME NEW r \in Runs, Load(r) PROVE FileInv'
  <2>1. PICK read \in Reads(path) : stored' = Set(stored, r, read.entries) /\ cut' = Set(cut, r, read.cut)
    BY <1>1 DEF Load
  <2>2. /\ UNCHANGED fileVars /\ UNCHANGED <<open, path, temporary>> /\ pc[r] = "idle" /\ pc' = [pc EXCEPT ![r] = "routing"]
        /\ DOMAIN cut' = Runs /\ cut' = [cut EXCEPT ![r] = read.cut]
    BY <1>0, <1>1, <2>1 DEF Load, fileVars
  <2>3. read.cut # {} => EndedEarly /\ Moved
    <3>1. CASE path = None
      BY <2>1, <3>1 DEF Reads
    <3>2. CASE path # None /\ path.whole
      BY <1>0, <2>1, <3>2 DEF Reads, CutByTwo, CutSomewhere
    <3>3. CASE path # None /\ ~path.whole
      BY <1>0, <2>1, <3>3 DEF Reads, PathWritten, PathMoved
    <3> QED BY <3>1, <3>2, <3>3
  <2>4. CutSomewhere' => CutSomewhere \/ (EndedEarly /\ Moved)
    <3>1. ASSUME NEW q \in Runs, cut'[q] # {} \/ pc'[q] = "misread" PROVE CutSomewhere \/ (EndedEarly /\ Moved)
      BY <1>0, <2>2, <2>3, <3>1 DEF CutSomewhere
    <3> QED BY <2>2, <3>1 DEF CutSomewhere
  <2> QED
    BY <2>2, <2>4, OthersLeaveFiles
<1>2. ASSUME NEW r \in Runs, NEW w \in Workers, GetOrRoute(r, w) PROVE FileInv'
  <2>1. CASE \E c \in Contexts : HitFails(r, w, c)
    <3>1. PICK c \in Contexts : HitFails(r, w, c)
      BY <2>1
    <3>2. /\ pc[r] = "routing" /\ pc' = [pc EXCEPT ![r] = "misread"] /\ cut[r] # {}
          /\ UNCHANGED <<fileVars, open, path, temporary>>
      BY <3>1 DEF HitFails, Free, Spoilt, fileVars
    <3>3. CutSomewhere
      BY <3>2 DEF CutSomewhere
    <3>4. DOMAIN cut' = Runs
      BY <1>0, <3>1, ForgottenIsNotCut DEF HitFails
    <3> QED BY <1>0, <3>2, <3>3, <3>4, OthersLeaveFiles
  <2>2. CASE ~\E c \in Contexts : HitFails(r, w, c)
    <3>1. UNCHANGED fileVars /\ pc' = pc /\ cut' = cut
      BY <1>2, <2>2 DEF GetOrRoute, Hit, RouteUnsnapped, StartWalk, HitThread, CloseCycle, StepOn, EndThread,
                  Publish, TurnAround, Remember, runVars
    <3> QED
      BY <1>0, <3>1, OthersLeaveFiles DEF CutSomewhere, fileVars
  <2> QED BY <2>1, <2>2
<1>3. ASSUME NEW r \in Runs, FinishRouting(r) \/ SaveFails(r) PROVE FileInv'
  <2>1. /\ UNCHANGED <<fileVars, open, path, temporary>> /\ pc[r] \in {"routing", "routed", "written"}
        /\ \E s \in {"routed", "failed"} : pc' = [pc EXCEPT ![r] = s]
    BY <1>3 DEF FinishRouting, SaveFails, fileVars
  <2>2. DOMAIN cut' = Runs /\ \A q \in Runs : cut'[q] \in {cut[q], {}}
    BY <1>0, <1>3, ForgottenIsNotCut DEF FinishRouting, SaveFails
  <2>3. CutSomewhere' => CutSomewhere
    <3>1. ASSUME NEW q \in Runs, cut'[q] # {} \/ pc'[q] = "misread" PROVE CutSomewhere
      BY <1>0, <2>1, <2>2, <3>1 DEF CutSomewhere
    <3> QED BY <2>1, <3>1 DEF CutSomewhere
  <2> QED BY <2>1, <2>2, <2>3, OthersLeaveFiles
<1>4. ASSUME NEW r \in Runs, SaveCreate(r) PROVE FileInv'
  <2>1. /\ pc[r] = "routed" /\ pc' = [pc EXCEPT ![r] = "saving"] /\ open' = [open EXCEPT ![r] = "temporary"]
        /\ path' = path /\ \A s \in Runs : open[s] # "temporary"
        /\ DOMAIN cut' = Runs /\ \A q \in Runs : cut'[q] \in {cut[q], {}}
    BY <1>0, <1>4, ForgottenIsNotCut DEF SaveCreate
  <2>2. (EndedEarly => EndedEarly') /\ (Moved => Moved')
    BY <1>0, <2>1, EndsStay
  <2>3. open[r] = "no"
    BY <1>0, <2>1 DEF WritersSave
  <2>4. \E entries, kept : temporary' = [entries |-> entries, cut |-> kept \cap cut[r], whole |-> FALSE]
    <3>1. PICK kept \in SUBSET Contexts :
            temporary' = [entries |-> [c \in Contexts |-> IF c \in kept THEN stored[r][c] ELSE used[r][c]],
                          cut |-> kept \cap cut[r], whole |-> FALSE]
      BY <1>4 DEF SaveCreate
    <3> QED BY <3>1
  <2>5. FileTyped' /\ WritersSave' /\ OneWriter' /\ TemporaryWritten'
    BY <1>0, <2>1, <2>2, <2>3 DEF Stages, FileTyped, WritersSave, OneWriter, TemporaryWritten
  <2>6. PathWritten' /\ PathMoved'
    BY <1>0, <2>1, <2>2, <2>3 DEF PathWritten, PathMoved
  <2>7. FilesThere'
    BY <1>0, <2>1, <2>4 DEF FilesThere, IsFile
  <2>8. CutByTwo'
    <3>1. temporary'.cut # {} => cut[r] # {}
      BY <2>4
    <3>2. CutSomewhere' => CutSomewhere
      <4>1. (\E q \in Runs : open'[q] = "path") => \E q \in Runs : open[q] = "path"
        BY <1>0, <2>1
      <4>2. ASSUME NEW q \in Runs, cut'[q] # {} \/ pc'[q] = "misread" PROVE CutSomewhere
        BY <1>0, <2>1, <4>2 DEF CutSomewhere
      <4> QED BY <2>1, <3>1, <4>1, <4>2 DEF CutSomewhere
    <3> QED BY <1>0, <2>1, <2>2, <3>2 DEF CutByTwo
  <2> QED
    BY <2>5, <2>6, <2>7, <2>8 DEF FileInv
<1>5. ASSUME NEW r \in Runs, SaveWrite(r) PROVE FileInv'
  <2>1. pc[r] = "saving" /\ pc' = [pc EXCEPT ![r] = "written"] /\ open' = [open EXCEPT ![r] = "no"] /\ cut' = cut
    BY <1>5 DEF SaveWrite
  <2>2. (EndedEarly => EndedEarly') /\ (Moved => Moved')
    BY <1>0, <2>1, EndsStay
  <2>3. FileTyped' /\ WritersSave' /\ OneWriter'
    BY <1>0, <2>1 DEF Stages, FileTyped, WritersSave, OneWriter
  <2>4. /\ temporary' = IF open[r] = "temporary" THEN [temporary EXCEPT !.whole = TRUE] ELSE temporary
        /\ path' = IF open[r] = "path" THEN [path EXCEPT !.whole = TRUE] ELSE path
    BY <1>5 DEF SaveWrite
  <2>5. /\ open[r] = "temporary" => IsFile(temporary') /\ temporary'.whole /\ temporary'.cut = temporary.cut
        /\ open[r] = "path" => IsFile(path') /\ path'.whole /\ path'.cut = path.cut
    BY <1>0, <2>4 DEF FilesThere, IsFile
  <2>6. FilesThere'
    BY <1>0, <2>1, <2>4 DEF FilesThere, OneWriter
  <2>7. TemporaryWritten'
    <3>1. CASE open[r] = "temporary"
      BY <2>5, <3>1 DEF TemporaryWritten
    <3>2. CASE open[r] # "temporary"
      BY <1>0, <2>1, <2>2, <2>4, <3>2 DEF TemporaryWritten
    <3> QED
      BY <3>1, <3>2
  <2>8. PathWritten'
    <3>1. CASE open[r] = "path"
      BY <2>5, <3>1 DEF PathWritten
    <3>2. CASE open[r] # "path"
      BY <1>0, <2>1, <2>2, <2>4, <3>2 DEF PathWritten
    <3> QED
      BY <3>1, <3>2
  <2>9. PathMoved'
    BY <1>0, <2>1, <2>2, <2>4 DEF PathMoved
  <2>10. CutByTwo'
    <3>1. temporary' # temporary => open[r] = "temporary"
      BY <2>4
    <3>2. path' # path => open[r] = "path"
      BY <2>4
    <3>3. \A q \in Runs : open'[q] # "no" => open'[q] = open[q]
      BY <1>0, <2>1
    <3>4. CutSomewhere' => CutSomewhere
      <4>1. ASSUME NEW q \in Runs, cut'[q] # {} \/ pc'[q] = "misread" PROVE CutSomewhere
        BY <1>0, <2>1, <4>1 DEF CutSomewhere
      <4>2. ASSUME temporary' # None \/ (\E q \in Runs : open'[q] = "temporary"), temporary'.cut # {}
            PROVE  CutSomewhere
        BY <2>5, <3>1, <3>3, <4>2 DEF CutSomewhere
      <4>3. ASSUME path' # None \/ (\E q \in Runs : open'[q] = "path"), path'.cut # {}
            PROVE  CutSomewhere
        BY <2>5, <3>2, <3>3, <4>3 DEF CutSomewhere
      <4> QED BY <4>1, <4>2, <4>3 DEF CutSomewhere
    <3> QED BY <1>0, <2>1, <2>2, <3>4 DEF CutByTwo
  <2> QED
    BY <2>3, <2>6, <2>7, <2>8, <2>9, <2>10 DEF FileInv
<1>6. ASSUME NEW r \in Runs, SaveMove(r) PROVE FileInv'
  <2>1. /\ pc[r] = "written" /\ pc' = [pc EXCEPT ![r] = "done"] /\ path' = temporary /\ temporary' = None
        /\ open' = [s \in Runs |-> IF open[s] = "temporary" THEN "path" ELSE IF open[s] = "path" THEN "replaced" ELSE open[s]]
        /\ cut' = cut /\ temporary # None
    BY <1>6 DEF SaveMove
  <2>2. (EndedEarly => EndedEarly') /\ Moved'
    BY <1>0, <2>1, EndsStay DEF Moved
  <2>3. FileTyped' /\ WritersSave' /\ OneWriter'
    BY <1>0, <2>1 DEF Stages, FileTyped, WritersSave, OneWriter
  <2>4. TemporaryWritten' /\ PathWritten' /\ PathMoved'
    BY <1>0, <2>1, <2>2 DEF TemporaryWritten, PathWritten, PathMoved
  <2>5. FilesThere'
    BY <1>0, <2>1 DEF FilesThere
  <2>6. CutByTwo'
    <3>1. \A q \in Runs : open'[q] # "temporary"
      BY <2>1
    <3>2. CutSomewhere' => CutSomewhere
      <4>1. ASSUME NEW q \in Runs, cut'[q] # {} \/ pc'[q] = "misread" PROVE CutSomewhere
        BY <1>0, <2>1, <4>1 DEF CutSomewhere
      <4> QED BY <2>1, <3>1, <4>1 DEF CutSomewhere
    <3> QED BY <1>0, <2>1, <2>2, <3>2 DEF CutByTwo
  <2> QED
    BY <2>3, <2>4, <2>5, <2>6 DEF FileInv
<1>7. ASSUME NEW r \in Runs, SaveBreaks(r) \/ Kill(r) PROVE FileInv'
  <2>1. PICK end \in {"broken", "killed"} :
          /\ pc' = [pc EXCEPT ![r] = end] /\ open' = [open EXCEPT ![r] = "no"] /\ UNCHANGED <<path, temporary, cut>>
          /\ pc[r] \in {"saving", "written"}
    BY <1>7 DEF SaveBreaks, Kill
  <2>2. EndedEarly' /\ (Moved => Moved')
    BY <1>0, <2>1, EndsStay DEF EndedEarly
  <2>3. FileTyped' /\ FilesThere' /\ WritersSave' /\ OneWriter'
    BY <1>0, <2>1 DEF Stages, FileTyped, FilesThere, WritersSave, OneWriter
  <2>4. TemporaryWritten' /\ PathWritten' /\ PathMoved'
    BY <1>0, <2>1, <2>2 DEF TemporaryWritten, PathWritten, PathMoved
  <2>5. CutByTwo'
    <3>1. \A q \in Runs : open'[q] # "no" => open'[q] = open[q]
      BY <1>0, <2>1
    <3>2. CutSomewhere' => CutSomewhere
      <4>1. ASSUME NEW q \in Runs, cut'[q] # {} \/ pc'[q] = "misread" PROVE CutSomewhere
        BY <1>0, <2>1, <4>1 DEF CutSomewhere
      <4> QED BY <2>1, <3>1, <4>1 DEF CutSomewhere
    <3> QED BY <1>0, <2>1, <2>2, <3>2 DEF CutByTwo
  <2> QED
    BY <2>3, <2>4, <2>5 DEF FileInv
<1>8. CASE UNCHANGED vars
  <2>1. UNCHANGED <<fileVars, cut, pc, open, path, temporary>>
    BY <1>8 DEF vars, runVars, fileVars
  <2> QED BY <1>0, <2>1, OthersLeaveFiles DEF CutSomewhere
<1> QED
  BY <1>1, <1>2, <1>3, <1>4, <1>5, <1>6, <1>7, <1>8 DEF Next, Save, Done

\* However many runs share the cache, and however their saving interleaves, a file
\* cut short at the path, or a run that fails over an entry, takes a run that was
\* killed or broke off while it wrote, and another that moved the file.
THEOREM CacheFileWhole == Spec => []WholeWhenQuiet
<1>1. FileInv => WholeWhenQuiet
  <2> SUFFICES ASSUME FileInv PROVE WholeWhenQuiet
    OBVIOUS
  <2>1. ASSUME path # None, ~path.whole
        PROVE  \E r, s \in Runs : pc[r] \in {"saving", "broken", "killed"} /\ pc[s] = "done"
    BY <2>1 DEF FileInv, WritersSave, PathWritten, PathMoved, EndedEarly, Moved
  <2>2. ASSUME NEW r \in Runs, pc[r] = "misread"
        PROVE  \E s, t \in Runs : pc[s] \in {"broken", "killed"} /\ pc[t] = "done"
    BY <2>2 DEF FileInv, CutByTwo, CutSomewhere, EndedEarly, Moved
  <2> QED BY <2>1, <2>2 DEF WholeWhenQuiet
<1> QED
  BY <1>1, FileInit, FileStep, PTL DEF Spec

--------------------------------------------------------------------------------
(***************************************************************************)
(* Walks on a graph.                                                       *)
(***************************************************************************)
EdgeStep(g, s) == s \in Steps /\ {s[1], s[2]} \in g
GoesTo(g, s, t) == Onward(g, s) = {t}

LEMMA OpenedAreGraphs == \A g \in Opened : \A e \in g : \E u \in Nodes, v \in Nodes : u # v /\ e = {u, v}
BY GraphsAssumption DEF Opened, NoGraph

LEMMA StepsAreFinite == IsFiniteSet(Steps)
BY NodesAssumption, FS_Product DEF Steps

LEMMA StepIsPair == \A s \in Steps : s = <<s[1], s[2]>> /\ s[1] \in Nodes /\ s[2] \in Nodes
BY DEF Steps

LEMMA OnwardIsEdge ==
  ASSUME NEW g \in Opened, NEW s \in Steps, NEW t \in Onward(g, s)
  PROVE  EdgeStep(g, t) /\ t[1] = s[2] /\ t[2] # s[1]
<1>1. PICK n \in Adjacent(g, s[2]) \ {s[1]} : t = <<s[2], n>>
  BY DEF Onward
<1>2. n \in Nodes /\ {n, s[2]} \in g
  BY DEF Adjacent
<1>3. {n, s[2]} = {s[2], n}
  OBVIOUS
<1> QED BY <1>1, <1>2, <1>3, StepIsPair DEF EdgeStep, Steps

\* An edge step may be continued by any other edge of its node.
LEMMA EdgeIsOnward ==
  ASSUME NEW g \in Opened, NEW s \in Steps, NEW n \in Nodes, {s[2], n} \in g, n # s[1]
  PROVE  <<s[2], n>> \in Onward(g, s)
<1>1. {n, s[2]} = {s[2], n}
  OBVIOUS
<1> QED BY <1>1 DEF Onward, Adjacent

LEMMA EdgesHaveTwoEnds ==
  ASSUME NEW g \in Opened, NEW s, EdgeStep(g, s)
  PROVE  s[1] # s[2] /\ EdgeStep(g, <<s[2], s[1]>>)
<1>1. PICK u \in Nodes, v \in Nodes : u # v /\ {s[1], s[2]} = {u, v}
  BY OpenedAreGraphs DEF EdgeStep
<1>2. s[1] # s[2]
  BY <1>1
<1>3. {s[2], s[1]} = {s[1], s[2]}
  OBVIOUS
<1> QED BY <1>2, <1>3, StepIsPair DEF EdgeStep, Steps

LEMMA OneOnwardMeans ==
  ASSUME NEW g \in Opened, NEW s \in Steps
  PROVE  /\ OneOnward(g, s) => \E t \in Steps : GoesTo(g, s, t)
         /\ \A t : GoesTo(g, s, t) => OneOnward(g, s) /\ EdgeStep(g, t)
<1>1. Onward(g, s) \subseteq Steps
  BY OnwardIsEdge DEF EdgeStep
<1>2. IsFiniteSet(Onward(g, s))
  BY <1>1, StepsAreFinite, FS_Subset
<1>3. ASSUME OneOnward(g, s) PROVE \E t \in Steps : GoesTo(g, s, t)
  BY <1>1, <1>2, <1>3, FS_Singleton DEF OneOnward, GoesTo
<1>4. ASSUME NEW t, GoesTo(g, s, t) PROVE OneOnward(g, s) /\ EdgeStep(g, t)
  <2>1. t \in Onward(g, s)
    BY <1>4 DEF GoesTo
  <2> QED BY <1>4, <2>1, OnwardIsEdge, FS_Singleton DEF OneOnward, GoesTo
<1> QED BY <1>3, <1>4

\* A walk holds its first step and every step it leads to.
LEMMA WalkGoesOn ==
  ASSUME NEW g \in Opened, NEW s \in Steps
  PROVE  /\ s \in Walk(g, s) /\ Walk(g, s) \subseteq Steps
         /\ \A x \in Walk(g, s) : \A t : GoesTo(g, x, t) => t \in Walk(g, s)
         /\ EdgeStep(g, s) => \A x \in Walk(g, s) : EdgeStep(g, x)
<1> DEFINE trail == {s} \cup {x \in Steps : {x[1], x[2]} \in g}
           through == {T \in SUBSET trail : s \in T /\ GoesOn(g, T)}
<1>1. Walk(g, s) = {x \in trail : \A T \in through : x \in T}
  BY DEF Walk
<1>2. ASSUME NEW x \in Walk(g, s), NEW t, GoesTo(g, x, t) PROVE t \in Walk(g, s)
  <2>1. x \in Steps
    BY <1>1
  <2>2. OneOnward(g, x) /\ EdgeStep(g, t)
    BY <1>2, <2>1, OneOnwardMeans
  <2>3. \A T \in through : t \in T
    BY <1>1, <1>2, <2>2 DEF GoesOn, GoesTo
  <2> QED BY <1>1, <2>2, <2>3 DEF EdgeStep
<1> QED BY <1>1, <1>2 DEF EdgeStep

\* And nothing else.
LEMMA WalkIsLeast ==
  ASSUME NEW g \in Opened, NEW s \in Steps, NEW S, s \in S,
         \A x \in S \cap Steps : \A t : GoesTo(g, x, t) => t \in S
  PROVE  Walk(g, s) \subseteq S
<1> DEFINE trail == {s} \cup {x \in Steps : {x[1], x[2]} \in g}
           through == {T \in SUBSET trail : s \in T /\ GoesOn(g, T)}
<1>1. Walk(g, s) = {x \in trail : \A T \in through : x \in T}
  BY DEF Walk
<1>2. GoesOn(g, S \cap trail)
  <2> SUFFICES ASSUME NEW x \in S \cap trail, OneOnward(g, x), NEW t \in Onward(g, x)
               PROVE  t \in S \cap trail
    BY DEF GoesOn
  <2>1. x \in Steps
    OBVIOUS
  <2>2. GoesTo(g, x, t) /\ EdgeStep(g, t)
    BY <2>1, OneOnwardMeans, OnwardIsEdge DEF GoesTo
  <2> QED BY <2>1, <2>2 DEF EdgeStep
<1>3. S \cap trail \in through
  BY <1>2
<1> QED BY <1>1, <1>3

LEMMA WalkWithin ==
  ASSUME NEW g \in Opened, NEW s \in Steps, NEW t \in Walk(g, s)
  PROVE  t \in Steps /\ Walk(g, t) \subseteq Walk(g, s)
BY WalkGoesOn, WalkIsLeast

\* No two edge steps lead to one step: it is the other edge of the node they meet at.
LEMMA OneStepBefore ==
  ASSUME NEW g \in Opened, NEW x, NEW y, NEW t, EdgeStep(g, x), EdgeStep(g, y),
         GoesTo(g, x, t), GoesTo(g, y, t)
  PROVE  x = y
<1>1. x \in Steps /\ y \in Steps /\ t \in Onward(g, x) /\ t \in Onward(g, y)
  BY DEF EdgeStep, GoesTo
<1>2. x[2] = y[2] /\ t[1] = x[2] /\ t[2] # x[1] /\ t[2] # y[1]
  BY <1>1, OnwardIsEdge
<1>3. {y[2], y[1]} \in g /\ y[1] \in Nodes
  BY EdgesHaveTwoEnds, <1>1, StepIsPair DEF EdgeStep
<1>4. x[1] = y[1]
  <2> SUFFICES ASSUME x[1] # y[1] PROVE FALSE
    OBVIOUS
  <2>1. <<x[2], y[1]>> \in Onward(g, x)
    BY <1>1, <1>2, <1>3, EdgeIsOnward
  <2>2. t = <<x[2], y[1]>>
    BY <2>1 DEF GoesTo
  <2> QED BY <1>2, <2>2
<1> QED BY <1>1, <1>2, <1>4, StepIsPair

\* A walk without a last step goes round: it comes back to every step it passes.
LEMMA WalkGoesRound ==
  ASSUME NEW g \in Opened, NEW s, EdgeStep(g, s), NEW t \in Walk(g, s), Last(g, t) = {}
  PROVE  Walk(g, t) = Walk(g, s)
<1> DEFINE C == Walk(g, t)
           after == [x \in C |-> CHOOSE y : GoesTo(g, x, y)]
<1>1. s \in Steps /\ t \in Steps /\ EdgeStep(g, t) /\ C \subseteq Walk(g, s) /\ Walk(g, s) \subseteq Steps
  BY WalkGoesOn, WalkWithin DEF EdgeStep
<1>2. \A x \in C : EdgeStep(g, x) /\ x \in Steps /\ OneOnward(g, x)
  BY <1>1, WalkGoesOn DEF Last
<1>3. \A x \in C : \E y : GoesTo(g, x, y)
  BY <1>2, OneOnwardMeans
<1>4. \A x \in C : GoesTo(g, x, after[x]) /\ after[x] \in C
  <2> SUFFICES ASSUME NEW x \in C PROVE GoesTo(g, x, after[x]) /\ after[x] \in C
    OBVIOUS
  <2>1. PICK y : GoesTo(g, x, y)
    BY <1>3
  <2>2. after[x] = y
    BY <2>1 DEF GoesTo
  <2> QED BY <1>1, <2>1, <2>2, WalkGoesOn
<1>5. after \in Injection(C, C)
  <2>1. after \in [C -> C]
    BY <1>4
  <2>2. ASSUME NEW x \in C, NEW y \in C, after[x] = after[y] PROVE x = y
    BY <1>2, <1>4, <2>2, OneStepBefore
  <2> HIDE DEF after
  <2> QED BY <2>1, <2>2 DEF Injection, IsInjective
<1>6. after \in Surjection(C, C)
  <2>1. IsFiniteSet(C)
    BY <1>1, StepsAreFinite, FS_Subset
  <2> HIDE DEF C, after
  <2> QED BY <1>5, <2>1, FS_Injection
<1>7. s \in C
  <2> SUFFICES ASSUME s \notin C PROVE FALSE
    OBVIOUS
  <2> DEFINE before == Walk(g, s) \ C
  <2>1. ASSUME NEW x \in before \cap Steps, NEW y, GoesTo(g, x, y) PROVE y \in before
    <3>1. y \in Walk(g, s)
      BY <1>1, <2>1, WalkGoesOn
    <3>2. ASSUME y \in C PROVE FALSE
      <4>1. PICK z \in C : after[z] = y
        BY <1>6, <3>2 DEF Surjection
      <4>2. EdgeStep(g, x) /\ EdgeStep(g, z)
        BY <1>1, <1>2, WalkGoesOn
      <4>3. x = z
        BY <1>4, <2>1, <4>1, <4>2, OneStepBefore
      <4> QED BY <4>3
    <3> QED BY <3>1, <3>2
  <2>2. s \in before
    BY <1>1, WalkGoesOn
  <2>3. Walk(g, s) \subseteq before
    <3> HIDE DEF before
    <3> QED BY <1>1, <2>1, <2>2, WalkIsLeast
  <2>4. t \in C
    BY <1>1, WalkGoesOn
  <2> QED BY <1>1, <2>3, <2>4
<1>8. Walk(g, s) \subseteq C
  BY <1>1, <1>7, WalkWithin
<1> QED BY <1>1, <1>8

\* The last step stays ahead until it is reached.
LEMMA LastIsAhead ==
  ASSUME NEW g \in Opened, NEW s \in Steps, NEW l \in Last(g, s), NEW t \in Walk(g, s)
  PROVE  l \in Last(g, t)
<1> DEFINE S == {x \in Steps : l \in Walk(g, x)}
<1>1. l \in Walk(g, s) /\ ~OneOnward(g, l)
  BY DEF Last
<1>2. ASSUME NEW x \in S, NEW y, GoesTo(g, x, y) PROVE y \in S
  <2>1. OneOnward(g, x) /\ y \in Steps
    BY <1>2, OneOnwardMeans DEF EdgeStep
  <2> DEFINE xy == {x} \cup Walk(g, y)
  <2>2. x \in Steps /\ x \in xy /\ \A z \in xy \cap Steps : \A u : GoesTo(g, z, u) => u \in xy
    BY <1>2, <2>1, WalkGoesOn DEF GoesTo
  <2>3. Walk(g, x) \subseteq xy
    <3> HIDE DEF xy
    <3> QED BY <2>2, WalkIsLeast
  <2> QED BY <1>1, <2>1, <2>3
<1>3. Walk(g, s) \subseteq S
  BY <1>1, <1>2, WalkIsLeast
<1> QED BY <1>1, <1>3 DEF Last

\* So a walk ends where every step on it ends, and passes what that passes.
LEMMA ThreadHasOneEnd ==
  ASSUME NEW g \in Opened, NEW s, EdgeStep(g, s), NEW t \in Walk(g, s)
  PROVE  End(g, t) = End(g, s) /\ Passed(g, t) \subseteq Passed(g, s)
<1>1. s \in Steps /\ t \in Steps /\ EdgeStep(g, t) /\ Walk(g, t) \subseteq Walk(g, s)
  BY WalkGoesOn, WalkWithin DEF EdgeStep
<1>2. CASE Last(g, t) = {}
  <2>1. Walk(g, t) = Walk(g, s)
    BY <1>1, <1>2, WalkGoesRound
  <2> QED BY <2>1 DEF End, Last, Passed
<1>3. CASE Last(g, t) # {}
  <2>1. Last(g, s) = Last(g, t)
    <3>1. Last(g, t) \subseteq Last(g, s)
      BY <1>1 DEF Last
    <3>2. Last(g, s) \subseteq Last(g, t)
      BY <1>1, LastIsAhead
    <3> QED BY <3>1, <3>2
  <2> QED BY <1>1, <1>3, <2>1 DEF End, Passed
<1> QED BY <1>2, <1>3

(***************************************************************************)
(* What a region's fingerprints fix.                                       *)
(***************************************************************************)
LEMMA FiniteHasExtremes ==
  ASSUME NEW S \in SUBSET Int, IsFiniteSet(S), S # {}
  PROVE  (\E x \in S : \A y \in S : x <= y) /\ (\E x \in S : \A y \in S : x >= y)
<1> DEFINE Bounded(T) == (\E x \in T : \A y \in T : x <= y) /\ (\E x \in T : \A y \in T : x >= y)
           Bad == {T \in FiniteSubsetsOf(S) : T # {} /\ ~Bounded(T)}
           R == StrictSubsetOrdering(S)
<1>1. IsWellFoundedOn(R, FiniteSubsetsOf(S))
  BY FS_StrictSubsetOrderingWellFounded
<1>2. SUFFICES ASSUME Bad # {} PROVE FALSE
  <2>1. S \in FiniteSubsetsOf(S)
    BY DEF FiniteSubsetsOf
  <2> QED BY <2>1
<1>3. PICK T \in Bad : \A U \in Bad : <<U, T>> \notin R
  <2>1. Bad \subseteq FiniteSubsetsOf(S)
    OBVIOUS
  <2> HIDE DEF Bad, R
  <2> QED BY <1>1, <1>2, <2>1, WFMin
<1>4. PICK x \in T : TRUE
  OBVIOUS
<1>5. IsFiniteSet(T) /\ T \subseteq S
  BY <1>3 DEF FiniteSubsetsOf
<1>6. IsFiniteSet(T \ {x}) /\ <<T \ {x}, T>> \in R
  BY <1>4, <1>5, FS_RemoveElement DEF StrictSubsetOrdering
<1>7. CASE T = {x}
  BY <1>3, <1>5, <1>7
<1>8. CASE T # {x}
  <2>1. T \ {x} # {} /\ T \ {x} \in FiniteSubsetsOf(S)
    BY <1>4, <1>5, <1>6, <1>8 DEF FiniteSubsetsOf
  <2>2. Bounded(T \ {x})
    BY <1>3, <1>6, <2>1
  <2>3. \E z \in T : \A y \in T : z <= y
    <3>1. PICK z \in T \ {x} : \A y \in T \ {x} : z <= y
      BY <2>2
    <3>2. CASE x <= z
      BY <1>4, <1>5, <3>1, <3>2
    <3>3. CASE ~(x <= z)
      BY <1>4, <1>5, <3>1, <3>3
    <3> QED BY <3>2, <3>3
  <2>4. \E z \in T : \A y \in T : z >= y
    <3>1. PICK z \in T \ {x} : \A y \in T \ {x} : z >= y
      BY <2>2
    <3>2. CASE x >= z
      BY <1>4, <1>5, <3>1, <3>2
    <3>3. CASE ~(x >= z)
      BY <1>4, <1>5, <3>1, <3>3
    <3> QED BY <3>2, <3>3
  <2> QED BY <1>3, <2>3, <2>4
<1> QED BY <1>7, <1>8

LEMMA BoxCovers ==
  ASSUME NEW S \in SUBSET Nodes
  PROVE  S \subseteq Box(S) /\ Box(S) \subseteq Nodes
<1>1. ASSUME S # {} PROVE S \subseteq Box(S)
  <2>1. S \in SUBSET Int /\ IsFiniteSet(S)
    BY NodesAssumption, FS_Subset
  <2>2. (\E x \in S : \A y \in S : x <= y) /\ (\E x \in S : \A y \in S : x >= y)
    BY <1>1, <2>1, FiniteHasExtremes
  <2>3. \A y \in S : Min(S) <= y
    BY <2>2 DEF Min
  <2>4. \A y \in S : Max(S) >= y
    BY <2>2 DEF Max
  <2>5. Min(S) \in Int /\ Max(S) \in Int
    BY <2>1, <2>2 DEF Min, Max
  <2> QED BY <2>1, <2>3, <2>4, <2>5, <1>1 DEF Box
<1> QED BY <1>1 DEF Box

LEMMA SmallestIsNode ==
  ASSUME NEW S \in SUBSET Nodes, S # {}
  PROVE  Min(S) \in Nodes
<1>1. S \in SUBSET Int /\ IsFiniteSet(S)
  BY NodesAssumption, FS_Subset
<1>2. \E x \in S : \A y \in S : x <= y
  BY <1>1, FiniteHasExtremes
<1> QED BY <1>2 DEF Min

LEMMA DigestFixesEdges ==
  ASSUME NEW g, NEW h, NEW B, RegionDigest(g, B) = RegionDigest(h, B), NEW e, e \cap B # {}
  PROVE  e \in g <=> e \in h
BY DEF RegionDigest

LEMMA DigestFixesOnward ==
  ASSUME NEW g, NEW h, NEW B, RegionDigest(g, B) = RegionDigest(h, B), NEW s, s[2] \in B
  PROVE  Onward(g, s) = Onward(h, s)
<1>1. \A n : {n, s[2]} \cap B # {}
  OBVIOUS
<1>2. \A n : {n, s[2]} \in g <=> {n, s[2]} \in h
  BY <1>1, DigestFixesEdges
<1>3. Adjacent(g, s[2]) = Adjacent(h, s[2])
  BY <1>2 DEF Adjacent
<1> QED BY <1>3 DEF Onward

LEMMA DigestBoundsWalk ==
  ASSUME NEW g \in Opened, NEW h \in Opened, NEW B, RegionDigest(g, B) = RegionDigest(h, B),
         NEW s \in Steps, Passed(g, s) \subseteq B
  PROVE  Walk(h, s) \subseteq Walk(g, s)
<1> DEFINE W == Walk(g, s)
<1>1. s \in W /\ W \subseteq Steps /\ \A x \in W : \A t : GoesTo(g, x, t) => t \in W
  BY WalkGoesOn
<1>2. \A x \in W : Onward(g, x) = Onward(h, x)
  BY DigestFixesOnward DEF Passed
<1>3. \A x \in W \cap Steps : \A t : GoesTo(h, x, t) => t \in W
  BY <1>1, <1>2 DEF GoesTo
<1> HIDE DEF W
<1> QED BY <1>1, <1>3, WalkIsLeast DEF W

\* A walk inside a box is the same on every graph that has the box's fingerprints.
LEMMA DigestFixesWalk ==
  ASSUME NEW g \in Opened, NEW h \in Opened, NEW B, RegionDigest(g, B) = RegionDigest(h, B),
         NEW s \in Steps, Passed(g, s) \subseteq B
  PROVE  End(h, s) = End(g, s) /\ Passed(h, s) = Passed(g, s)
<1>1. Walk(h, s) \subseteq Walk(g, s)
  BY DigestBoundsWalk
<1>2. Passed(h, s) \subseteq B
  BY <1>1 DEF Passed
<1>3. Walk(g, s) \subseteq Walk(h, s)
  BY <1>2, DigestBoundsWalk
<1>4. Walk(g, s) = Walk(h, s) /\ Passed(g, s) = Passed(h, s)
  BY <1>1, <1>3 DEF Passed
<1>5. \A x \in Walk(g, s) : OneOnward(g, x) <=> OneOnward(h, x)
  BY DigestFixesOnward DEF Passed, OneOnward
<1>6. Last(g, s) = Last(h, s)
  BY <1>4, <1>5 DEF Last
<1> QED BY <1>4, <1>6 DEF End

LEMMA PassedAreNodes ==
  ASSUME NEW g \in Opened, NEW s \in Steps
  PROVE  Passed(g, s) \subseteq Nodes /\ s[2] \in Passed(g, s) /\ End(g, s) \in Ends
<1>1. s \in Walk(g, s) /\ Walk(g, s) \subseteq Steps
  BY WalkGoesOn
<1>2. Passed(g, s) \in SUBSET Nodes /\ s[2] \in Passed(g, s)
  BY <1>1, StepIsPair DEF Passed
<1>3. Min(Passed(g, s)) \in Nodes
  BY <1>2, SmallestIsNode
<1>4. Last(g, s) # {} => (CHOOSE x \in Last(g, s) : TRUE)[2] \in Nodes
  BY <1>1, StepIsPair DEF Last
<1> QED BY <1>2, <1>3, <1>4 DEF End, Ends

(***************************************************************************)
(* One walk of a worker, whatever it meets.                                *)
(***************************************************************************)
\* So far the walk has gone through distinct nodes, each step but the first after
\* another of it, and has not come back; what it has read is in its box.
UnderWay(g, first, at, visited, box) ==
  /\ at \in Walk(g, first)
  /\ first \in visited \/ (visited = {} /\ at = first)
  /\ \A x \in visited : x \in Walk(g, first) /\ at \in Walk(g, x) /\ x[2] \in box
  /\ \A x \in visited : \E t \in visited \cup {at} : GoesTo(g, x, t)
  /\ \A x, y \in visited : x[2] = y[2] => x = y
  /\ \A x \in visited \cup {at} : x = first \/ \E y \in visited : GoesTo(g, y, x)
  /\ at \in visited => at = first

\* Every step of it that is to be given an end has that end, and all it passes is read.
Arrived(g, first, visited, result, box) ==
  \A x \in visited \cup {first} : x \in Steps /\ result = End(g, x) /\ Passed(g, x) \subseteq box

LEMMA VisitedAreEdges ==
  ASSUME NEW g \in Opened, NEW first, EdgeStep(g, first), NEW at, NEW visited, NEW box,
         UnderWay(g, first, at, visited, box)
  PROVE  \A x \in visited \cup {at} : EdgeStep(g, x) /\ x \in Steps
<1>1. first \in Steps
  BY DEF EdgeStep
<1> QED BY <1>1, WalkGoesOn DEF UnderWay

LEMMA StartsUnderWay ==
  ASSUME NEW g \in Opened, NEW first, EdgeStep(g, first), NEW box
  PROVE  UnderWay(g, first, first, {}, box)
<1>1. first \in Steps
  BY DEF EdgeStep
<1> QED BY <1>1, WalkGoesOn DEF UnderWay

\* From a step of it on, a walk goes through what was visited and what is ahead.
LEMMA VisitedOrAhead ==
  ASSUME NEW g \in Opened, NEW first, EdgeStep(g, first), NEW at, NEW visited, NEW box,
         UnderWay(g, first, at, visited, box), NEW x \in visited \cup {at}
  PROVE  /\ Walk(g, x) \subseteq visited \cup Walk(g, at)
         /\ End(g, x) = End(g, at)
         /\ Passed(g, x) \subseteq box \cup Passed(g, at)
<1> DEFINE S == visited \cup Walk(g, at)
<1>1. at \in Steps /\ x \in Steps /\ EdgeStep(g, x) /\ EdgeStep(g, at)
  BY VisitedAreEdges
<1>2. at \in Walk(g, at) /\ \A y \in Walk(g, at) : \A t : GoesTo(g, y, t) => t \in Walk(g, at)
  BY <1>1, WalkGoesOn
<1>3. ASSUME NEW y \in S \cap Steps, NEW t, GoesTo(g, y, t) PROVE t \in S
  <2>1. CASE y \in visited
    <3>1. PICK u \in visited \cup {at} : GoesTo(g, y, u)
      BY <2>1 DEF UnderWay
    <3>2. u = t
      BY <1>3, <3>1 DEF GoesTo
    <3> QED BY <1>2, <3>1, <3>2
  <2> QED BY <1>2, <1>3, <2>1
<1>4. x \in S
  BY <1>2
<1>5. Walk(g, x) \subseteq S
  <2> HIDE DEF S
  <2> QED BY <1>1, <1>3, <1>4, WalkIsLeast
<1>6. at \in Walk(g, x)
  BY <1>2 DEF UnderWay
<1>7. End(g, x) = End(g, at)
  BY <1>1, <1>6, ThreadHasOneEnd
<1> QED BY <1>5, <1>7 DEF Passed, UnderWay

LEMMA StartIsVisited ==
  ASSUME NEW g, NEW first, NEW at, NEW visited, NEW box, UnderWay(g, first, at, visited, box)
  PROVE  visited \cup {first} \subseteq visited \cup {at}
BY DEF UnderWay

\* Where another worker has been, its end and its box are all that is missing.
LEMMA ArrivesAtThread ==
  ASSUME NEW g \in Opened, NEW first, EdgeStep(g, first), NEW at, NEW visited, NEW box \in SUBSET Nodes,
         UnderWay(g, first, at, visited, box), NEW known \in SUBSET Nodes, Passed(g, at) \subseteq known
  PROVE  Arrived(g, first, visited, End(g, at), Box(box \cup known))
<1>1. box \cup known \subseteq Box(box \cup known)
  BY BoxCovers
<1>2. visited \cup {first} \subseteq visited \cup {at}
  BY StartIsVisited
<1>3. \A x \in visited \cup {at} : x \in Steps /\ End(g, x) = End(g, at) /\ Passed(g, x) \subseteq box \cup Passed(g, at)
  BY VisitedAreEdges, VisitedOrAhead
<1> QED BY <1>1, <1>2, <1>3 DEF Arrived

LEMMA ArrivesAtLast ==
  ASSUME NEW g \in Opened, NEW first, EdgeStep(g, first), NEW at, NEW visited, NEW box \in SUBSET Nodes,
         UnderWay(g, first, at, visited, box), ~OneOnward(g, at)
  PROVE  Arrived(g, first, visited \cup {at}, <<at[2], FALSE>>, Box(box \cup {at[2]}))
<1>1. at \in Steps /\ at[2] \in Nodes
  BY VisitedAreEdges, StepIsPair
<1>2. Walk(g, at) = {at}
  <2>1. \A t : ~GoesTo(g, at, t)
    BY <1>1, OneOnwardMeans
  <2>2. Walk(g, at) \subseteq {at}
    <3> DEFINE S == {at}
    <3>1. at \in S /\ \A x \in S \cap Steps : \A t : GoesTo(g, x, t) => t \in S
      BY <2>1
    <3> HIDE DEF S
    <3>2. Walk(g, at) \subseteq S
      BY <1>1, <3>1, WalkIsLeast
    <3> QED BY <3>2 DEF S
  <2> QED BY <1>1, <2>2, WalkGoesOn
<1>3. Last(g, at) = {at}
  BY <1>2 DEF Last
<1>4. End(g, at) = <<at[2], FALSE>> /\ Passed(g, at) = {at[2]}
  BY <1>2, <1>3 DEF End, Passed
<1>5. box \cup {at[2]} \subseteq Box(box \cup {at[2]})
  BY <1>1, BoxCovers
<1>6. visited \cup {at} \cup {first} \subseteq visited \cup {at}
  BY StartIsVisited
<1>7. \A x \in visited \cup {at} : x \in Steps /\ End(g, x) = End(g, at) /\ Passed(g, x) \subseteq box \cup Passed(g, at)
  BY VisitedAreEdges, VisitedOrAhead
<1> QED BY <1>4, <1>5, <1>6, <1>7 DEF Arrived

\* The node a walk comes back to is that of its first step, so the cycle is what it
\* has visited.
LEMMA ComesBackToStart ==
  ASSUME NEW g \in Opened, NEW first, EdgeStep(g, first), NEW at, NEW visited, NEW box,
         UnderWay(g, first, at, visited, box), NEW v \in visited, v[2] = at[2]
  PROVE  at = first
<1> SUFFICES ASSUME at # first PROVE FALSE
  OBVIOUS
<1>1. EdgeStep(g, at) /\ at \in Steps /\ EdgeStep(g, v) /\ v \in Steps
  BY VisitedAreEdges
<1>2. PICK y \in visited : GoesTo(g, y, at)
  BY DEF UnderWay
<1>3. PICK t \in visited \cup {at} : GoesTo(g, v, t)
  BY DEF UnderWay
<1>4. y \in Steps /\ EdgeStep(g, y)
  BY VisitedAreEdges
<1>5. at[1] = y[2] /\ at[2] # y[1]
  BY <1>2, <1>4, OnwardIsEdge DEF GoesTo
<1>6. at # v
  BY DEF UnderWay
<1>7. v[1] # at[1]
  BY <1>1, <1>6, StepIsPair
<1>8. {v[2], at[1]} \in g /\ at[1] \in Nodes
  BY <1>1, EdgesHaveTwoEnds, StepIsPair DEF EdgeStep
<1>9. <<v[2], at[1]>> \in Onward(g, v)
  BY <1>1, <1>7, <1>8, EdgeIsOnward
<1>10. t = <<at[2], at[1]>>
  BY <1>3, <1>9 DEF GoesTo
<1>11. at[1] # at[2]
  BY <1>1, EdgesHaveTwoEnds
<1>12. t \in visited
  BY <1>10, <1>11, <1>1, StepIsPair
<1>13. t = y
  BY <1>5, <1>10, <1>12 DEF UnderWay
<1> QED BY <1>5, <1>10, <1>13

LEMMA ArrivesAtStart ==
  ASSUME NEW g \in Opened, NEW first, EdgeStep(g, first), NEW at, NEW visited, NEW box,
         UnderWay(g, first, at, visited, box), NEW v \in visited, v[2] = at[2]
  PROVE  Arrived(g, first, visited, <<Min({s[2] : s \in visited}), TRUE>>, box)
<1>1. at = first /\ at \in visited
  <2>1. at = first
    BY ComesBackToStart
  <2> QED BY <2>1 DEF UnderWay
<1>2. at \in Steps /\ \A x \in visited : EdgeStep(g, x) /\ x \in Steps
  BY VisitedAreEdges
<1>3. ASSUME NEW x \in visited \cap Steps, NEW t, GoesTo(g, x, t) PROVE t \in visited
  <2>1. PICK u \in visited \cup {at} : GoesTo(g, x, u)
    BY DEF UnderWay
  <2> QED BY <1>1, <1>3, <2>1 DEF GoesTo
<1>4. \A x \in visited : Walk(g, x) \subseteq visited
  BY <1>2, <1>3, WalkIsLeast
<1>5. Walk(g, at) = visited
  BY <1>1, <1>4 DEF UnderWay
<1>6. \A x \in visited : OneOnward(g, x)
  BY <1>2, OneOnwardMeans DEF UnderWay
<1>7. Last(g, at) = {}
  BY <1>5, <1>6 DEF Last
<1>8. End(g, at) = <<Min({s[2] : s \in visited}), TRUE>>
  BY <1>5, <1>7 DEF End, Passed
<1>9. \A x \in visited : End(g, x) = End(g, at)
  BY VisitedOrAhead
<1>10. \A x \in visited : Passed(g, x) \subseteq box
  BY <1>4 DEF Passed, UnderWay
<1> QED BY <1>1, <1>2, <1>8, <1>9, <1>10 DEF Arrived

LEMMA StepsOn ==
  ASSUME NEW g \in Opened, NEW first, EdgeStep(g, first), NEW at, NEW visited, NEW box \in SUBSET Nodes,
         UnderWay(g, first, at, visited, box), NEW next, GoesTo(g, at, next),
         \A s \in visited : s[2] # at[2]
  PROVE  UnderWay(g, first, next, visited \cup {at}, Box(box \cup {at[2]}))
<1> DEFINE V == visited \cup {at}
<1>1. \A x \in V : EdgeStep(g, x) /\ x \in Steps
  BY VisitedAreEdges
<1>2. at[2] \in Nodes /\ box \cup {at[2]} \subseteq Box(box \cup {at[2]})
  BY <1>1, StepIsPair, BoxCovers
<1>3. at \notin visited
  OBVIOUS
<1>4. first \in Steps /\ first \in V
  BY DEF UnderWay, EdgeStep
<1>5. next \in Walk(g, first)
  BY <1>4, WalkGoesOn DEF UnderWay
<1>6. \A x \in V : x \in Walk(g, first) /\ next \in Walk(g, x) /\ x[2] \in Box(box \cup {at[2]})
  BY <1>1, <1>2, WalkGoesOn DEF UnderWay
<1>7. \A x \in V : \E t \in V \cup {next} : GoesTo(g, x, t)
  BY DEF UnderWay
<1>8. \A x, y \in V : x[2] = y[2] => x = y
  BY DEF UnderWay
<1>9. \A x \in V \cup {next} : x = first \/ \E y \in V : GoesTo(g, y, x)
  BY DEF UnderWay
<1>10. ASSUME next \in V, next # first PROVE FALSE
  <2>1. PICK y \in visited : GoesTo(g, y, next)
    BY <1>10 DEF UnderWay
  <2>2. y = at
    BY <1>1, <2>1, OneStepBefore
  <2> QED BY <1>3, <2>1, <2>2
<1> QED BY <1>4, <1>5, <1>6, <1>7, <1>8, <1>9, <1>10 DEF UnderWay

--------------------------------------------------------------------------------
(***************************************************************************)
(* Entries carry what routing finds wherever their region is the same.     *)
(***************************************************************************)
Back(c) == <<c[2], c[1]>>

\* An entry was made on some graph, from all that its evidence depends on there.
Genuine(e, c) ==
  e = None \/ \E g \in Opened :
    /\ e.digest = RegionDigest(g, e.box) /\ Edge(c) \subseteq e.box
    /\ IF Edge(c) \in g
       THEN /\ e.edge = Edge(c) /\ e.ends = {End(g, c), End(g, Back(c))}
            /\ Passed(g, c) \cup Passed(g, Back(c)) \subseteq e.box
       ELSE e.edge = {} /\ e.ends = {}

LEMMA ContextIsStep ==
  \A c \in Contexts : /\ c \in Steps /\ Back(c) \in Steps /\ Edge(c) \in SUBSET Nodes /\ Edge(c) # {}
                      /\ \A g : Edge(c) \in g => EdgeStep(g, c) /\ EdgeStep(g, Back(c))
<1> SUFFICES ASSUME NEW c \in Contexts
             PROVE  /\ c \in Steps /\ Back(c) \in Steps /\ Edge(c) \in SUBSET Nodes /\ Edge(c) # {}
                    /\ \A g : Edge(c) \in g => EdgeStep(g, c) /\ EdgeStep(g, Back(c))
  OBVIOUS
<1>1. c \in Steps /\ Back(c) \in Steps /\ c[1] \in Nodes /\ c[2] \in Nodes
  BY ContextsAssumption DEF Steps, Back
<1>2. Edge(c) = {c[1], c[2]} /\ Edge(c) = {Back(c)[1], Back(c)[2]}
  BY DEF Edge, Back
<1> QED BY <1>1, <1>2 DEF EdgeStep

\* A hit returns exactly what routing would.
LEMMA HitIsRouting ==
  ASSUME NEW c \in Contexts, NEW h \in Opened, NEW e, Genuine(e, c), Restorable(e, h)
  PROVE  Restored(e, h) = Routed(h, c)
<1>1. PICK g \in Opened :
        /\ e.digest = RegionDigest(g, e.box) /\ Edge(c) \subseteq e.box
        /\ IF Edge(c) \in g
           THEN /\ e.edge = Edge(c) /\ e.ends = {End(g, c), End(g, Back(c))}
                /\ Passed(g, c) \cup Passed(g, Back(c)) \subseteq e.box
           ELSE e.edge = {} /\ e.ends = {}
  BY DEF Genuine, Restorable, Current
<1>2. RegionDigest(g, e.box) = RegionDigest(h, e.box)
  BY <1>1 DEF Restorable, Current
<1>3. Edge(c) # {} /\ c \in Steps /\ Back(c) \in Steps
  BY ContextIsStep
<1>4. Edge(c) \in g <=> Edge(c) \in h
  <2>1. Edge(c) \cap e.box # {}
    BY <1>1, <1>3
  <2> QED BY <1>2, <2>1, DigestFixesEdges
<1>5. CASE Edge(c) \in h
  <2>1. End(h, c) = End(g, c) /\ End(h, Back(c)) = End(g, Back(c))
    BY <1>1, <1>2, <1>3, <1>4, <1>5, DigestFixesWalk
  <2> QED BY <1>1, <1>3, <1>4, <1>5, <2>1 DEF Restored, Routed, Back
<1>6. CASE Edge(c) \notin h
  BY <1>1, <1>4, <1>6 DEF Restored, Routed, Unsnapped
<1> QED BY <1>5, <1>6

LEMMA UnsnappedIsGenuine ==
  ASSUME NEW c \in Contexts, NEW g \in Opened, Edge(c) \notin g
  PROVE  Genuine(Entry(g, Edge(c), {}, {}), c)
<1>1. Edge(c) \subseteq Box(Edge(c))
  BY ContextIsStep, BoxCovers
<1> QED BY <1>1 DEF Genuine, Entry

LEMMA RoutedIsGenuine ==
  ASSUME NEW c \in Contexts, NEW g \in Opened, Edge(c) \in g, NEW read \in SUBSET Nodes,
         Edge(c) \cup Passed(g, c) \cup Passed(g, Back(c)) \subseteq read
  PROVE  Genuine(Entry(g, read, {End(g, c), End(g, Back(c))}, Edge(c)), c)
<1>1. read \subseteq Box(read)
  BY BoxCovers
<1> QED BY <1>1 DEF Genuine, Entry

(***************************************************************************)
(* What each worker is at.                                                 *)
(***************************************************************************)
ItemFields == {"context", "side", "step", "visited", "read", "box", "result", "ends"}
First(i) == IF i.side = "left" THEN Back(i.context) ELSE i.context

WorkFits(g, i) ==
  /\ DOMAIN i = ItemFields
  /\ i.context \in Contexts /\ Edge(i.context) \in g
  /\ i.read \in SUBSET Nodes /\ i.box \in SUBSET Nodes /\ Edge(i.context) \subseteq i.read
  /\ i.side = "left" => i.ends = {}
  /\ i.side # "left" => i.ends = {End(g, Back(i.context))} /\ Passed(g, Back(i.context)) \subseteq i.read
  /\ i.result = None => UnderWay(g, First(i), i.step, i.visited, i.box)
  /\ i.result # None => Arrived(g, First(i), i.visited, i.result, i.box)

ThreadFits(g, s, t) == t.end = End(g, s) /\ t.box \in SUBSET Nodes /\ Passed(g, s) \subseteq t.box

LEMMA FirstIsEdge ==
  ASSUME NEW g, NEW i, WorkFits(g, i)
  PROVE  EdgeStep(g, First(i)) /\ First(i) \in Steps
BY ContextIsStep DEF WorkFits, First

LEMMA ArrivedHasResult ==
  ASSUME NEW g \in Opened, NEW first, NEW visited, NEW result, NEW box, Arrived(g, first, visited, result, box)
  PROVE  result \in Ends /\ result # None
BY PassedAreNodes, NoneAssumption DEF Arrived, Ends

\* The walk goes on for the same context.
Continues(i, j) ==
  /\ DOMAIN j = ItemFields /\ j.context = i.context /\ j.side = i.side /\ j.read = i.read /\ j.ends = i.ends
  /\ j.box \in SUBSET Nodes

LEMMA ArrivalFits ==
  ASSUME NEW g \in Opened, NEW i, WorkFits(g, i), NEW j, Continues(i, j),
         Arrived(g, First(i), j.visited, j.result, j.box)
  PROVE  WorkFits(g, j)
<1>1. First(j) = First(i) /\ j.result # None
  BY ArrivedHasResult DEF First, Continues
<1> QED BY <1>1 DEF WorkFits, Continues

LEMMA UnderWayFits ==
  ASSUME NEW g \in Opened, NEW i, WorkFits(g, i), NEW j, Continues(i, j), j.result = None,
         UnderWay(g, First(i), j.step, j.visited, j.box)
  PROVE  WorkFits(g, j)
<1>1. First(j) = First(i)
  BY DEF First, Continues
<1> QED BY <1>1 DEF WorkFits, Continues

(***************************************************************************)
(* The invariant of routing.                                               *)
(***************************************************************************)
IsTable(f, X) == DOMAIN f = Runs /\ \A r \in Runs : DOMAIN f[r] = X

RouteTables ==
  /\ graph \in [Runs -> Opened] /\ DOMAIN stored = Runs
  /\ IsTable(used, Contexts) /\ IsTable(answers, Contexts) /\ IsTable(threadEnd, Steps) /\ IsTable(work, Workers)
AllGenuine(entries) == \A c \in Contexts : Genuine(entries[c], c)
EntriesGenuine == \A r \in Runs : AllGenuine(stored[r]) /\ AllGenuine(used[r])
AnswersRight == \A r \in Runs, c \in Contexts : answers[r][c] = None \/ answers[r][c] = Routed(graph[r], c)
ThreadsRight == \A r \in Runs, s \in Steps : threadEnd[r][s] = None \/ ThreadFits(graph[r], s, threadEnd[r][s])
WorkersFit == \A r \in Runs, w \in Workers : work[r][w] = None \/ WorkFits(graph[r], work[r][w])
FilesGenuine ==
  /\ path = None \/ AllGenuine(path.entries)
  /\ temporary = None \/ AllGenuine(temporary.entries)
  /\ \A r \in Runs : /\ open[r] = "temporary" => AllGenuine(temporary.entries)
                     /\ open[r] = "path" => AllGenuine(path.entries)

RouteInv == RouteTables /\ EntriesGenuine /\ AnswersRight /\ ThreadsRight /\ WorkersFit /\ FilesGenuine

LEMMA SetInSets ==
  ASSUME NEW f, NEW X, IsTable(f, X), NEW r \in Runs, NEW x \in X, NEW v
  PROVE  /\ IsTable(SetIn(f, r, x, v), X) /\ SetIn(f, r, x, v)[r][x] = v
         /\ \A s \in Runs, y \in X : s # r \/ y # x => SetIn(f, r, x, v)[s][y] = f[s][y]
<1> DEFINE row == [f[r] EXCEPT ![x] = v]
<1>1. DOMAIN f = Runs /\ \A s \in Runs : DOMAIN f[s] = X
  BY DEF IsTable
<1>2. DOMAIN row = X /\ row[x] = v /\ \A y \in X : y # x => row[y] = f[r][y]
  BY <1>1
<1>3. SetIn(f, r, x, v) = [f EXCEPT ![r] = row]
  BY DEF SetIn
<1> HIDE DEF row
<1>4. /\ DOMAIN SetIn(f, r, x, v) = Runs /\ SetIn(f, r, x, v)[r] = row
      /\ \A s \in Runs : s # r => SetIn(f, r, x, v)[s] = f[s]
  BY <1>1, <1>3
<1> QED BY <1>1, <1>2, <1>4 DEF IsTable

LEMMA RouteInit == Init => RouteInv
<1> SUFFICES ASSUME Init PROVE RouteInv
  OBVIOUS
<1>1. RouteTables
  BY DEF Init, RouteTables, IsTable, Nothing, NoWalks, NoWork, Opened
<1>2. EntriesGenuine /\ AnswersRight /\ ThreadsRight /\ WorkersFit /\ FilesGenuine
  BY DEF Init, Nothing, NoWalks, NoWork, EntriesGenuine, AllGenuine, Genuine, AnswersRight, ThreadsRight, WorkersFit, FilesGenuine
<1> QED BY <1>1, <1>2 DEF RouteInv

\* A worker is at something else.
LEMMA WorkerMoves ==
  ASSUME RouteInv, NEW r \in Runs, NEW w \in Workers, NEW i, i = None \/ WorkFits(graph[r], i),
         work' = SetIn(work, r, w, i), graph' = graph
  PROVE  WorkersFit' /\ IsTable(work', Workers)
<1>1. IsTable(work, Workers)
  BY DEF RouteInv, RouteTables
<1>2. /\ IsTable(work', Workers) /\ work'[r][w] = i
      /\ \A s \in Runs, y \in Workers : s # r \/ y # w => work'[s][y] = work[s][y]
  BY <1>1, SetInSets
<1>3. WorkersFit'
  <2> SUFFICES ASSUME NEW s \in Runs, NEW y \in Workers
               PROVE  work'[s][y] = None \/ WorkFits(graph[s], work'[s][y])
    BY DEF WorkersFit
  <2> QED BY <1>2 DEF RouteInv, WorkersFit
<1> QED BY <1>2, <1>3

\* A context is answered.
LEMMA ContextAnswered ==
  ASSUME RouteInv, NEW r \in Runs, NEW c \in Contexts, NEW e, Genuine(e, c),
         used' = SetIn(used, r, c, e), answers' = SetIn(answers, r, c, Routed(graph[r], c)),
         graph' = graph, stored' = stored
  PROVE  EntriesGenuine' /\ AnswersRight' /\ IsTable(used', Contexts) /\ IsTable(answers', Contexts)
<1>1. IsTable(used, Contexts) /\ IsTable(answers, Contexts)
  BY DEF RouteInv, RouteTables
<1>2. /\ IsTable(used', Contexts) /\ used'[r][c] = e
      /\ \A s \in Runs, y \in Contexts : s # r \/ y # c => used'[s][y] = used[s][y]
  BY <1>1, SetInSets
<1>3. /\ IsTable(answers', Contexts) /\ answers'[r][c] = Routed(graph[r], c)
      /\ \A s \in Runs, y \in Contexts : s # r \/ y # c => answers'[s][y] = answers[s][y]
  BY <1>1, SetInSets
<1>4. EntriesGenuine'
  <2>1. ASSUME NEW s \in Runs, NEW y \in Contexts PROVE Genuine(used'[s][y], y)
    BY <1>2 DEF RouteInv, EntriesGenuine, AllGenuine
  <2> QED BY <2>1 DEF RouteInv, EntriesGenuine, AllGenuine
<1>5. AnswersRight'
  <2> SUFFICES ASSUME NEW s \in Runs, NEW y \in Contexts
               PROVE  answers'[s][y] = None \/ answers'[s][y] = Routed(graph[s], y)
    BY DEF AnswersRight
  <2> QED BY <1>3 DEF RouteInv, AnswersRight
<1> QED BY <1>2, <1>3, <1>4, <1>5

LEMMA HitKeepsRouteInv ==
  ASSUME RouteInv, NEW r \in Runs, NEW w \in Workers, NEW c \in Contexts,
         Hit(r, w, c) \/ RouteUnsnapped(r, w, c)
  PROVE  RouteInv'
<1>1. graph[r] \in Opened
  BY DEF RouteInv, RouteTables
<1>2. \E e : /\ Genuine(e, c) /\ used' = SetIn(used, r, c, e)
             /\ answers' = SetIn(answers, r, c, Routed(graph[r], c))
  <2>1. CASE Hit(r, w, c)
    <3>1. Genuine(stored[r][c], c) /\ Restorable(stored[r][c], graph[r])
      BY <2>1 DEF Hit, RouteInv, EntriesGenuine, AllGenuine
    <3>2. Restored(stored[r][c], graph[r]) = Routed(graph[r], c)
      BY <1>1, <3>1, HitIsRouting
    <3> QED BY <2>1, <3>1, <3>2 DEF Hit
  <2>2. CASE RouteUnsnapped(r, w, c)
    <3>1. Edge(c) \notin graph[r]
      BY <2>2 DEF RouteUnsnapped
    <3>2. Genuine(Entry(graph[r], Edge(c), {}, {}), c)
      BY <1>1, <3>1, UnsnappedIsGenuine
    <3>3. Unsnapped = Routed(graph[r], c)
      BY <3>1 DEF Routed
    <3> QED BY <2>2, <3>2, <3>3 DEF RouteUnsnapped
  <2> QED BY <2>1, <2>2
<1>3. UNCHANGED <<pc, graph, stored, cut, threadEnd, work, fileVars>>
  BY DEF Hit, RouteUnsnapped
<1>4. EntriesGenuine' /\ AnswersRight' /\ IsTable(used', Contexts) /\ IsTable(answers', Contexts)
  BY <1>2, <1>3, ContextAnswered
<1>5. ThreadsRight' /\ WorkersFit' /\ FilesGenuine' /\ IsTable(threadEnd', Steps) /\ IsTable(work', Workers)
  BY <1>3 DEF RouteInv, RouteTables, ThreadsRight, WorkersFit, FilesGenuine, fileVars
<1> QED BY <1>3, <1>4, <1>5 DEF RouteInv, RouteTables

\* What a worker comes to by its own walk fits.
LEMMA MoveKeepsRouteInv ==
  ASSUME RouteInv, NEW r \in Runs, NEW w \in Workers, NEW i, WorkFits(graph[r], i),
         work' = SetIn(work, r, w, i), UNCHANGED <<runVars, used, threadEnd, fileVars>>
  PROVE  RouteInv'
<1>1. UNCHANGED <<graph, stored, answers, used, threadEnd, open, path, temporary>>
  BY DEF runVars, fileVars
<1>2. WorkersFit' /\ IsTable(work', Workers)
  BY <1>1, WorkerMoves
<1>3. EntriesGenuine' /\ AnswersRight' /\ ThreadsRight' /\ FilesGenuine'
  BY <1>1 DEF RouteInv, EntriesGenuine, AllGenuine, AnswersRight, ThreadsRight, FilesGenuine
<1> QED BY <1>1, <1>2, <1>3 DEF RouteInv, RouteTables

LEMMA StartKeepsRouteInv ==
  ASSUME RouteInv, NEW r \in Runs, NEW w \in Workers, NEW c \in Contexts, StartWalk(r, w, c)
  PROVE  RouteInv'
<1> DEFINE i == [context |-> c, side |-> "left", step |-> <<c[2], c[1]>>, visited |-> {},
                 read |-> Edge(c), box |-> {}, result |-> None, ends |-> {}]
<1>1. work' = SetIn(work, r, w, i) /\ Edge(c) \in graph[r] /\ UNCHANGED <<runVars, used, threadEnd, fileVars>>
  BY DEF StartWalk
<1>2. graph[r] \in Opened
  BY DEF RouteInv, RouteTables
<1>3. Edge(c) \in SUBSET Nodes /\ EdgeStep(graph[r], Back(c))
  BY <1>1, ContextIsStep
<1>4. UnderWay(graph[r], Back(c), Back(c), {}, {})
  BY <1>2, <1>3, StartsUnderWay
<1>5. WorkFits(graph[r], i)
  BY <1>1, <1>3, <1>4 DEF WorkFits, ItemFields, First, Back
<1> HIDE DEF i
<1> QED BY <1>1, <1>5, MoveKeepsRouteInv

\* A walk goes on, or finds its end: by a walk that went through here, round a
\* cycle, or where there is no single onward step.
LEMMA WalkKeepsRouteInv ==
  ASSUME RouteInv, NEW r \in Runs, NEW w \in Workers,
         HitThread(r, w) \/ CloseCycle(r, w) \/ StepOn(r, w) \/ EndThread(r, w)
  PROVE  RouteInv'
<1> DEFINE g == graph[r]
           i == work[r][w]
           first == First(i)
           at == i.step
<1>1. /\ g \in Opened /\ WorkFits(g, i) /\ UnderWay(g, first, at, i.visited, i.box)
      /\ EdgeStep(g, first) /\ i.box \in SUBSET Nodes /\ DOMAIN i = ItemFields
      /\ at \in Steps
      /\ UNCHANGED <<runVars, used, threadEnd, fileVars>>
  <2>1. work[r][w] # None /\ work[r][w].result = None /\ UNCHANGED <<runVars, used, threadEnd, fileVars>>
    BY DEF HitThread, CloseCycle, StepOn, EndThread, OnNew, Walking
  <2>2. g \in Opened /\ WorkFits(g, i)
    BY <2>1 DEF RouteInv, RouteTables, WorkersFit
  <2>3. UnderWay(g, first, at, i.visited, i.box) /\ EdgeStep(g, first)
    BY <2>1, <2>2, FirstIsEdge DEF WorkFits
  <2>4. at \in Steps
    BY <2>2, <2>3, VisitedAreEdges
  <2> QED BY <2>1, <2>2, <2>3, <2>4 DEF WorkFits
<1>2. \A j : /\ j.visited = i.visited \cup {at} /\ j.box = Box(i.box \cup {at[2]}) => j.box \in SUBSET Nodes
  <2>1. i.box \cup {at[2]} \in SUBSET Nodes
    BY <1>1, StepIsPair
  <2> QED BY <2>1, BoxCovers
<1>3. \E j : WorkFits(g, j) /\ work' = SetIn(work, r, w, j)
  <2>1. CASE HitThread(r, w)
    <3> DEFINE t == threadEnd[r][at]
               j == [i EXCEPT !.result = t.end, !.box = Box(@ \cup t.box)]
    <3>1. ThreadFits(g, at, t) /\ work' = SetIn(work, r, w, j)
      BY <1>1, <2>1 DEF HitThread, At, RouteInv, ThreadsRight
    <3>2. t.box \in SUBSET Nodes /\ Passed(g, at) \subseteq t.box /\ t.end = End(g, at)
      BY <3>1 DEF ThreadFits
    <3>3. Arrived(g, first, i.visited, t.end, Box(i.box \cup t.box)) /\ Box(i.box \cup t.box) \in SUBSET Nodes
      <4>1. i.box \cup t.box \in SUBSET Nodes
        BY <1>1, <3>2
      <4> HIDE DEF g, i, first, at, t
      <4>2. Arrived(g, first, i.visited, End(g, at), Box(i.box \cup t.box))
        BY <1>1, <3>2, ArrivesAtThread
      <4> QED BY <3>2, <4>1, <4>2, BoxCovers
    <3>4. Continues(i, j) /\ j.visited = i.visited /\ j.result = t.end /\ j.box = Box(i.box \cup t.box)
      BY <1>1, <3>3 DEF Continues, ItemFields
    <3> HIDE DEF j, t
    <3> QED BY <1>1, <3>1, <3>3, <3>4, ArrivalFits
  <2>2. CASE CloseCycle(r, w)
    <3> DEFINE result == <<Min({s[2] : s \in i.visited}), TRUE>>
               j == [i EXCEPT !.result = result]
    <3>1. PICK v \in i.visited : v[2] = at[2]
      BY <2>2 DEF CloseCycle, At
    <3>2. work' = SetIn(work, r, w, j)
      BY <2>2 DEF CloseCycle, At
    <3>3. Arrived(g, first, i.visited, result, i.box)
      BY <1>1, <3>1, ArrivesAtStart
    <3>4. Continues(i, j) /\ j.visited = i.visited /\ j.result = result /\ j.box = i.box
      BY <1>1 DEF Continues, ItemFields
    <3> HIDE DEF j, result
    <3> QED BY <1>1, <3>2, <3>3, <3>4, ArrivalFits
  <2>3. CASE StepOn(r, w)
    <3>1. PICK next : /\ GoesTo(g, at, next)
                      /\ work' = SetIn(work, r, w, [Visiting(r, w) EXCEPT !.step = next])
      BY <2>3 DEF StepOn, At, GoesTo
    <3> DEFINE j == [Visiting(r, w) EXCEPT !.step = next]
    <3>2. \A s \in i.visited : s[2] # at[2]
      BY <2>3 DEF StepOn, OnNew, At
    <3>3. UnderWay(g, first, next, i.visited \cup {at}, Box(i.box \cup {at[2]}))
      BY <1>1, <3>1, <3>2, StepsOn
    <3>4. i.result = None
      BY <2>3 DEF StepOn, OnNew, Walking
    <3>5. /\ DOMAIN j = ItemFields /\ j.context = i.context /\ j.side = i.side /\ j.read = i.read /\ j.ends = i.ends
          /\ j.visited = i.visited \cup {at} /\ j.box = Box(i.box \cup {at[2]}) /\ j.result = None /\ j.step = next
      BY <1>1, <3>4 DEF ItemFields, Visiting, At
    <3> HIDE DEF j
    <3>6. Continues(i, j)
      BY <1>2, <3>5 DEF Continues
    <3>7. WorkFits(g, j)
      BY <1>1, <3>3, <3>5, <3>6, UnderWayFits
    <3> QED BY <3>1, <3>7 DEF j
  <2>4. CASE EndThread(r, w)
    <3> DEFINE result == <<at[2], FALSE>>
               j == [Visiting(r, w) EXCEPT !.result = result]
    <3>1. work' = SetIn(work, r, w, j) /\ ~OneOnward(g, at)
      BY <2>4 DEF EndThread, At, OneOnward
    <3>2. Arrived(g, first, i.visited \cup {at}, result, Box(i.box \cup {at[2]}))
      BY <1>1, <3>1, ArrivesAtLast
    <3>3. /\ DOMAIN j = ItemFields /\ j.context = i.context /\ j.side = i.side /\ j.read = i.read /\ j.ends = i.ends
          /\ j.visited = i.visited \cup {at} /\ j.box = Box(i.box \cup {at[2]}) /\ j.result = result
      BY <1>1 DEF ItemFields, Visiting, At
    <3> HIDE DEF j, result
    <3>4. Continues(i, j)
      BY <1>2, <3>3 DEF Continues
    <3> QED BY <1>1, <3>1, <3>2, <3>3, <3>4, ArrivalFits
  <2> QED BY <2>1, <2>2, <2>3, <2>4
<1> QED BY <1>1, <1>3, MoveKeepsRouteInv

LEMMA TurnKeepsRouteInv ==
  ASSUME RouteInv, NEW r \in Runs, NEW w \in Workers, TurnAround(r, w)
  PROVE  RouteInv'
<1> DEFINE g == graph[r]
           i == work[r][w]
           c == i.context
           j == [i EXCEPT !.side = "right", !.step = i.context, !.box = {},
                          !.read = @ \cup i.box, !.ends = {i.result}, !.result = None]
<1>1. /\ i # None /\ i.result # None /\ i.visited = {} /\ i.side = "left" /\ work' = SetIn(work, r, w, j)
      /\ UNCHANGED <<runVars, used, threadEnd, fileVars>>
  BY DEF TurnAround, Ended
<1>2. g \in Opened /\ WorkFits(g, i)
  BY <1>1 DEF RouteInv, RouteTables, WorkersFit
<1>3. /\ DOMAIN i = ItemFields /\ c \in Contexts /\ Edge(c) \in g /\ i.read \in SUBSET Nodes /\ i.box \in SUBSET Nodes
      /\ Edge(c) \subseteq i.read /\ Arrived(g, Back(c), {}, i.result, i.box)
  BY <1>1, <1>2 DEF WorkFits, First
<1>4. i.result = End(g, Back(c)) /\ Passed(g, Back(c)) \subseteq i.box
  BY <1>3 DEF Arrived
<1>5. /\ DOMAIN j = ItemFields /\ j.context = c /\ j.side = "right" /\ j.step = c /\ j.visited = {} /\ j.box = {}
      /\ j.read = i.read \cup i.box /\ j.ends = {i.result} /\ j.result = None
  BY <1>1, <1>3 DEF ItemFields
<1>6. UnderWay(g, c, c, {}, {})
  BY <1>2, <1>3, ContextIsStep, StartsUnderWay
<1>7. WorkFits(g, j)
  <2> HIDE DEF j, c
  <2>1. First(j) = c
    BY <1>5 DEF First
  <2> QED BY <1>3, <1>4, <1>5, <1>6, <2>1 DEF WorkFits
<1> HIDE DEF j
<1> QED BY <1>1, <1>7, MoveKeepsRouteInv

LEMMA PublishKeepsRouteInv ==
  ASSUME RouteInv, NEW r \in Runs, NEW w \in Workers, NEW s \in Steps, Publish(r, w, s)
  PROVE  RouteInv'
<1> DEFINE g == graph[r]
           i == work[r][w]
           t == [end |-> i.result, box |-> i.box]
           j == [i EXCEPT !.visited = @ \ {s}]
<1>1. /\ i # None /\ i.result # None /\ s \in i.visited /\ work' = SetIn(work, r, w, j)
      /\ threadEnd' = IF threadEnd[r][s] # None THEN threadEnd ELSE SetIn(threadEnd, r, s, t)
      /\ UNCHANGED <<graph, stored, used, answers, open, path, temporary>>
  BY DEF Publish, Ended, runVars, fileVars
<1>2. g \in Opened /\ WorkFits(g, i)
  BY <1>1 DEF RouteInv, RouteTables, WorkersFit
<1>3. Arrived(g, First(i), i.visited, i.result, i.box) /\ i.box \in SUBSET Nodes /\ DOMAIN i = ItemFields
  BY <1>1, <1>2 DEF WorkFits
<1>4. ThreadFits(g, s, t)
  BY <1>1, <1>3 DEF Arrived, ThreadFits
<1>5. Continues(i, j) /\ j.visited = i.visited \ {s} /\ j.result = i.result /\ j.box = i.box
  BY <1>3 DEF Continues, ItemFields
<1> HIDE DEF j, t
<1>6. Arrived(g, First(i), j.visited, j.result, j.box)
  BY <1>3, <1>5 DEF Arrived
<1>7. WorkFits(g, j)
  BY <1>2, <1>5, <1>6, ArrivalFits
<1>8. WorkersFit' /\ IsTable(work', Workers)
  BY <1>1, <1>7, WorkerMoves
<1>9. ThreadsRight' /\ IsTable(threadEnd', Steps)
  <2>1. IsTable(threadEnd, Steps)
    BY DEF RouteInv, RouteTables
  <2>2. CASE threadEnd[r][s] # None
    BY <1>1, <2>1, <2>2 DEF RouteInv, ThreadsRight
  <2>3. CASE threadEnd[r][s] = None
    <3>1. /\ IsTable(threadEnd', Steps) /\ threadEnd'[r][s] = t
          /\ \A q \in Runs, y \in Steps : q # r \/ y # s => threadEnd'[q][y] = threadEnd[q][y]
      BY <1>1, <2>1, <2>3, SetInSets
    <3>2. ASSUME NEW q \in Runs, NEW y \in Steps
          PROVE  threadEnd'[q][y] = None \/ ThreadFits(graph[q], y, threadEnd'[q][y])
      BY <1>4, <3>1 DEF RouteInv, ThreadsRight
    <3> QED BY <1>1, <3>1, <3>2 DEF ThreadsRight
  <2> QED BY <2>2, <2>3
<1>10. EntriesGenuine' /\ AnswersRight' /\ FilesGenuine'
  BY <1>1 DEF RouteInv, EntriesGenuine, AllGenuine, AnswersRight, FilesGenuine
<1> QED BY <1>1, <1>8, <1>9, <1>10 DEF RouteInv, RouteTables

\* The second walk is over: both ends, and everything both walks passed, are known.
LEMMA RememberKeepsRouteInv ==
  ASSUME RouteInv, NEW r \in Runs, NEW w \in Workers, Remember(r, w)
  PROVE  RouteInv'
<1> DEFINE g == graph[r]
           i == work[r][w]
           c == i.context
           ends == i.ends \cup {i.result}
           e == Entry(g, i.read \cup i.box, ends, Edge(c))
<1>1. /\ i # None /\ i.result # None /\ i.visited = {} /\ i.side = "right"
      /\ answers' = SetIn(answers, r, c, [ends |-> ends, snap |-> EdgeIndex(g, Edge(c))])
      /\ used' = SetIn(used, r, c, e) /\ work' = SetIn(work, r, w, None)
      /\ UNCHANGED <<graph, stored, threadEnd, open, path, temporary>>
  BY DEF Remember, Ended, fileVars
<1>2. g \in Opened /\ WorkFits(g, i)
  BY <1>1 DEF RouteInv, RouteTables, WorkersFit
<1>3. /\ c \in Contexts /\ Edge(c) \in g /\ i.read \in SUBSET Nodes /\ i.box \in SUBSET Nodes
      /\ Edge(c) \subseteq i.read /\ Arrived(g, c, {}, i.result, i.box)
      /\ i.ends = {End(g, Back(c))} /\ Passed(g, Back(c)) \subseteq i.read
  BY <1>1, <1>2 DEF WorkFits, First
<1>4. i.result = End(g, c) /\ Passed(g, c) \subseteq i.box
  BY <1>3 DEF Arrived
<1>5. ends = {End(g, c), End(g, Back(c))}
  BY <1>3, <1>4
<1>6. Genuine(e, c)
  <2> DEFINE read == i.read \cup i.box
  <2>1. read \in SUBSET Nodes /\ Edge(c) \cup Passed(g, c) \cup Passed(g, Back(c)) \subseteq read
    BY <1>3, <1>4
  <2> HIDE DEF read, c, g
  <2>2. Genuine(Entry(g, read, {End(g, c), End(g, Back(c))}, Edge(c)), c)
    BY <1>2, <1>3, <2>1, RoutedIsGenuine
  <2> QED BY <1>5, <2>2 DEF read
<1>7. Routed(g, c) = [ends |-> ends, snap |-> EdgeIndex(g, Edge(c))]
  BY <1>3, <1>5 DEF Routed, Back
<1>8. answers' = SetIn(answers, r, c, Routed(g, c))
  BY <1>1, <1>7
<1> HIDE DEF e, c
<1>9. EntriesGenuine' /\ AnswersRight' /\ IsTable(used', Contexts) /\ IsTable(answers', Contexts)
  BY <1>1, <1>3, <1>6, <1>8, ContextAnswered
<1>10. WorkersFit' /\ IsTable(work', Workers)
  BY <1>1, WorkerMoves
<1>11. ThreadsRight' /\ FilesGenuine'
  BY <1>1 DEF RouteInv, ThreadsRight, FilesGenuine
<1> QED BY <1>1, <1>9, <1>10, <1>11 DEF RouteInv, RouteTables

\* A step of saving or loading leaves routing as it is.
LEMMA FilesKeepRouteInv ==
  ASSUME RouteInv, UNCHANGED <<graph, answers, threadEnd, work>>, DOMAIN stored' = Runs, IsTable(used', Contexts),
         \A r \in Runs : AllGenuine(stored'[r]) /\ AllGenuine(used'[r]), FilesGenuine'
  PROVE  RouteInv'
<1>1. EntriesGenuine' /\ AnswersRight' /\ ThreadsRight' /\ WorkersFit'
  BY DEF RouteInv, EntriesGenuine, AllGenuine, AnswersRight, ThreadsRight, WorkersFit
<1>2. RouteTables'
  BY DEF RouteInv, RouteTables
<1> QED BY <1>1, <1>2 DEF RouteInv

\* Entries that are forgotten, or left alone, are genuine.
LEMMA ForgettingKeepsEntries ==
  ASSUME RouteInv, NEW r \in Runs, ForgetEntries(r) \/ UNCHANGED <<stored, used>>
  PROVE  DOMAIN stored' = Runs /\ IsTable(used', Contexts) /\ \A s \in Runs : AllGenuine(stored'[s]) /\ AllGenuine(used'[s])
<1>1. AllGenuine(Nothing) /\ DOMAIN Nothing = Contexts
  BY DEF AllGenuine, Nothing, Genuine
<1>2. DOMAIN stored = Runs /\ IsTable(used, Contexts) /\ \A s \in Runs : AllGenuine(stored[s]) /\ AllGenuine(used[s])
  BY DEF RouteInv, RouteTables, EntriesGenuine
<1>3. CASE ForgetEntries(r)
  <2>1. stored' = [stored EXCEPT ![r] = Nothing] /\ used' = [used EXCEPT ![r] = Nothing]
    BY <1>3 DEF ForgetEntries, Set
  <2> HIDE DEF Nothing
  <2>2. DOMAIN stored' = Runs /\ DOMAIN used' = Runs
    BY <1>2, <2>1 DEF IsTable
  <2>3. ASSUME NEW s \in Runs PROVE stored'[s] \in {stored[s], Nothing} /\ used'[s] \in {used[s], Nothing}
    BY <1>2, <2>1 DEF IsTable
  <2> QED BY <1>1, <1>2, <2>2, <2>3 DEF IsTable
<1>4. CASE UNCHANGED <<stored, used>>
  BY <1>2, <1>4 DEF AllGenuine
<1> QED BY <1>3, <1>4

\* A run that starts over has found nothing that could be wrong.
LEMMA StartingOverKeepsRouteInv ==
  ASSUME RouteInv, NEW r \in Runs, NEW g \in Opened, StartsOver(r, g), DOMAIN stored' = Runs, IsTable(used', Contexts),
         \A s \in Runs : AllGenuine(stored'[s]) /\ AllGenuine(used'[s]), FilesGenuine'
  PROVE  RouteInv'
<1>0. /\ graph \in [Runs -> Opened] /\ IsTable(answers, Contexts) /\ IsTable(threadEnd, Steps) /\ IsTable(work, Workers)
      /\ AnswersRight /\ ThreadsRight /\ WorkersFit
  BY DEF RouteInv, RouteTables
<1>1. /\ graph' = [graph EXCEPT ![r] = g] /\ answers' = [answers EXCEPT ![r] = Nothing]
      /\ threadEnd' = [threadEnd EXCEPT ![r] = NoWalks] /\ work' = [work EXCEPT ![r] = NoWork]
  BY DEF StartsOver, Set
<1>2. /\ DOMAIN Nothing = Contexts /\ (\A c \in Contexts : Nothing[c] = None)
      /\ DOMAIN NoWalks = Steps /\ (\A s \in Steps : NoWalks[s] = None)
      /\ DOMAIN NoWork = Workers /\ (\A w \in Workers : NoWork[w] = None)
  BY DEF Nothing, NoWalks, NoWork
<1>3. graph' \in [Runs -> Opened] /\ graph'[r] = g /\ \A s \in Runs : s # r => graph'[s] = graph[s]
  BY <1>0, <1>1
<1>4. /\ DOMAIN answers' = Runs /\ answers'[r] = Nothing /\ \A s \in Runs : s # r => answers'[s] = answers[s]
      /\ DOMAIN threadEnd' = Runs /\ threadEnd'[r] = NoWalks /\ \A s \in Runs : s # r => threadEnd'[s] = threadEnd[s]
      /\ DOMAIN work' = Runs /\ work'[r] = NoWork /\ \A s \in Runs : s # r => work'[s] = work[s]
  BY <1>0, <1>1 DEF IsTable
<1>5. RouteTables'
  BY <1>0, <1>2, <1>3, <1>4 DEF RouteTables, IsTable
<1>6. AnswersRight'
  BY <1>0, <1>2, <1>3, <1>4 DEF AnswersRight
<1>7. ThreadsRight'
  BY <1>0, <1>2, <1>3, <1>4 DEF ThreadsRight
<1>8. WorkersFit'
  BY <1>0, <1>2, <1>3, <1>4 DEF WorkersFit
<1>9. EntriesGenuine'
  BY DEF EntriesGenuine, AllGenuine
<1> QED BY <1>5, <1>6, <1>7, <1>8, <1>9 DEF RouteInv

LEMMA FailKeepsRouteInv ==
  ASSUME RouteInv, NEW r \in Runs, NEW w \in Workers, NEW c \in Contexts, HitFails(r, w, c)
  PROVE  RouteInv'
<1>1. UNCHANGED <<open, path, temporary>> /\ StartsOver(r, NoGraph) /\ ForgetEntries(r)
  BY DEF HitFails, fileVars
<1>2. FilesGenuine'
  BY <1>1 DEF RouteInv, FilesGenuine, AllGenuine
<1>3. NoGraph \in Opened
  BY DEF Opened
<1> QED BY <1>1, <1>2, <1>3, ForgettingKeepsEntries, StartingOverKeepsRouteInv

LEMMA RouteStep == RouteInv /\ FileInv /\ [Next]_vars => RouteInv'
<1> SUFFICES ASSUME RouteInv, FileInv, [Next]_vars PROVE RouteInv'
  OBVIOUS
<1>0. /\ DOMAIN stored = Runs /\ (\A r \in Runs : AllGenuine(stored[r]) /\ AllGenuine(used[r])) /\ FilesGenuine
      /\ open \in [Runs -> {"no", "temporary", "path", "replaced"}]
  BY DEF RouteInv, RouteTables, EntriesGenuine, FileInv, FileTyped
<1>1. ASSUME NEW r \in Runs, Load(r) PROVE RouteInv'
  <2>1. /\ UNCHANGED <<used, open, path, temporary>>
        /\ \E read \in Reads(path) : stored' = [stored EXCEPT ![r] = read.entries]
    BY <1>1 DEF Load, fileVars, Set
  <2>2. AllGenuine(Nothing)
    BY DEF AllGenuine, Nothing, Genuine
  <2>3. DOMAIN stored' = Runs /\ \A s \in Runs : AllGenuine(stored'[s])
    <3>1. PICK read \in Reads(path) : stored' = [stored EXCEPT ![r] = read.entries]
      BY <2>1
    <3>2. read.entries = Nothing \/ (path # None /\ read.entries = path.entries)
      BY DEF Reads
    <3> QED BY <1>0, <2>2, <3>1, <3>2 DEF FilesGenuine
  <2>4. FilesGenuine'
    BY <1>0, <2>1 DEF FilesGenuine, AllGenuine
  <2>5. IsTable(used', Contexts) /\ \A s \in Runs : AllGenuine(used'[s])
    BY <1>0, <2>1 DEF RouteInv, RouteTables, IsTable, AllGenuine
  <2>6. PICK g \in Graphs : StartsOver(r, g)
    BY <1>1 DEF Load
  <2>7. g \in Opened
    BY DEF Opened
  <2> QED BY <2>3, <2>4, <2>5, <2>6, <2>7, StartingOverKeepsRouteInv
<1>2. ASSUME NEW r \in Runs, NEW w \in Workers, GetOrRoute(r, w) PROVE RouteInv'
  BY <1>2, HitKeepsRouteInv, FailKeepsRouteInv, StartKeepsRouteInv, WalkKeepsRouteInv, PublishKeepsRouteInv, TurnKeepsRouteInv,
     RememberKeepsRouteInv DEF GetOrRoute
<1>3. ASSUME NEW r \in Runs, FinishRouting(r) \/ SaveCreate(r) \/ SaveWrite(r) \/ SaveBreaks(r) \/ SaveMove(r) \/ SaveFails(r) \/ Kill(r)
      PROVE  RouteInv'
  <2>1. \/ StartsOver(r, NoGraph)
        \/ UNCHANGED <<graph, answers, threadEnd, work>>
    BY <1>3 DEF FinishRouting, SaveCreate, SaveWrite, SaveBreaks, SaveMove, SaveFails, Kill, routeVars
  <2>2. FilesGenuine'
    <3>1. CASE SaveCreate(r)
      <4>1. PICK kept \in SUBSET Contexts :
              temporary' = [entries |-> [c \in Contexts |-> IF c \in kept THEN stored[r][c] ELSE used[r][c]],
                            cut |-> kept \cap cut[r], whole |-> FALSE]
        BY <3>1 DEF SaveCreate
      <4>2. AllGenuine(temporary'.entries)
        BY <1>0, <4>1 DEF AllGenuine
      <4>3. path' = path /\ open' = [open EXCEPT ![r] = "temporary"]
        BY <3>1 DEF SaveCreate, Set
      <4> QED BY <1>0, <4>2, <4>3 DEF FilesGenuine
    <3>2. CASE SaveWrite(r)
      <4>1. /\ temporary' = IF open[r] = "temporary" THEN [temporary EXCEPT !.whole = TRUE] ELSE temporary
            /\ path' = IF open[r] = "path" THEN [path EXCEPT !.whole = TRUE] ELSE path
            /\ open' = [open EXCEPT ![r] = "no"]
        BY <3>2 DEF SaveWrite, Set
      <4>2. /\ open[r] = "temporary" => temporary'.entries = temporary.entries
            /\ open[r] = "path" => path'.entries = path.entries
        BY <4>1 DEF FileInv, FilesThere, IsFile
      <4>3. temporary' = None \/ AllGenuine(temporary'.entries)
        BY <1>0, <4>1, <4>2 DEF FilesGenuine
      <4>4. path' = None \/ AllGenuine(path'.entries)
        BY <1>0, <4>1, <4>2 DEF FilesGenuine
      <4>5. ASSUME NEW s \in Runs PROVE /\ open'[s] = "temporary" => AllGenuine(temporary'.entries)
                                        /\ open'[s] = "path" => AllGenuine(path'.entries)
        <5>1. open'[s] = "temporary" => AllGenuine(temporary'.entries)
          BY <1>0, <4>1, <4>2 DEF FilesGenuine
        <5>2. open'[s] = "path" => AllGenuine(path'.entries)
          BY <1>0, <4>1, <4>2 DEF FilesGenuine
        <5> QED BY <5>1, <5>2
      <4> QED BY <4>3, <4>4, <4>5 DEF FilesGenuine
    <3>3. CASE SaveMove(r)
      <4>1. /\ temporary # None /\ path' = temporary /\ temporary' = None
            /\ open' = [s \in Runs |-> IF open[s] = "temporary" THEN "path" ELSE IF open[s] = "path" THEN "replaced" ELSE open[s]]
        BY <3>3 DEF SaveMove
      <4>2. AllGenuine(path'.entries)
        BY <1>0, <4>1 DEF FilesGenuine
      <4>3. \A s \in Runs : open'[s] # "temporary"
        BY <4>1
      <4> QED BY <4>1, <4>2, <4>3 DEF FilesGenuine
    <3>4. CASE FinishRouting(r) \/ SaveFails(r)
      BY <1>0, <3>4 DEF FinishRouting, SaveFails, fileVars, FilesGenuine, AllGenuine
    <3>5. CASE SaveBreaks(r) \/ Kill(r)
      <4>1. open' = [open EXCEPT ![r] = "no"] /\ UNCHANGED <<path, temporary>>
        BY <3>5 DEF SaveBreaks, Kill, Set
      <4> QED BY <1>0, <4>1 DEF FilesGenuine, AllGenuine
    <3> QED BY <1>3, <3>1, <3>2, <3>3, <3>4, <3>5
  <2>3. ForgetEntries(r) \/ UNCHANGED <<stored, used>>
    BY <1>3 DEF FinishRouting, SaveCreate, SaveWrite, SaveBreaks, SaveMove, SaveFails, Kill, routeVars
  <2>4. NoGraph \in Opened
    BY DEF Opened
  <2> QED BY <2>1, <2>2, <2>3, <2>4, ForgettingKeepsEntries, StartingOverKeepsRouteInv, FilesKeepRouteInv
<1>4. CASE UNCHANGED vars
  <2>1. UNCHANGED <<graph, stored, answers, used, threadEnd, work, open, path, temporary>>
    BY <1>4 DEF vars, runVars, routeVars, fileVars
  <2>2. FilesGenuine'
    BY <1>0, <2>1 DEF FilesGenuine
  <2>3. DOMAIN stored' = Runs /\ IsTable(used', Contexts) /\ \A s \in Runs : AllGenuine(stored'[s]) /\ AllGenuine(used'[s])
    BY <1>0, <2>1 DEF RouteInv, RouteTables, IsTable, AllGenuine
  <2> QED BY <2>1, <2>2, <2>3, FilesKeepRouteInv
<1> QED BY <1>1, <1>2, <1>3, <1>4 DEF Next, Save, Done

\* Whichever worker got to a step first, with whatever part of the walk it found
\* finished, what is remembered for the step is its own walk's end, with a box around
\* all that walk passes: for any graphs, and for cycles as for open threads.
THEOREM ThreadsAgreeFromEveryStart == Spec => []ThreadsAgree
<1>1. RouteInv => ThreadsAgree
  <2> SUFFICES ASSUME RouteInv, NEW r \in Runs, NEW s \in Steps, threadEnd[r][s] # None
               PROVE  \E t \in Threads : /\ t.graph = graph[r] /\ t.step = s
                        /\ threadEnd[r][s].end = t.end /\ t.passed \subseteq threadEnd[r][s].box
    BY DEF ThreadsAgree
  <2> DEFINE t == [graph |-> graph[r], step |-> s, end |-> End(graph[r], s), passed |-> Passed(graph[r], s)]
  <2>1. graph[r] \in Opened /\ ThreadFits(graph[r], s, threadEnd[r][s])
    BY DEF RouteInv, RouteTables, ThreadsRight
  <2>2. t \in Threads
    BY <2>1 DEF Threads
  <2>3. /\ t.graph = graph[r] /\ t.step = s
        /\ threadEnd[r][s].end = t.end /\ t.passed \subseteq threadEnd[r][s].box
    BY <2>1 DEF ThreadFits
  <2> HIDE DEF t
  <2> QED BY <2>2, <2>3
<1>2. Init => RouteInv /\ FileInv
  BY RouteInit, FileInit
<1>3. RouteInv /\ FileInv /\ [Next]_vars => (RouteInv /\ FileInv)'
  BY RouteStep, FileStep
<1> QED BY <1>1, <1>2, <1>3, PTL DEF Spec

\* An entry that any run ever put into a file, of another graph and kept over any
\* number of runs, is used again only for what routing would find now, and evidence
\* put together from the walks of several workers is what one walk alone would find.
THEOREM HitsAreRouting == Spec => []AnswersAreRouting
<1>1. RouteInv => AnswersAreRouting
  BY DEF RouteInv, RouteTables, AnswersRight, AnswersAreRouting, Findings
<1>2. Init => RouteInv /\ FileInv
  BY RouteInit, FileInit
<1>3. RouteInv /\ FileInv /\ [Next]_vars => (RouteInv /\ FileInv)'
  BY RouteStep, FileStep
<1> QED BY <1>1, <1>2, <1>3, PTL DEF Spec
=================================================================================
