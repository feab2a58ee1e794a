--------------------------- MODULE PackageBuildProofs ---------------------------
(***************************************************************************)
(* What PackageBuild promises, for any number of builds.                   *)
(***************************************************************************)
EXTENDS PackageBuild, TLAPS

\* What a build can be at, by stage and outcome.
StageTyped ==
  /\ pc \in [Builds -> Stages]
  /\ outcome \in [Builds -> {"none", "ok", "failed", "unclean", "killed"}]
  /\ bundle \in Builds \cup {None} /\ diagnostics \in Builds \cup {None}
  /\ wants \in [Builds -> BOOLEAN]

\* Only a build that is at its end has an outcome, and only one has the output.
Race ==
  /\ \A b \in Builds : pc[b] \notin {"finally", "ended"} => outcome[b] = "none"
  /\ \A b \in Builds : outcome[b] = "ok" => bundle = b
  /\ \A b \in Builds : bundle = b => outcome[b] # "none"

\* Behind the diagnostics stage, the artefact is there.
Artefact ==
  \A b \in Builds :
    wants[b] /\ (pc[b] \in {"discard", "activate"} \/ bundle = b) => diagnostics = b

StageInv == StageTyped /\ Race /\ Artefact

(***************************************************************************)
(* Every stage that neither activates, fails nor ends the build only moves *)
(* on: from a stage of the conversion to one of the conversion.            *)
(***************************************************************************)
Working == Stages \ {"finally", "ended"}

MovesOn(b) ==
  /\ \E s \in Working \ {"discard", "activate"} : pc' = [pc EXCEPT ![b] = s]
  /\ pc[b] \in Working
  /\ UNCHANGED <<outcome, bundle, diagnostics, wants>>

\* A stage of the compilers or of the package writer moves the build on.
LEMMA StagesMoveOn ==
  ASSUME StageInv, NEW b \in Builds, Compile(b) \/ WritePackage(b)
  PROVE  MovesOn(b) \/ UNCHANGED <<pc, outcome, bundle, diagnostics, wants>>
<1> USE DEF MovesOn, Working, Stages, inputVars, compilerVars, pathVars, Go, Set
<1>1. CASE Begin(b)
  BY <1>1 DEF Begin
<1>2. CASE StartGraph(b)
  BY <1>2 DEF StartGraph
<1>3. CASE Convert(b)
  BY <1>3 DEF Convert
<1>4. CASE AwaitGraph(b)
  BY <1>4 DEF AwaitGraph
<1>5. CASE CaptureEvidence(b)
  BY <1>5 DEF CaptureEvidence
<1>6. CASE EvaluatePosts(b)
  BY <1>6 DEF EvaluatePosts
<1>7. CASE WriteNative(b)
  BY <1>7 DEF WriteNative
<1>8. CASE HandOff(b)
  BY <1>8 DEF HandOff
<1>9. CASE Prepare(b)
  BY <1>9 DEF Prepare
<1>10. CASE \E r \in Relations : MoveNative(b, r)
  BY <1>10 DEF MoveNative
<1>11. CASE \E r \in Relations : WriteRelation(b, r)
  BY <1>11 DEF WriteRelation, Rewrite, Relating
<1>12. CASE \E r \in Relations : WritePart(b, r)
  BY <1>12 DEF WritePart, Rewrite, Relating
<1>13. CASE \E r \in Relations : Concat(b, r)
  BY <1>13 DEF Concat
<1>14. CASE RelationsDone(b)
  BY <1>14 DEF RelationsDone, Rewrite
<1>15. CASE Derive(b)
  BY <1>15 DEF Derive, Rewrite
<1>16. CASE AddShapes(b)
  BY <1>16 DEF AddShapes, Rewrite
<1>17. CASE Project(b)
  BY <1>17 DEF Project, Rewrite
<1>18. CASE WriteManifest(b)
  BY <1>18 DEF WriteManifest, Rewrite
<1>19. CASE Validate(b)
  BY <1>19 DEF Validate, Rewrite
<1> QED
  BY <1>1, <1>2, <1>3, <1>4, <1>5, <1>6, <1>7, <1>8, <1>9, <1>10, <1>11, <1>12, <1>13, <1>14,
     <1>15, <1>16, <1>17, <1>18, <1>19 DEF Compile, WritePackage

LEMMA StageInit == Init => StageInv
  BY NoneAssumption DEF Init, StageInv, StageTyped, Race, Artefact, Stages

LEMMA StageStep == StageInv /\ [Next]_vars => StageInv'
<1> SUFFICES ASSUME StageInv, [Next]_vars PROVE StageInv'
  OBVIOUS
<1> USE NoneAssumption DEF StageInv, StageTyped, Race, Artefact
<1>0. CASE UNCHANGED <<pc, outcome, bundle, diagnostics, wants>>
  BY <1>0
<1>1. ASSUME NEW b \in Builds, MovesOn(b) PROVE StageInv'
  BY <1>1 DEF MovesOn, Working, Stages
<1>2. ASSUME NEW b \in Builds, WriteDiagnostics(b) PROVE StageInv'
  BY <1>2 DEF WriteDiagnostics, Go, Stages, inputVars
<1>3. ASSUME NEW b \in Builds, DiscardScratch(b) PROVE StageInv'
  BY <1>3 DEF DiscardScratch, Go, Stages, inputVars, pathVars
<1>4. ASSUME NEW b \in Builds, Activate(b) PROVE StageInv'
  BY <1>4 DEF Activate, Go, Set, Stages, inputVars
<1>5. ASSUME NEW b \in Builds, ReportFails(b) \/ Finally(b) \/ FinallyCzPtt(b) \/ EvidenceStays(b) \/ DirectoriesStay(b)
      PROVE  StageInv'
  <2>1. CASE ReportFails(b)
    BY <1>5, <2>1 DEF ReportFails, Set, inputVars, pathVars
  <2>2. CASE Finally(b) \/ FinallyCzPtt(b)
    BY <1>5, <2>2 DEF Finally, FinallyCzPtt, Go, Stages, inputVars, pathVars
  <2>3. CASE EvidenceStays(b) \/ DirectoriesStay(b)
    BY <1>5, <2>3 DEF EvidenceStays, DirectoriesStay, Go, Set, Stages, inputVars, pathVars
  <2> QED
    BY <1>5, <2>1, <2>2, <2>3
<1>6. ASSUME NEW b \in Builds, Fail(b) PROVE StageInv'
  BY <1>6 DEF Fail, Go, Set, Stages, inputVars, pathVars
<1>7. ASSUME NEW b \in Builds, Kill(b) PROVE StageInv'
  BY <1>7 DEF Kill, Go, Set, Stages, inputVars, pathVars
<1>8. ASSUME NEW b \in Builds, GraphOpens(b) PROVE StageInv'
  <2>1. UNCHANGED <<pc, outcome, bundle, diagnostics, wants>>
    BY <1>8 DEF GraphOpens, inputVars, pathVars
  <2> QED
    BY <2>1, <1>0
<1>9. ASSUME NEW b \in Builds, Compile(b) \/ WritePackage(b) PROVE StageInv'
  <2>1. MovesOn(b) \/ UNCHANGED <<pc, outcome, bundle, diagnostics, wants>>
    BY <1>9, StagesMoveOn
  <2> QED
    BY <2>1, <1>0, <1>1
<1>10. CASE UNCHANGED vars
  <2>1. UNCHANGED <<pc, outcome, bundle, diagnostics, wants>>
    BY <1>10 DEF vars, inputVars, pathVars
  <2> QED
    BY <2>1, <1>0
<1> QED
  BY <1>2, <1>3, <1>4, <1>5, <1>6, <1>7, <1>8, <1>9, <1>10 DEF Next, Finish, Done

LEMMA StagesSafe == Spec => []StageInv
  BY StageInit, StageStep, PTL DEF Spec

\* The artefact at the diagnostics path is the activated package's own.
THEOREM ArtefactsBelong == Spec => []DiagnosticsBelong
<1>1. StageInv => DiagnosticsBelong
  BY DEF StageInv, Artefact, DiagnosticsBelong
<1> QED
  BY <1>1, StagesSafe, PTL

--------------------------------------------------------------------------------
(***************************************************************************)
(* What a build holds, by its stage.                                       *)
(***************************************************************************)
HoldTyped ==
  /\ kind \in [Builds -> Kinds]
  /\ scratch \in [Builds -> BOOLEAN] /\ production \in [Builds -> BOOLEAN]
  /\ calls \in [Builds -> BOOLEAN] /\ held \in [Builds -> BOOLEAN] /\ evidence \in [Builds -> BOOLEAN]
  /\ graph \in [Builds -> {"none", "opening", "open", "failed", "closed"}]

\* The graph is of the routed compiler only and stays released once it is.
GraphHeld(b) ==
  /\ kind[b] # "routed" => graph[b] = "none" /\ ~held[b] /\ ~evidence[b]
  /\ pc[b] \in {"begin", "openGraph"} => graph[b] = "none" /\ ~held[b]
  /\ pc[b] = "ended" => graph[b] \in {"none", "failed", "closed"} /\ ~held[b]

CallsHeld(b) ==
  calls[b] => Jdf(b) /\ pc[b] \in {"await", "capture", "evaluate", "stream"}

\* Which clean-up a build goes through, and that nothing is left behind a success.
Left(b) ==
  /\ pc[b] = "begin" => ~scratch[b] /\ ~production[b]
  /\ pc[b] \in {"openGraph", "await", "capture", "evaluate"} => kind[b] = "routed"
  /\ pc[b] = "finally" => kind[b] # "overlay"
  /\ pc[b] = "discard" => kind[b] # "czptt"
  /\ pc[b] = "activate" /\ kind[b] # "czptt" => ~scratch[b]
  /\ outcome[b] = "ok" => ~production[b]
  /\ outcome[b] = "ok" /\ kind[b] # "czptt" => ~scratch[b]
  /\ pc[b] = "ended" /\ outcome[b] = "ok" => ~evidence[b]
  /\ pc[b] = "ended" /\ outcome[b] = "ok" /\ kind[b] = "czptt" => ~scratch[b]
  /\ outcome[b] = "failed" /\ kind[b] = "czptt" /\ pc[b] = "ended" => ~scratch[b] /\ ~production[b]
  /\ bundle = b /\ outcome[b] \in {"failed", "unclean"} =>
       kind[b] = "czptt" \/ (kind[b] = "routed" /\ outcome[b] = "unclean" /\ evidence[b])

Held == \A b \in Builds : GraphHeld(b) /\ CallsHeld(b) /\ Left(b)

LEMMA HoldInit == Init => HoldTyped /\ Held
  BY NoneAssumption DEF Init, HoldTyped, Held, GraphHeld, CallsHeld, Left, Kinds

\* The package writer's steps on the rows of a package hold nothing: they only move
\* the build on within the package writer.
Writing == {"relations", "derive", "shapes", "project", "manifest", "validate", "diagnose"}

WritesOn(b) ==
  /\ pc[b] \in Writing
  /\ \E s \in Writing : pc' = [pc EXCEPT ![b] = s]
  /\ UNCHANGED <<kind, outcome, scratch, calls, graph, held, evidence, production, bundle>>

RowStep(b) ==
  \/ \E r \in Relations : MoveNative(b, r) \/ WriteRelation(b, r) \/ WritePart(b, r) \/ Concat(b, r)
  \/ RelationsDone(b) \/ Derive(b) \/ AddShapes(b) \/ Project(b) \/ WriteManifest(b) \/ Validate(b)

LEMMA RowStepsWriteOn ==
  ASSUME StageTyped, NEW b \in Builds, RowStep(b)
  PROVE  WritesOn(b)
<1> USE DEF WritesOn, Writing, StageTyped, inputVars, compilerVars, pathVars, Go, Set, Rewrite, Relating
<1>1. CASE \E r \in Relations : MoveNative(b, r)
  BY <1>1 DEF MoveNative
<1>2. CASE \E r \in Relations : WriteRelation(b, r)
  BY <1>2 DEF WriteRelation
<1>3. CASE \E r \in Relations : WritePart(b, r)
  BY <1>3 DEF WritePart
<1>4. CASE \E r \in Relations : Concat(b, r)
  BY <1>4 DEF Concat
<1>5. CASE RelationsDone(b) \/ Derive(b)
  BY <1>5 DEF RelationsDone, Derive
<1>6. CASE AddShapes(b)
  BY <1>6 DEF AddShapes
<1>7. CASE Project(b) \/ WriteManifest(b) \/ Validate(b)
  BY <1>7 DEF Project, WriteManifest, Validate
<1> QED
  BY <1>1, <1>2, <1>3, <1>4, <1>5, <1>6, <1>7 DEF RowStep

LEMMA HoldStep == StageInv /\ HoldTyped /\ Held /\ [Next]_vars => (HoldTyped /\ Held)'
<1> SUFFICES ASSUME StageInv, HoldTyped, Held, [Next]_vars PROVE (HoldTyped /\ Held)'
  OBVIOUS
<1> USE DEF StageInv, StageTyped, Race, HoldTyped, Held, GraphHeld, CallsHeld, Left, Jdf, Kinds,
            inputVars, compilerVars, pathVars, Go, Set
<1>1. ASSUME NEW b \in Builds, Begin(b) PROVE (HoldTyped /\ Held)'
  BY <1>1 DEF Begin
<1>2. ASSUME NEW b \in Builds, StartGraph(b) PROVE (HoldTyped /\ Held)'
  BY <1>2 DEF StartGraph
<1>3. ASSUME NEW b \in Builds, GraphOpens(b) PROVE (HoldTyped /\ Held)'
  BY <1>3 DEF GraphOpens
<1>4. ASSUME NEW b \in Builds, Convert(b) PROVE (HoldTyped /\ Held)'
  BY <1>4 DEF Convert
<1>5. ASSUME NEW b \in Builds, AwaitGraph(b) PROVE (HoldTyped /\ Held)'
  BY <1>5 DEF AwaitGraph
<1>6. ASSUME NEW b \in Builds, CaptureEvidence(b) PROVE (HoldTyped /\ Held)'
  BY <1>6 DEF CaptureEvidence
<1>7. ASSUME NEW b \in Builds, EvaluatePosts(b) PROVE (HoldTyped /\ Held)'
  BY <1>7 DEF EvaluatePosts
<1>8. ASSUME NEW b \in Builds, WriteNative(b) PROVE (HoldTyped /\ Held)'
  BY <1>8 DEF WriteNative
<1>9. ASSUME NEW b \in Builds, HandOff(b) PROVE (HoldTyped /\ Held)'
  BY <1>9 DEF HandOff
<1>10. ASSUME NEW b \in Builds, Prepare(b) PROVE (HoldTyped /\ Held)'
  BY <1>10 DEF Prepare
<1>11. ASSUME NEW b \in Builds, WriteDiagnostics(b) PROVE (HoldTyped /\ Held)'
  BY <1>11 DEF WriteDiagnostics
<1>12. ASSUME NEW b \in Builds, DiscardScratch(b) PROVE (HoldTyped /\ Held)'
  BY <1>12 DEF DiscardScratch
<1>13. ASSUME NEW b \in Builds, Activate(b) PROVE (HoldTyped /\ Held)'
  BY <1>13 DEF Activate
<1>14. ASSUME NEW b \in Builds, Finally(b) PROVE (HoldTyped /\ Held)'
  BY <1>14 DEF Finally
<1>15. ASSUME NEW b \in Builds, FinallyCzPtt(b) PROVE (HoldTyped /\ Held)'
  BY <1>15 DEF FinallyCzPtt
<1>16. ASSUME NEW b \in Builds, Fail(b) PROVE (HoldTyped /\ Held)'
  BY <1>16 DEF Fail
<1>17. ASSUME NEW b \in Builds, Kill(b) PROVE (HoldTyped /\ Held)'
  BY <1>17 DEF Kill
<1>20. ASSUME NEW b \in Builds, ReportFails(b) PROVE (HoldTyped /\ Held)'
  BY <1>20 DEF ReportFails
<1>21. ASSUME NEW b \in Builds, EvidenceStays(b) PROVE (HoldTyped /\ Held)'
  BY <1>21 DEF EvidenceStays
<1>22. ASSUME NEW b \in Builds, DirectoriesStay(b) PROVE (HoldTyped /\ Held)'
  <2>1. CASE scratch' = scratch
    BY <1>22, <2>1 DEF DirectoriesStay
  <2>2. CASE scratch' = [scratch EXCEPT ![b] = FALSE]
    BY <1>22, <2>2 DEF DirectoriesStay
  <2> QED
    BY <1>22, <2>1, <2>2 DEF DirectoriesStay
<1>18. ASSUME NEW b \in Builds, RowStep(b) PROVE (HoldTyped /\ Held)'
  <2>1. WritesOn(b)
    BY <1>18, RowStepsWriteOn
  <2> QED
    BY <2>1 DEF WritesOn, Writing
<1>19. CASE UNCHANGED vars
  BY <1>19 DEF vars, compilerVars
<1> QED
  BY <1>1, <1>2, <1>3, <1>4, <1>5, <1>6, <1>7, <1>8, <1>9, <1>10, <1>11, <1>12, <1>13, <1>14, <1>15, <1>16, <1>17, <1>18, <1>19,
     <1>20, <1>21, <1>22 DEF Next, Compile, WritePackage, Finish, Done, RowStep

\* A build that reports success has its package at the output path for ever; one that
\* reports a failure with its package there has failed behind activation, in the
\* report of the CZPTT compiler or in its clean-up, or over evidence left behind.
THEOREM OneBuildSucceeds == Spec => []SuccessStands
<1>1. Init => StageInv /\ HoldTyped /\ Held
  BY StageInit, HoldInit
<1>2. StageInv /\ HoldTyped /\ Held /\ [Next]_vars => (StageInv /\ HoldTyped /\ Held)'
  BY StageStep, HoldStep
<1>3. StageInv /\ Held => SuccessStands
  BY DEF StageInv, Race, Held, Left, SuccessStands
<1> QED
  BY <1>1, <1>2, <1>3, PTL DEF Spec

--------------------------------------------------------------------------------
(***************************************************************************)
(* The native files: written before the package writer starts, and gone    *)
(* when it has been through the relations.                                 *)
(***************************************************************************)
Early == {"begin", "openGraph", "convert", "await", "capture", "evaluate"}
Late == {"derive", "shapes", "project", "manifest", "validate", "diagnose", "discard", "activate"}

Lists == {<<>>, <<"shape", "note">>, <<"note">>, <<"trip", "shape", "note">>}
PackageType ==
  [rows : Content, counts : Content, manifest : Content, zip : Content, todo : Lists, part : BOOLEAN]

NativeTyped ==
  /\ package \in [Builds -> PackageType]
  /\ native \in [Builds -> SUBSET {"trip", "note"}]

NativeBelongs(b) ==
  /\ ~Jdf(b) \/ pc[b] \in Early \cup Late \/ outcome[b] = "ok" => native[b] = {}
  /\ pc[b] \in Early \cup {"stream", "prepare"} => package[b].todo = <<"trip", "shape", "note">>
  /\ pc[b] = "stream" => Jdf(b)
  /\ pc[b] = "relations" =>
       /\ package[b].todo \in {<<"shape", "note">>, <<"note">>} => "trip" \notin native[b]
       /\ package[b].todo = <<>> => native[b] = {}

NativeInv == NativeTyped /\ \A b \in Builds : NativeBelongs(b)

\* A change to one package leaves the others, and stays typed.
LEMMA OnePackage ==
  ASSUME NativeTyped, NEW b \in Builds, NEW new \in PackageType, package' = [package EXCEPT ![b] = new],
         native' \in [Builds -> SUBSET {"trip", "note"}]
  PROVE  NativeTyped' /\ package'[b] = new /\ \A c \in Builds \ {b} : package'[c] = package[c]
  BY DEF NativeTyped

\* The list of the relations to write, one step on.
LEMMA TakesHead ==
  ASSUME NativeTyped, NEW b \in Builds, NEW r \in Relations, Relating(b, r)
  PROVE  \/ package[b].todo = <<"trip", "shape", "note">> /\ r = "trip" /\ Tail(package[b].todo) = <<"shape", "note">>
         \/ package[b].todo = <<"shape", "note">> /\ r = "shape" /\ Tail(package[b].todo) = <<"note">>
         \/ package[b].todo = <<"note">> /\ r = "note" /\ Tail(package[b].todo) = <<>>
<1>1. package[b].todo \in Lists /\ package[b].todo # <<>> /\ r = Head(package[b].todo)
  BY DEF NativeTyped, PackageType, Relating
<1>2. CASE package[b].todo = <<"shape", "note">>
  <2>1. Head(<<"shape", "note">>) = "shape" /\ Tail(<<"shape", "note">>) = <<"note">>
    OBVIOUS
  <2> QED
    BY <1>1, <1>2, <2>1
<1>3. CASE package[b].todo = <<"note">>
  <2>1. Head(<<"note">>) = "note" /\ Tail(<<"note">>) = <<>>
    OBVIOUS
  <2> QED
    BY <1>1, <1>3, <2>1
<1>4. CASE package[b].todo = <<"trip", "shape", "note">>
  <2>1. Head(<<"trip", "shape", "note">>) = "trip" /\ Tail(<<"trip", "shape", "note">>) = <<"shape", "note">>
    OBVIOUS
  <2> QED
    BY <1>1, <1>4, <2>1
<1> QED
  BY <1>1, <1>2, <1>3, <1>4 DEF Lists

\* A relation taken off the list is not among the native ones any more.
LEMMA TakenBelongs ==
  ASSUME NativeTyped, NEW b \in Builds, NEW r \in Relations, NativeBelongs(b), Relating(b, r),
         UNCHANGED <<kind, outcome>>, pc'[b] = "relations",
         package'[b].todo = Tail(package[b].todo), native'[b] = native[b] \ {r}
  PROVE  NativeBelongs(b)'
<1>1. /\ <<"note">> # <<>> /\ <<"shape", "note">> # <<>> /\ <<"trip", "shape", "note">> # <<>>
      /\ <<"shape", "note">> # <<"note">> /\ <<"trip", "shape", "note">> # <<"note">>
      /\ <<"trip", "shape", "note">> # <<"shape", "note">>
  OBVIOUS
<1>2. native[b] \subseteq {"trip", "note"}
  BY DEF NativeTyped
<1>3. /\ ~Jdf(b)' \/ pc'[b] \in Early \cup Late \/ outcome'[b] = "ok" => native'[b] = {}
      /\ pc'[b] \notin Early \cup {"stream", "prepare"}
  BY DEF NativeBelongs, Jdf, Early, Late
<1>4. /\ package'[b].todo \in {<<"shape", "note">>, <<"note">>} => "trip" \notin native'[b]
      /\ package'[b].todo = <<>> => native'[b] = {}
  <2>1. pc[b] = "relations"
    BY DEF Relating
  <2>2. CASE package[b].todo = <<"trip", "shape", "note">> /\ r = "trip" /\ Tail(package[b].todo) = <<"shape", "note">>
    BY <1>1, <2>2
  <2>3. CASE package[b].todo = <<"shape", "note">> /\ r = "shape" /\ Tail(package[b].todo) = <<"note">>
    BY <1>1, <2>1, <2>3 DEF NativeBelongs
  <2>4. CASE package[b].todo = <<"note">> /\ r = "note" /\ Tail(package[b].todo) = <<>>
    BY <1>1, <1>2, <2>1, <2>4 DEF NativeBelongs
  <2> QED
    BY <2>2, <2>3, <2>4, TakesHead
<1> QED
  BY <1>3, <1>4 DEF NativeBelongs

\* Writing one relation keeps the package's type and takes it off the list.
LEMMA WrittenTyped ==
  ASSUME NativeTyped, NEW b \in Builds, NEW r \in Relations, Relating(b, r), NEW rows \in SUBSET Origins
  PROVE  Written(b, r, rows) \in PackageType /\ Written(b, r, rows).todo = Tail(package[b].todo)
<1>1. package[b] \in PackageType
  BY DEF NativeTyped
<1>2. Tail(package[b].todo) \in Lists
  BY TakesHead DEF Lists
<1>3. [package[b].rows EXCEPT ![r] = rows] \in Content /\ [package[b].counts EXCEPT ![r] = rows] \in Content
  BY <1>1 DEF Content, PackageType
<1> HIDE DEF Relating
<1> QED
  BY <1>1, <1>2, <1>3 DEF Written, PackageType

LEMMA NativeInit == Init => NativeInv
  BY DEF Init, NativeInv, NativeTyped, NativeBelongs, NewPackage, Empty, Content, PackageType, Lists, Relations,
         Early, Late

LEMMA NativeStep == StageInv /\ HoldTyped /\ Held /\ NativeInv /\ [Next]_vars => NativeInv'
<1> SUFFICES ASSUME StageInv, HoldTyped, Held, NativeInv, [Next]_vars PROVE NativeInv'
  OBVIOUS
<1> USE DEF StageInv, StageTyped, Race, HoldTyped, NativeInv, NativeTyped, NativeBelongs, Early, Late, Jdf,
            inputVars, compilerVars, pathVars, Go, Set
<1>1. ASSUME NEW b \in Builds, Begin(b) PROVE NativeInv'
  BY <1>1 DEF Begin
<1>2. ASSUME NEW b \in Builds, StartGraph(b) PROVE NativeInv'
  BY <1>2 DEF StartGraph, Held, Left, Kinds
<1>3. ASSUME NEW b \in Builds, GraphOpens(b) PROVE NativeInv'
  BY <1>3 DEF GraphOpens
<1>4. ASSUME NEW b \in Builds, Convert(b) PROVE NativeInv'
  BY <1>4 DEF Convert, Held, Left, Kinds
<1>5. ASSUME NEW b \in Builds, AwaitGraph(b) PROVE NativeInv'
  BY <1>5 DEF AwaitGraph, Held, Left, Kinds
<1>6. ASSUME NEW b \in Builds, CaptureEvidence(b) PROVE NativeInv'
  BY <1>6 DEF CaptureEvidence, Held, Left, Kinds
<1>7. ASSUME NEW b \in Builds, EvaluatePosts(b) PROVE NativeInv'
  BY <1>7 DEF EvaluatePosts, Held, Left, Kinds
<1>8. ASSUME NEW b \in Builds, WriteDiagnostics(b) PROVE NativeInv'
  BY <1>8 DEF WriteDiagnostics
<1>9. ASSUME NEW b \in Builds, DiscardScratch(b) PROVE NativeInv'
  BY <1>9 DEF DiscardScratch
<1>10. ASSUME NEW b \in Builds, Activate(b) PROVE NativeInv'
  BY <1>10 DEF Activate, Held, Left, Kinds
<1>11. ASSUME NEW b \in Builds, Finally(b) PROVE NativeInv'
  BY <1>11 DEF Finally
<1>12. ASSUME NEW b \in Builds, FinallyCzPtt(b) PROVE NativeInv'
  BY <1>12 DEF FinallyCzPtt
<1>13. ASSUME NEW b \in Builds, Fail(b) PROVE NativeInv'
  BY <1>13 DEF Fail
<1>14. ASSUME NEW b \in Builds, Kill(b) PROVE NativeInv'
  BY <1>14 DEF Kill
<1>29. ASSUME NEW b \in Builds, ReportFails(b) \/ EvidenceStays(b) \/ DirectoriesStay(b) PROVE NativeInv'
  BY <1>29 DEF ReportFails, EvidenceStays, DirectoriesStay
<1>15. ASSUME NEW b \in Builds, WriteNative(b) PROVE NativeInv'
  <2>1. native' = [native EXCEPT ![b] = native'[b]] /\ native'[b] \subseteq {"trip", "note"}
    BY <1>15 DEF WriteNative, NativeRelations
  <2>2. UNCHANGED <<kind, pc, outcome, package>> /\ pc[b] = "stream"
    BY <1>15 DEF WriteNative
  <2> QED
    BY <2>1, <2>2
<1>16. ASSUME NEW b \in Builds, HandOff(b) PROVE NativeInv'
  BY <1>16 DEF HandOff
<1>17. ASSUME NEW b \in Builds, Prepare(b) PROVE NativeInv'
  <2> DEFINE ordered == [Empty EXCEPT !["trip"] = {"ordered"}, !["shape"] = {"ordered"}]
             filled == [package[b] EXCEPT !.rows = ordered, !.counts = ordered, !.todo = <<"note">>]
  <2>1. ordered \in Content
    BY DEF Empty, Content, Relations, Origins
  <2>2. package[b] \in PackageType
    OBVIOUS
  <2>3. filled \in PackageType /\ filled.todo = <<"note">>
    BY <2>1, <2>2 DEF PackageType, Lists
  <2>4. package' = IF Jdf(b) THEN package ELSE [package EXCEPT ![b] = filled]
    BY <1>17 DEF Prepare
  <2>5. UNCHANGED <<kind, outcome, native>> /\ pc[b] = "prepare" /\ pc' = [pc EXCEPT ![b] = "relations"]
    BY <1>17 DEF Prepare
  <2> HIDE DEF filled, ordered
  <2>6. CASE Jdf(b)
    <3>1. package' = package
      BY <2>4, <2>6
    <3>2. \A c \in Builds \ {b} : NativeBelongs(c)'
      BY <2>5, <3>1
    <3>3. NativeBelongs(b)'
      <4>1. package[b].todo = <<"trip", "shape", "note">> /\ pc'[b] = "relations"
        BY <2>5
      <4>2. <<"trip", "shape", "note">> \notin {<<"shape", "note">>, <<"note">>, <<>>}
        OBVIOUS
      <4> QED
        BY <2>5, <2>6, <3>1, <4>1, <4>2
    <3> QED
      BY <2>5, <3>1, <3>2, <3>3
  <2>7. CASE ~Jdf(b)
    <3>1. NativeTyped' /\ package'[b] = filled /\ \A c \in Builds \ {b} : package'[c] = package[c]
      BY <2>3, <2>4, <2>5, <2>7, OnePackage
    <3>2. \A c \in Builds \ {b} : NativeBelongs(c)'
      BY <2>5, <3>1
    <3>3. NativeBelongs(b)'
      <4>1. native'[b] = {} /\ pc'[b] = "relations"
        BY <2>5, <2>7
      <4> QED
        BY <4>1
    <3> QED
      BY <3>1, <3>2, <3>3
  <2> QED
    BY <2>6, <2>7
<1>18. ASSUME NEW b \in Builds, NEW r \in Relations, MoveNative(b, r) PROVE NativeInv'
  <2> DEFINE new == Written(b, r, {"compiled"})
  <2>1. Relating(b, r) /\ {"compiled"} \in SUBSET Origins
    BY <1>18 DEF MoveNative, Supplied, Origins
  <2>2. new \in PackageType /\ new.todo = Tail(package[b].todo)
    BY <2>1, WrittenTyped
  <2>3. /\ UNCHANGED <<kind, pc, outcome>> /\ pc[b] = "relations"
        /\ native' = [native EXCEPT ![b] = native[b] \ {r}]
        /\ package' = [package EXCEPT ![b] = new]
    BY <1>18 DEF MoveNative, Relating
  <2> HIDE DEF new
  <2>4. NativeTyped' /\ package'[b] = new /\ \A c \in Builds \ {b} : package'[c] = package[c]
    BY <2>2, <2>3, OnePackage
  <2>5. \A c \in Builds \ {b} : NativeBelongs(c)'
    BY <2>3, <2>4
  <2>6. NativeBelongs(b)'
    <3>1. /\ pc'[b] = "relations" /\ UNCHANGED <<kind, outcome>>
          /\ native'[b] = native[b] \ {r} /\ package'[b].todo = Tail(package[b].todo)
      BY <2>2, <2>3, <2>4
    <3>2. NativeTyped /\ NativeBelongs(b)
      BY DEF NativeInv
    <3> QED
      BY <2>1, <3>1, <3>2, TakenBelongs
  <2> QED
    BY <2>4, <2>5, <2>6
<1>19. ASSUME NEW b \in Builds, NEW r \in Relations, Concat(b, r) PROVE NativeInv'
  <2> DEFINE new == Written(b, r, {"compiled"} \cup Supplied(b, r))
  <2>1. Relating(b, r) /\ {"compiled"} \cup Supplied(b, r) \in SUBSET Origins
    BY <1>19 DEF Concat, Supplied, Origins
  <2>2. new \in PackageType /\ new.todo = Tail(package[b].todo)
    BY <2>1, WrittenTyped
  <2>3. /\ UNCHANGED <<kind, pc, outcome>> /\ pc[b] = "relations"
        /\ native' = [native EXCEPT ![b] = native[b] \ {r}]
        /\ package' = [package EXCEPT ![b] = new]
    BY <1>19 DEF Concat, Relating
  <2> HIDE DEF new
  <2>4. NativeTyped' /\ package'[b] = new /\ \A c \in Builds \ {b} : package'[c] = package[c]
    BY <2>2, <2>3, OnePackage
  <2>5. \A c \in Builds \ {b} : NativeBelongs(c)'
    BY <2>3, <2>4
  <2>6. NativeBelongs(b)'
    <3>1. /\ pc'[b] = "relations" /\ UNCHANGED <<kind, outcome>>
          /\ native'[b] = native[b] \ {r} /\ package'[b].todo = Tail(package[b].todo)
      BY <2>2, <2>3, <2>4
    <3>2. NativeTyped /\ NativeBelongs(b)
      BY DEF NativeInv
    <3> QED
      BY <2>1, <3>1, <3>2, TakenBelongs
  <2> QED
    BY <2>4, <2>5, <2>6
<1>20. ASSUME NEW b \in Builds, NEW r \in Relations, WriteRelation(b, r) PROVE NativeInv'
  <2> DEFINE new == Written(b, r, Supplied(b, r))
  <2>1. Relating(b, r) /\ Supplied(b, r) \in SUBSET Origins
    BY <1>20 DEF WriteRelation, Supplied, Origins
  <2>2. new \in PackageType /\ new.todo = Tail(package[b].todo)
    BY <2>1, WrittenTyped
  <2>3. /\ UNCHANGED <<kind, outcome, native>> /\ pc[b] = "relations" /\ r \notin native[b]
        /\ pc' = [pc EXCEPT ![b] = "relations"]
        /\ package' = [package EXCEPT ![b] = new]
    BY <1>20 DEF WriteRelation, Rewrite, Relating
  <2> HIDE DEF new
  <2>4. NativeTyped' /\ package'[b] = new /\ \A c \in Builds \ {b} : package'[c] = package[c]
    BY <2>2, <2>3, OnePackage
  <2>5. \A c \in Builds \ {b} : NativeBelongs(c)'
    BY <2>3, <2>4
  <2>6. NativeBelongs(b)'
    <3>1. /\ pc'[b] = "relations" /\ UNCHANGED <<kind, outcome>>
          /\ native'[b] = native[b] \ {r} /\ package'[b].todo = Tail(package[b].todo)
      BY <2>2, <2>3, <2>4
    <3>2. NativeTyped /\ NativeBelongs(b)
      BY DEF NativeInv
    <3> QED
      BY <2>1, <3>1, <3>2, TakenBelongs
  <2> QED
    BY <2>4, <2>5, <2>6
<1>21. ASSUME NEW b \in Builds, NEW r \in Relations, WritePart(b, r) PROVE NativeInv'
  <2> DEFINE new == [package[b] EXCEPT !.part = TRUE]
  <2>1. package[b] \in PackageType
    OBVIOUS
  <2>2. new \in PackageType /\ new.todo = package[b].todo
    BY <2>1 DEF PackageType
  <2>3. /\ UNCHANGED <<kind, outcome, native>> /\ pc[b] = "relations" /\ pc' = [pc EXCEPT ![b] = "relations"]
        /\ package' = [package EXCEPT ![b] = new]
    BY <1>21 DEF WritePart, Relating, Rewrite
  <2> HIDE DEF new
  <2>4. NativeTyped' /\ package'[b] = new /\ \A c \in Builds \ {b} : package'[c] = package[c]
    BY <2>2, <2>3, OnePackage
  <2> QED
    BY <2>2, <2>3, <2>4
<1>22. ASSUME NEW b \in Builds, RelationsDone(b) PROVE NativeInv'
  <2>1. package' = package
    BY <1>22 DEF RelationsDone, Rewrite
  <2> QED
    BY <1>22, <2>1 DEF RelationsDone, Rewrite
<1>23. ASSUME NEW b \in Builds, Derive(b) PROVE NativeInv'
  <2> DEFINE new == [package[b] EXCEPT !.rows["routeStop"] = {"derived"}, !.counts["routeStop"] = {"derived"}]
  <2>1. /\ package[b] \in PackageType
        /\ [package[b].rows EXCEPT !["routeStop"] = {"derived"}] \in Content
        /\ [package[b].counts EXCEPT !["routeStop"] = {"derived"}] \in Content
    BY DEF PackageType, Content, Origins
  <2>2. new \in PackageType /\ new.todo = package[b].todo
    BY <2>1 DEF PackageType
  <2>3. /\ UNCHANGED <<kind, outcome, native>> /\ pc[b] = "derive" /\ pc' = [pc EXCEPT ![b] = IF Jdf(b) THEN "project" ELSE "shapes"]
        /\ package' = [package EXCEPT ![b] = new]
    BY <1>23 DEF Derive, Rewrite
  <2> HIDE DEF new
  <2>4. NativeTyped' /\ package'[b] = new /\ \A c \in Builds \ {b} : package'[c] = package[c]
    BY <2>2, <2>3, OnePackage
  <2> QED
    BY <2>2, <2>3, <2>4
<1>24. ASSUME NEW b \in Builds, AddShapes(b) PROVE NativeInv'
  <2>1. PICK found \in {{}, {"routed"}} :
           package' = [package EXCEPT ![b] = [package[b] EXCEPT !.rows["shape"] = @ \cup found,
                                                                !.counts["shape"] = @ \cup found]]
    BY <1>24 DEF AddShapes, Rewrite
  <2> DEFINE new == [package[b] EXCEPT !.rows["shape"] = @ \cup found, !.counts["shape"] = @ \cup found]
  <2>2. /\ package[b] \in PackageType
        /\ [package[b].rows EXCEPT !["shape"] = @ \cup found] \in Content
        /\ [package[b].counts EXCEPT !["shape"] = @ \cup found] \in Content
    BY DEF PackageType, Content, Origins, Relations
  <2>3. new \in PackageType /\ new.todo = package[b].todo
    BY <2>2 DEF PackageType
  <2>4. UNCHANGED <<kind, outcome, native>> /\ pc[b] = "shapes" /\ pc' = [pc EXCEPT ![b] = "project"]
    BY <1>24 DEF AddShapes, Rewrite
  <2>5. package' = [package EXCEPT ![b] = new]
    BY <2>1
  <2> HIDE DEF new
  <2>6. NativeTyped' /\ package'[b] = new /\ \A c \in Builds \ {b} : package'[c] = package[c]
    BY <2>3, <2>4, <2>5, OnePackage
  <2>7. \A c \in Builds \ {b} : NativeBelongs(c)'
    BY <2>4, <2>6
  <2>8. NativeBelongs(b)'
    BY <2>4, <2>6
  <2> QED
    BY <2>6, <2>7, <2>8
<1>25. ASSUME NEW b \in Builds, Project(b) PROVE NativeInv'
  <2> DEFINE new == [package[b] EXCEPT !.zip = package[b].rows]
  <2>1. package[b] \in PackageType
    OBVIOUS
  <2>2. new \in PackageType /\ new.todo = package[b].todo
    BY <2>1 DEF PackageType
  <2>3. /\ UNCHANGED <<kind, outcome, native>> /\ pc[b] = "project" /\ pc' = [pc EXCEPT ![b] = "manifest"]
        /\ package' = [package EXCEPT ![b] = new]
    BY <1>25 DEF Project, Rewrite
  <2> HIDE DEF new
  <2>4. NativeTyped' /\ package'[b] = new /\ \A c \in Builds \ {b} : package'[c] = package[c]
    BY <2>2, <2>3, OnePackage
  <2> QED
    BY <2>2, <2>3, <2>4
<1>26. ASSUME NEW b \in Builds, WriteManifest(b) PROVE NativeInv'
  <2> DEFINE new == [package[b] EXCEPT !.manifest = package[b].counts]
  <2>1. package[b] \in PackageType
    OBVIOUS
  <2>2. new \in PackageType /\ new.todo = package[b].todo
    BY <2>1 DEF PackageType
  <2>3. /\ UNCHANGED <<kind, outcome, native>> /\ pc[b] = "manifest" /\ pc' = [pc EXCEPT ![b] = "validate"]
        /\ package' = [package EXCEPT ![b] = new]
    BY <1>26 DEF WriteManifest, Rewrite
  <2> HIDE DEF new
  <2>4. NativeTyped' /\ package'[b] = new /\ \A c \in Builds \ {b} : package'[c] = package[c]
    BY <2>2, <2>3, OnePackage
  <2> QED
    BY <2>2, <2>3, <2>4
<1>27. ASSUME NEW b \in Builds, Validate(b) PROVE NativeInv'
  <2>1. package' = package
    BY <1>27 DEF Validate, Rewrite
  <2> QED
    BY <1>27, <2>1 DEF Validate, Rewrite
<1>28. CASE UNCHANGED vars
  BY <1>28 DEF vars
<1> QED
  BY <1>1, <1>2, <1>3, <1>4, <1>5, <1>6, <1>7, <1>8, <1>9, <1>10, <1>11, <1>12, <1>13, <1>14, <1>15, <1>16, <1>17, <1>18, <1>19, <1>20, <1>21, <1>22, <1>23, <1>24, <1>25, <1>26, <1>27, <1>28, <1>29 DEF Next, Compile, WritePackage, Finish, Done

\* However a build ends, short of being killed, its graph and call store are released,
\* and a success leaves nothing but the package.
THEOREM NothingHeld == Spec => []EndsTidy
<1>1. Init => StageInv /\ HoldTyped /\ Held /\ NativeInv
  BY StageInit, HoldInit, NativeInit
<1>2. StageInv /\ HoldTyped /\ Held /\ NativeInv /\ [Next]_vars => (StageInv /\ HoldTyped /\ Held /\ NativeInv)'
  BY StageStep, HoldStep, NativeStep
<1>3. StageInv /\ HoldTyped /\ Held /\ NativeInv => EndsTidy
  <2> SUFFICES ASSUME StageInv, HoldTyped, Held, NativeInv, NEW b \in Builds, pc[b] = "ended" PROVE
        /\ graph[b] \in {"none", "failed", "closed"} /\ ~held[b] /\ ~calls[b]
        /\ (outcome[b] = "ok" \/ (kind[b] = "czptt" /\ outcome[b] = "failed")) =>
             ~scratch[b] /\ native[b] = {} /\ ~production[b] /\ ~evidence[b]
    BY DEF EndsTidy
  <2>1. GraphHeld(b) /\ CallsHeld(b) /\ Left(b) /\ NativeBelongs(b)
    BY DEF Held, NativeInv
  <2> QED
    BY <2>1 DEF GraphHeld, CallsHeld, Left, NativeBelongs, Jdf
<1> QED
  BY <1>1, <1>2, <1>3, PTL DEF Spec

--------------------------------------------------------------------------------
(***************************************************************************)
(* What a package holds, by how far its writer has come.                   *)
(***************************************************************************)
\* A relation when it has been written, before shapes are added.
Whole(b, r) ==
  CASE r = "trip" -> {IF Jdf(b) THEN "compiled" ELSE "ordered"}
    [] r = "shape" -> {IF Jdf(b) THEN "generated" ELSE "ordered"}
    [] r = "note" -> Supplied(b, "note") \cup (IF Jdf(b) THEN {"compiled"} ELSE {})
    [] OTHER -> {"derived"}

Relevant(b) == pc[b] \in Late \/ bundle = b

\* What is still to be written of a compiler's own rows is still beside its scratch.
NativeWaits(b) ==
  Jdf(b) =>
    /\ pc[b] = "prepare" => native[b] = {"trip", "note"}
    /\ pc[b] = "relations" =>
         /\ package[b].todo = <<"trip", "shape", "note">> => native[b] = {"trip", "note"}
         /\ package[b].todo \in {<<"shape", "note">>, <<"note">>} => "note" \in native[b]

RelationsFilled(b) ==
  pc[b] = "relations" =>
    /\ ~Jdf(b) => package[b].todo \in {<<"note">>, <<>>}
    /\ package[b].todo # <<"trip", "shape", "note">> => package[b].rows["trip"] = Whole(b, "trip")
    /\ package[b].todo \in {<<"note">>, <<>>} => package[b].rows["shape"] = Whole(b, "shape")
    /\ package[b].todo = <<>> => package[b].rows["note"] = Whole(b, "note")

PackageFilled(b) ==
  /\ package[b].rows = package[b].counts
  /\ Relevant(b) =>
       /\ package[b].rows["trip"] = Whole(b, "trip") /\ package[b].rows["note"] = Whole(b, "note")
       /\ \E found \in {{}, {"routed"}} : package[b].rows["shape"] = Whole(b, "shape") \cup found
  /\ Relevant(b) /\ pc[b] # "derive" => package[b].rows["routeStop"] = {"derived"}
  /\ pc[b] \in {"diagnose", "discard", "activate"} \/ bundle = b =>
       package[b].manifest = package[b].rows /\ package[b].zip = package[b].rows

ContentFits(b) == NativeWaits(b) /\ RelationsFilled(b) /\ PackageFilled(b)
ContentInv == \A b \in Builds : ContentFits(b)

LEMMA ListsDiffer ==
  /\ <<"note">> # <<>> /\ <<"shape", "note">> # <<>> /\ <<"trip", "shape", "note">> # <<>>
  /\ <<"shape", "note">> # <<"note">> /\ <<"trip", "shape", "note">> # <<"note">>
  /\ <<"trip", "shape", "note">> # <<"shape", "note">>
OBVIOUS

LEMMA ContentInit == Init => ContentInv
<1> SUFFICES ASSUME Init, NEW b \in Builds PROVE ContentFits(b)
  BY DEF ContentInv
<1> QED
  BY NoneAssumption DEF Init, ContentFits, NativeWaits, RelationsFilled, PackageFilled, Relevant, Late, NewPackage

\* Only what a build is, where it is, its package and the output path matter.
LEMMA ContentStays ==
  ASSUME NEW b \in Builds, ContentFits(b), kind'[b] = kind[b], pc'[b] = pc[b], package'[b] = package[b],
         native'[b] = native[b], bundle' = b => bundle = b
  PROVE  ContentFits(b)'
BY DEF ContentFits, NativeWaits, RelationsFilled, PackageFilled, Relevant, Whole, Jdf, Supplied

\* A build goes to a stage that promises no more of its package; activated is what
\* has been validated.
LEMMA ContentMoves ==
  ASSUME NEW b \in Builds, ContentFits(b), kind'[b] = kind[b], package'[b] = package[b],
         bundle = b => pc[b] \in {"finally", "ended"}, bundle' = b => bundle = b \/ pc[b] = "activate",
         \/ pc'[b] \notin Late \cup {"prepare", "relations"}
         \/ pc'[b] \in {"discard", "activate"} /\ pc[b] \in {"diagnose", "discard"}
  PROVE  ContentFits(b)'
<1>1. \A r : Whole(b, r)' = Whole(b, r)
  BY DEF Whole, Jdf, Supplied
<1>2. NativeWaits(b)' /\ RelationsFilled(b)'
  BY DEF NativeWaits, RelationsFilled, Late
<1>3. PackageFilled(b)'
  BY <1>1 DEF ContentFits, PackageFilled, Relevant, Late
<1> QED BY <1>2, <1>3 DEF ContentFits

\* A relation is written whole.
LEMMA RelationWhole ==
  ASSUME NativeTyped, NEW b \in Builds, NEW r \in Relations, NativeBelongs(b), ContentFits(b), Relating(b, r),
         NEW rows \in SUBSET Origins, rows = Whole(b, r), bundle # b, UNCHANGED <<kind, bundle>>,
         pc'[b] = "relations", package'[b] = Written(b, r, rows), native'[b] = native[b] \ {r}
  PROVE  ContentFits(b)'
<1>1. package[b] \in PackageType
  BY DEF NativeTyped
<1>2. /\ package'[b].rows = [package[b].rows EXCEPT ![r] = rows]
      /\ package'[b].counts = [package[b].counts EXCEPT ![r] = rows]
      /\ package'[b].todo = Tail(package[b].todo)
  BY <1>1 DEF Written, PackageType
<1>3. /\ package'[b].rows[r] = rows
      /\ \A s \in Relations : s # r => package'[b].rows[s] = package[b].rows[s]
  BY <1>1, <1>2 DEF PackageType, Content
<1>4. package'[b].rows = package'[b].counts
  BY <1>2 DEF ContentFits, PackageFilled
<1>5. PackageFilled(b)'
  BY <1>4 DEF PackageFilled, Relevant, Late
<1>6. \A s : Whole(b, s)' = Whole(b, s)
  BY DEF Whole, Jdf, Supplied
<1>7. pc[b] = "relations" /\ Jdf(b)' = Jdf(b)
  BY DEF Relating, Jdf
<1>8. {"trip", "shape", "note"} \subseteq Relations
  BY DEF Relations
<1>9. CASE package[b].todo = <<"trip", "shape", "note">> /\ r = "trip" /\ Tail(package[b].todo) = <<"shape", "note">>
  BY <1>2, <1>3, <1>5, <1>6, <1>7, <1>9, ListsDiffer DEF ContentFits, NativeWaits, RelationsFilled
<1>10. CASE package[b].todo = <<"shape", "note">> /\ r = "shape" /\ Tail(package[b].todo) = <<"note">>
  BY <1>2, <1>3, <1>5, <1>6, <1>7, <1>8, <1>10, ListsDiffer DEF ContentFits, NativeWaits, RelationsFilled
<1>11. CASE package[b].todo = <<"note">> /\ r = "note" /\ Tail(package[b].todo) = <<>>
  BY <1>2, <1>3, <1>5, <1>6, <1>7, <1>8, <1>11, ListsDiffer DEF ContentFits, NativeWaits, RelationsFilled
<1> QED
  BY <1>9, <1>10, <1>11, TakesHead

\* A step of one build leaves the others as they are.
Alone(b) ==
  /\ kind' = kind
  /\ \A c \in Builds \ {b} : /\ pc'[c] = pc[c] /\ package'[c] = package[c] /\ native'[c] = native[c]
                             /\ bundle' = c => bundle = c

LEMMA OthersFit ==
  ASSUME ContentInv, NEW b \in Builds, Alone(b), ContentFits(b)'
  PROVE  ContentInv'
<1> SUFFICES ASSUME NEW c \in Builds \ {b} PROVE ContentFits(c)'
  BY DEF ContentInv
<1> QED BY ContentStays DEF Alone, ContentInv

LEMMA RowStepsAlone ==
  ASSUME StageTyped, NativeTyped, NEW b \in Builds, RowStep(b)
  PROVE  Alone(b) /\ bundle' = bundle
<1> USE DEF Alone, StageTyped, NativeTyped, inputVars, compilerVars, pathVars, Go, Set, Rewrite
<1>1. CASE \E r \in Relations : MoveNative(b, r)
  BY <1>1 DEF MoveNative
<1>2. CASE \E r \in Relations : WriteRelation(b, r)
  BY <1>2 DEF WriteRelation
<1>3. CASE \E r \in Relations : WritePart(b, r)
  BY <1>3 DEF WritePart
<1>4. CASE \E r \in Relations : Concat(b, r)
  BY <1>4 DEF Concat
<1>5. CASE RelationsDone(b) \/ Derive(b)
  BY <1>5 DEF RelationsDone, Derive
<1>6. CASE AddShapes(b)
  BY <1>6 DEF AddShapes
<1>7. CASE Project(b) \/ WriteManifest(b) \/ Validate(b)
  BY <1>7 DEF Project, WriteManifest, Validate
<1> QED
  BY <1>1, <1>2, <1>3, <1>4, <1>5, <1>6, <1>7 DEF RowStep

\* The stages around the package writer: none of them touches a package, and none
\* comes to the writer but the hand-off and Prepare.
AroundWriter(b) ==
  \/ Begin(b) \/ StartGraph(b) \/ (Convert(b) /\ Jdf(b)) \/ AwaitGraph(b)
  \/ CaptureEvidence(b) \/ EvaluatePosts(b)
  \/ WriteDiagnostics(b) \/ DiscardScratch(b) \/ Activate(b)
  \/ ReportFails(b) \/ Finally(b) \/ FinallyCzPtt(b) \/ EvidenceStays(b) \/ DirectoriesStay(b)
  \/ Fail(b) \/ Kill(b)

LEMMA AroundWriterMoves ==
  ASSUME StageInv, HoldTyped, NativeTyped, ContentInv, NEW b \in Builds, AroundWriter(b)
  PROVE  ContentInv'
<1> USE DEF StageInv, StageTyped, HoldTyped, NativeTyped, inputVars, compilerVars, pathVars, Go, Set
<1>1. Alone(b) /\ package'[b] = package[b]
  <2> USE DEF Alone
  <2>1. CASE Begin(b) \/ StartGraph(b) \/ Convert(b) \/ AwaitGraph(b)
    BY <2>1 DEF Begin, StartGraph, Convert, AwaitGraph
  <2>2. CASE CaptureEvidence(b) \/ EvaluatePosts(b)
    BY <2>2 DEF CaptureEvidence, EvaluatePosts
  <2>3. CASE WriteDiagnostics(b) \/ DiscardScratch(b) \/ Activate(b)
    BY <2>3 DEF WriteDiagnostics, DiscardScratch, Activate
  <2>4. CASE Finally(b) \/ FinallyCzPtt(b) \/ Fail(b) \/ Kill(b)
    BY <2>4 DEF Finally, FinallyCzPtt, Fail, Kill
  <2>5. CASE ReportFails(b) \/ EvidenceStays(b) \/ DirectoriesStay(b)
    BY <2>5 DEF ReportFails, EvidenceStays, DirectoriesStay
  <2> QED BY <2>1, <2>2, <2>3, <2>4, <2>5 DEF AroundWriter
<1>2. bundle' = b => bundle = b \/ pc[b] = "activate"
  BY DEF AroundWriter, Begin, StartGraph, Convert, AwaitGraph, CaptureEvidence, EvaluatePosts,
         WriteDiagnostics, DiscardScratch, Activate, ReportFails, Finally, FinallyCzPtt, EvidenceStays,
         DirectoriesStay, Fail, Kill
<1>3. \/ pc'[b] \notin Late \cup {"prepare", "relations"}
      \/ pc'[b] \in {"discard", "activate"} /\ pc[b] \in {"diagnose", "discard"}
  <2> USE DEF Late, Jdf
  <2>1. CASE Begin(b) \/ StartGraph(b) \/ (Convert(b) /\ Jdf(b)) \/ AwaitGraph(b)
    BY <2>1 DEF Begin, StartGraph, Convert, AwaitGraph
  <2>2. CASE CaptureEvidence(b) \/ EvaluatePosts(b)
    BY <2>2 DEF CaptureEvidence, EvaluatePosts
  <2>3. CASE WriteDiagnostics(b) \/ DiscardScratch(b) \/ Activate(b)
    BY <2>3 DEF WriteDiagnostics, DiscardScratch, Activate
  <2>4. CASE Finally(b) \/ FinallyCzPtt(b) \/ Fail(b) \/ Kill(b)
    BY <2>4 DEF Finally, FinallyCzPtt, Fail, Kill
  <2>5. CASE ReportFails(b) \/ EvidenceStays(b) \/ DirectoriesStay(b)
    BY <2>5 DEF ReportFails, EvidenceStays, DirectoriesStay
  <2> QED BY <2>1, <2>2, <2>3, <2>4, <2>5 DEF AroundWriter
<1>4. bundle = b => pc[b] \in {"finally", "ended"}
  BY DEF Race
<1>5. ContentFits(b) /\ kind'[b] = kind[b]
  BY <1>1 DEF ContentInv, Alone
<1>6. ContentFits(b)'
  BY <1>1, <1>2, <1>3, <1>4, <1>5, ContentMoves
<1> QED BY <1>1, <1>6, OthersFit

\* One step of the package writer on the rows, and the relations it writes whole.
LEMMA RowStepFits ==
  ASSUME StageInv, HoldTyped, NativeInv, ContentInv, NEW b \in Builds, RowStep(b)
  PROVE  ContentInv'
<1>1. /\ Alone(b) /\ bundle' = bundle /\ kind' = kind /\ pc \in [Builds -> Stages] /\ package \in [Builds -> PackageType]
      /\ native \in [Builds -> SUBSET {"trip", "note"}] /\ NativeTyped
  BY RowStepsAlone DEF StageInv, StageTyped, NativeInv, NativeTyped, Alone
<1>2. pc[b] \in Writing /\ bundle # b
  BY RowStepsWriteOn DEF StageInv, Race, WritesOn, Writing
<1>3. NativeBelongs(b) /\ ContentFits(b) /\ package[b] \in PackageType
  BY <1>1 DEF NativeInv, ContentInv
<1>4. \A r : Whole(b, r)' = Whole(b, r)
  BY <1>1 DEF Whole, Jdf, Supplied
<1>5. ASSUME NEW r \in Relations, MoveNative(b, r) \/ WriteRelation(b, r) \/ Concat(b, r) PROVE ContentFits(b)'
  <2>1. Relating(b, r) /\ pc[b] = "relations"
    BY <1>5 DEF MoveNative, WriteRelation, Concat, Relating
  <2>2. PICK rows \in SUBSET Origins :
          /\ package'[b] = Written(b, r, rows) /\ native'[b] = native[b] \ {r} /\ pc'[b] = "relations"
          /\ \/ r \in native[b] /\ Supplied(b, r) = {} /\ rows = {"compiled"}
             \/ r \notin native[b] /\ rows = Supplied(b, r)
             \/ r \in native[b] /\ rows = {"compiled"} \cup Supplied(b, r)
    <3>1. Supplied(b, r) \in SUBSET Origins /\ {"compiled"} \in SUBSET Origins
      BY DEF Supplied, Origins
    <3>2. CASE MoveNative(b, r)
      BY <1>1, <2>1, <3>1, <3>2 DEF MoveNative, Set
    <3>3. CASE WriteRelation(b, r)
      BY <1>1, <2>1, <3>1, <3>3 DEF WriteRelation, Rewrite, Set, Go, compilerVars
    <3>4. CASE Concat(b, r)
      BY <1>1, <2>1, <3>1, <3>4 DEF Concat, Set
    <3> QED BY <1>5, <3>2, <3>3, <3>4
  <2>3. rows = Whole(b, r)
    <3>1. native[b] \subseteq {"trip", "note"} /\ (~Jdf(b) => native[b] = {})
      BY <1>1, <1>3 DEF NativeBelongs
    <3>2. CASE package[b].todo = <<"trip", "shape", "note">> /\ r = "trip"
      BY <1>3, <2>1, <2>2, <3>1, <3>2, ListsDiffer
         DEF ContentFits, NativeWaits, RelationsFilled, Whole, Supplied
    <3>3. CASE package[b].todo = <<"shape", "note">> /\ r = "shape"
      BY <1>3, <2>1, <2>2, <3>1, <3>3, ListsDiffer
         DEF ContentFits, NativeWaits, RelationsFilled, Whole, Supplied
    <3>4. CASE package[b].todo = <<"note">> /\ r = "note"
      <4>1. Jdf(b) => "note" \in native[b] /\ kind[b] # "overlay"
        BY <1>3, <2>1, <3>4 DEF ContentFits, NativeWaits, Jdf
      <4>2. Supplied(b, "note") # {}
        BY DEF Supplied
      <4> QED BY <2>2, <3>1, <3>4, <4>1, <4>2 DEF Whole
    <3> QED BY <1>1, <2>1, <3>2, <3>3, <3>4, TakesHead
  <2> QED BY <1>1, <1>2, <1>3, <2>1, <2>2, <2>3, RelationWhole
<1>6. ASSUME NEW r \in Relations, WritePart(b, r) PROVE ContentFits(b)'
  <2>1. /\ pc'[b] = "relations" /\ pc[b] = "relations" /\ native' = native
        /\ package'[b] = [package[b] EXCEPT !.part = TRUE]
    BY <1>1, <1>6 DEF WritePart, Rewrite, Relating, Set, Go, compilerVars
  <2>2. package'[b].rows = package[b].rows /\ package'[b].counts = package[b].counts /\ package'[b].todo = package[b].todo
    BY <1>3, <2>1 DEF PackageType
  <2> QED BY <1>1, <1>2, <1>3, <1>4, <2>1, <2>2
          DEF ContentFits, NativeWaits, RelationsFilled, PackageFilled, Relevant, Jdf, Late
<1>7. ASSUME RelationsDone(b) PROVE ContentFits(b)'
  <2>1. pc'[b] = "derive" /\ pc[b] = "relations" /\ package'[b] = package[b] /\ package[b].todo = <<>>
    BY <1>1, <1>7 DEF RelationsDone, Rewrite, Set, Go
  <2>2. /\ package[b].rows["trip"] = Whole(b, "trip") /\ package[b].rows["note"] = Whole(b, "note")
        /\ package[b].rows["shape"] = Whole(b, "shape") \cup {}
    BY <1>3, <2>1, ListsDiffer DEF ContentFits, RelationsFilled
  <2> QED BY <1>1, <1>2, <1>3, <1>4, <2>1, <2>2
          DEF ContentFits, NativeWaits, RelationsFilled, PackageFilled, Relevant, Jdf, Late
<1>8. ASSUME Derive(b) PROVE ContentFits(b)'
  <2>1. /\ pc'[b] \in {"project", "shapes"} /\ pc[b] = "derive"
        /\ package'[b] = [package[b] EXCEPT !.rows["routeStop"] = {"derived"}, !.counts["routeStop"] = {"derived"}]
    BY <1>1, <1>8 DEF Derive, Rewrite, Set, Go
  <2>2. /\ package'[b].rows = [package[b].rows EXCEPT !["routeStop"] = {"derived"}]
        /\ package'[b].counts = [package[b].counts EXCEPT !["routeStop"] = {"derived"}]
    BY <1>3, <2>1 DEF PackageType
  <2>3. /\ package'[b].rows["routeStop"] = {"derived"}
        /\ \A r \in Relations : r # "routeStop" => package'[b].rows[r] = package[b].rows[r]
    BY <1>3, <2>2 DEF PackageType, Content, Relations
  <2>4. package'[b].rows = package'[b].counts
    BY <1>3, <2>2 DEF ContentFits, PackageFilled
  <2>5. /\ package'[b].rows["trip"] = Whole(b, "trip") /\ package'[b].rows["note"] = Whole(b, "note")
        /\ \E found \in {{}, {"routed"}} : package'[b].rows["shape"] = Whole(b, "shape") \cup found
    BY <1>3, <2>1, <2>3 DEF ContentFits, PackageFilled, Relevant, Late, Relations
  <2> QED BY <1>1, <1>2, <1>4, <2>1, <2>3, <2>4, <2>5
          DEF ContentFits, NativeWaits, RelationsFilled, PackageFilled, Relevant, Jdf, Late
<1>9. ASSUME AddShapes(b) PROVE ContentFits(b)'
  <2>1. PICK found \in {{}, {"routed"}} :
          /\ pc'[b] = "project" /\ pc[b] = "shapes"
          /\ package'[b] = [package[b] EXCEPT !.rows["shape"] = @ \cup found, !.counts["shape"] = @ \cup found]
    BY <1>1, <1>9 DEF AddShapes, Rewrite, Set, Go
  <2>2. /\ package'[b].rows = [package[b].rows EXCEPT !["shape"] = @ \cup found]
        /\ package'[b].counts = [package[b].counts EXCEPT !["shape"] = @ \cup found]
    BY <1>3, <2>1 DEF PackageType
  <2>3. /\ package'[b].rows["shape"] = package[b].rows["shape"] \cup found
        /\ \A r \in Relations : r # "shape" => package'[b].rows[r] = package[b].rows[r]
    BY <1>3, <2>2 DEF PackageType, Content, Relations
  <2>4. package'[b].rows = package'[b].counts
    BY <1>3, <2>2 DEF ContentFits, PackageFilled
  <2>5. Relevant(b) /\ pc[b] # "derive"
    BY <2>1 DEF Relevant, Late
  <2>6. /\ package'[b].rows["trip"] = Whole(b, "trip") /\ package'[b].rows["note"] = Whole(b, "note")
        /\ package'[b].rows["routeStop"] = {"derived"}
    BY <1>3, <2>3, <2>5 DEF ContentFits, PackageFilled, Relations
  <2>7. \E more \in {{}, {"routed"}} : package'[b].rows["shape"] = Whole(b, "shape") \cup more
    <3>1. PICK before \in {{}, {"routed"}} : package[b].rows["shape"] = Whole(b, "shape") \cup before
      BY <1>3, <2>5 DEF ContentFits, PackageFilled
    <3>2. before \cup found \in {{}, {"routed"}}
      OBVIOUS
    <3>3. package'[b].rows["shape"] = Whole(b, "shape") \cup (before \cup found)
      BY <2>3, <3>1
    <3> QED BY <3>2, <3>3
  <2> QED BY <1>1, <1>2, <1>4, <2>1, <2>4, <2>6, <2>7
          DEF ContentFits, NativeWaits, RelationsFilled, PackageFilled, Relevant, Jdf, Late
<1>10. ASSUME Project(b) \/ WriteManifest(b) \/ Validate(b) PROVE ContentFits(b)'
  <2>1. /\ pc[b] \in {"project", "manifest", "validate"} /\ pc'[b] \in {"manifest", "validate", "diagnose"}
        /\ package'[b].rows = package[b].rows /\ package'[b].counts = package[b].counts
        /\ pc'[b] = "diagnose" => package[b].manifest = package[b].rows /\ package[b].zip = package[b].rows
                                  /\ package'[b] = package[b]
    BY <1>1, <1>3, <1>10 DEF Project, WriteManifest, Validate, Rewrite, Set, Go, PackageType
  <2> QED BY <1>1, <1>2, <1>3, <1>4, <2>1
          DEF ContentFits, NativeWaits, RelationsFilled, PackageFilled, Relevant, Jdf, Late
<1>11. ContentFits(b)'
  BY <1>5, <1>6, <1>7, <1>8, <1>9, <1>10 DEF RowStep
<1> QED BY <1>1, <1>11, OthersFit

LEMMA ContentStep == StageInv /\ HoldTyped /\ Held /\ NativeInv /\ ContentInv /\ [Next]_vars => ContentInv'
<1> SUFFICES ASSUME StageInv, HoldTyped, Held, NativeInv, ContentInv, [Next]_vars PROVE ContentInv'
  OBVIOUS
<1>0. /\ pc \in [Builds -> Stages] /\ package \in [Builds -> PackageType] /\ NativeTyped
      /\ native \in [Builds -> SUBSET {"trip", "note"}]
      /\ \A b \in Builds : ContentFits(b) /\ (bundle = b => pc[b] \in {"finally", "ended"})
  BY DEF StageInv, StageTyped, Race, NativeInv, NativeTyped, ContentInv
<1> USE DEF inputVars, compilerVars, pathVars, Go, Set
<1>1. ASSUME NEW b \in Builds, AroundWriter(b) PROVE ContentInv'
  BY <1>0, <1>1, AroundWriterMoves
<1>2. ASSUME NEW b \in Builds, RowStep(b) PROVE ContentInv'
  BY <1>2, RowStepFits
<1>3. ASSUME NEW b \in Builds, GraphOpens(b) PROVE ContentInv'
  <2>1. UNCHANGED <<kind, pc, package, native, bundle>>
    BY <1>3 DEF GraphOpens
  <2> QED BY <2>1, ContentStays DEF ContentInv
<1>4. ASSUME NEW b \in Builds, Convert(b), ~Jdf(b) PROVE ContentInv'
  <2>1. pc[b] = "convert" /\ pc'[b] = "prepare" /\ UNCHANGED <<kind, package, native, bundle>> /\ Alone(b)
    BY <1>0, <1>4 DEF Convert, Jdf, Alone
  <2>2. ContentFits(b)'
    BY <1>0, <1>4, <2>1 DEF ContentFits, NativeWaits, RelationsFilled, PackageFilled, Relevant, Jdf, Late
  <2> QED BY <2>1, <2>2, OthersFit
<1>5. ASSUME NEW b \in Builds, WriteNative(b) PROVE ContentInv'
  <2>1. pc[b] = "stream" /\ UNCHANGED <<kind, pc, package, bundle>> /\ native' = [native EXCEPT ![b] = native'[b]]
    BY <1>0, <1>5 DEF WriteNative
  <2>2. Alone(b)
    BY <1>0, <2>1 DEF Alone
  <2>3. ContentFits(b)'
    BY <1>0, <2>1 DEF ContentFits, NativeWaits, RelationsFilled, PackageFilled, Relevant, Late
  <2> QED BY <2>2, <2>3, OthersFit
<1>6. ASSUME NEW b \in Builds, HandOff(b) PROVE ContentInv'
  <2>1. /\ pc[b] = "stream" /\ pc'[b] = "prepare" /\ UNCHANGED <<kind, package, native, bundle>> /\ Alone(b)
        /\ native[b] = {NativeRelations[i] : i \in DOMAIN NativeRelations}
    BY <1>0, <1>6 DEF HandOff, Alone
  <2>2. native[b] = {"trip", "note"}
    <3>1. DOMAIN NativeRelations = {1, 2} /\ NativeRelations[1] = "trip" /\ NativeRelations[2] = "note"
      BY DEF NativeRelations
    <3> QED BY <2>1, <3>1
  <2>3. ContentFits(b)'
    BY <1>0, <2>1, <2>2 DEF ContentFits, NativeWaits, RelationsFilled, PackageFilled, Relevant, Late
  <2> QED BY <2>1, <2>3, OthersFit
<1>7. ASSUME NEW b \in Builds, Prepare(b) PROVE ContentInv'
  <2> DEFINE ordered == [Empty EXCEPT !["trip"] = {"ordered"}, !["shape"] = {"ordered"}]
             filled == [package[b] EXCEPT !.rows = ordered, !.counts = ordered, !.todo = <<"note">>]
  <2>1. /\ pc[b] = "prepare" /\ pc' = [pc EXCEPT ![b] = "relations"] /\ UNCHANGED <<kind, native, bundle>>
        /\ package' = IF Jdf(b) THEN package ELSE [package EXCEPT ![b] = filled]
    BY <1>0, <1>7 DEF Prepare
  <2>2. Alone(b) /\ pc'[b] = "relations"
    <3> HIDE DEF filled
    <3> QED BY <1>0, <2>1 DEF Alone
  <2>3. package[b].todo = <<"trip", "shape", "note">>
    BY <2>1 DEF NativeInv, NativeBelongs
  <2>4. CASE Jdf(b)
    <3>1. package' = package
      BY <2>1, <2>4
    <3>2. native[b] = {"trip", "note"}
      BY <1>0, <2>1, <2>4 DEF ContentFits, NativeWaits
    <3>3. ContentFits(b)'
      BY <1>0, <2>1, <2>2, <2>3, <2>4, <3>1, <3>2, ListsDiffer
         DEF ContentFits, NativeWaits, RelationsFilled, PackageFilled, Relevant, Late, Jdf
    <3> QED BY <2>2, <3>3, OthersFit
  <2>5. CASE ~Jdf(b)
    <3>1. ordered["trip"] = {"ordered"} /\ ordered["shape"] = {"ordered"}
      BY DEF Empty, Relations
    <3> HIDE DEF ordered
    <3>2. filled.rows = ordered /\ filled.counts = ordered /\ filled.todo = <<"note">>
      BY <1>0 DEF PackageType
    <3> HIDE DEF filled
    <3>3. package'[b] = filled
      BY <1>0, <2>1, <2>5
    <3>4. ~Jdf(b)' /\ Whole(b, "trip")' = {"ordered"} /\ Whole(b, "shape")' = {"ordered"}
      BY <2>1, <2>5 DEF Whole, Jdf
    <3>5. ContentFits(b)'
      BY <1>0, <2>1, <2>2, <3>1, <3>2, <3>3, <3>4, ListsDiffer
         DEF ContentFits, NativeWaits, RelationsFilled, PackageFilled, Relevant, Late
    <3> QED BY <2>2, <3>5, OthersFit
  <2> QED BY <2>4, <2>5
<1>8. CASE UNCHANGED vars
  <2>1. UNCHANGED <<kind, pc, package, native, bundle>>
    BY <1>8 DEF vars
  <2> QED BY <2>1, ContentStays DEF ContentInv
<1>9. ASSUME NEW b \in Builds, Compile(b) \/ WritePackage(b) \/ Finish(b) \/ Fail(b) \/ Kill(b) PROVE ContentInv'
  <2>1. \/ AroundWriter(b) \/ RowStep(b) \/ (Convert(b) /\ ~Jdf(b))
        \/ WriteNative(b) \/ HandOff(b) \/ Prepare(b)
    BY <1>9 DEF Compile, WritePackage, Finish, RowStep, AroundWriter
  <2> QED BY <1>1, <1>2, <1>4, <1>5, <1>6, <1>7, <2>1
<1> QED
  BY <1>3, <1>8, <1>9 DEF Next, Done

\* Whichever of the ways its rows took, whatever failed and whichever other builds ran
\* beside it, what is at the output path has every relation whole, and a manifest and
\* a gtfs.zip of just those relations.
THEOREM PackagesAreComplete == Spec => []BundleComplete
<1>1. Init => StageInv /\ HoldTyped /\ Held /\ NativeInv /\ ContentInv
  BY StageInit, HoldInit, NativeInit, ContentInit
<1>2. StageInv /\ HoldTyped /\ Held /\ NativeInv /\ ContentInv /\ [Next]_vars =>
        (StageInv /\ HoldTyped /\ Held /\ NativeInv /\ ContentInv)'
  BY StageStep, HoldStep, NativeStep, ContentStep
<1>3. StageInv /\ NativeInv /\ ContentInv => BundleComplete
  <2> SUFFICES ASSUME StageInv, NativeInv, ContentInv, NEW b \in Builds, bundle = b
               PROVE  /\ package[b].rows = Complete(b)
                      /\ package[b].manifest = package[b].rows /\ package[b].zip = package[b].rows
    BY DEF BundleComplete
  <2>1. PackageFilled(b) /\ Relevant(b) /\ pc[b] # "derive" /\ package[b].rows \in Content
    BY DEF ContentInv, ContentFits, Relevant, StageInv, Race, NativeInv, NativeTyped, PackageType
  <2>2. PICK found \in {{}, {"routed"}} : package[b].rows["shape"] = Whole(b, "shape") \cup found
    BY <2>1 DEF PackageFilled
  <2>3. package[b].rows["shape"] = {IF Jdf(b) THEN "generated" ELSE "ordered"} \cup (package[b].rows["shape"] \cap {"routed"})
    BY <2>2 DEF Whole
  <2>4. \A r \in Relations : package[b].rows[r] = Complete(b)[r]
    <3>1. package[b].rows["trip"] = {IF Jdf(b) THEN "compiled" ELSE "ordered"}
      BY <2>1 DEF PackageFilled, Whole
    <3>2. package[b].rows["note"] = Supplied(b, "note") \cup (IF Jdf(b) THEN {"compiled"} ELSE {})
      BY <2>1 DEF PackageFilled, Whole
    <3>3. package[b].rows["routeStop"] = {"derived"}
      BY <2>1 DEF PackageFilled
    <3> QED BY <2>3, <3>1, <3>2, <3>3 DEF Complete, Relations
  <2>5. package[b].rows = Complete(b)
    <3>1. \A r \in Relations : Complete(b)[r] \in SUBSET Origins
      BY <2>1, <2>4 DEF Content
    <3>2. Complete(b) \in Content
      BY <3>1 DEF Complete, Content
    <3> QED BY <2>1, <2>4, <3>2 DEF Content
  <2> QED BY <2>1, <2>5 DEF PackageFilled
<1> QED
  BY <1>1, <1>2, <1>3, PTL DEF Spec
================================================================================
