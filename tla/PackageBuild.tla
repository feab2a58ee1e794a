------------------------------ MODULE PackageBuild ------------------------------
(***************************************************************************)
(* Building a production package: the JDF compiler (writeBundleCore in     *)
(* JdfBundle.fs), the CZPTT compiler (CzPttPackage.write), the regional    *)
(* overlay (BundleWriter.write) and the package writer they share.         *)
(*                                                                         *)
(* Several builds with the same output and the same diagnostics path run   *)
(* side by side or one after the other.  Each works in directories of its  *)
(* own, named by a GUID, next to the output; the output and the            *)
(* diagnostics directory are all they share.  Every stage may fail, and    *)
(* the process may be killed between any two stages.                       *)
(*                                                                         *)
(* A relation of the package is the set of the sources whose rows its file *)
(* holds.                                                                  *)
(***************************************************************************)
EXTENDS Naturals, Sequences

CONSTANTS
  Builds,  \* the runs of a compiler with this output
  None     \* neither a build nor a directory

ASSUME NoneAssumption == None \notin Builds

VARIABLES
  kind,         \* which compiler, and for JDF whether posts are estimated over a routing graph
  wants,        \* does the run ask for a diagnostics artefact?
  pc, outcome,  \* the stage of a build; how it ends, when that is decided ("unclean": its
                \* clean-up raised, whatever went before)
  scratch,      \* does the compiler's scratch directory exist?
  native,       \* relations the JDF compiler has written beside its scratch
  calls,        \* is the JDF call store open?
  graph,        \* the background task that opens the routing graph
  held,         \* does the main thread hold the graph?
  evidence,     \* does the inference evidence directory exist?
  production,   \* does the build's package directory exist?
  package,      \* what is in it
  bundle,       \* the build whose package is at the output path
  diagnostics   \* the build whose artefact is at the diagnostics path

inputVars == <<kind, wants>>
compilerVars == <<scratch, native, calls, graph, held, evidence>>
pathVars == <<bundle, diagnostics>>
vars == <<inputVars, pc, outcome, compilerVars, production, package, pathVars>>

Kinds == {"jdf", "routed", "czptt", "overlay"}
Jdf(b) == kind[b] \in {"jdf", "routed"}

\* The relations that take different ways into a package, in the schema's order:
\* the trips and calls, the shapes, the notes with their assignments, and the
\* route stops with the zones.
Relations == {"trip", "shape", "note", "routeStop"}
NativeRelations == <<"trip", "note">>
Origins == {"compiled", "ordered", "generated", "base", "routed", "derived"}
Content == [Relations -> SUBSET Origins]
Empty == [r \in Relations |-> {}]

\* The stages, in the order of the code; no build takes all of them.
Stages == {"begin", "openGraph", "convert", "await", "capture", "evaluate", "stream",
           "prepare", "relations", "derive", "shapes", "project", "manifest", "validate",
           "diagnose", "discard", "activate", "finally", "ended"}

TypeOK ==
  /\ kind \in [Builds -> Kinds] /\ wants \in [Builds -> BOOLEAN]
  /\ pc \in [Builds -> Stages]
  /\ outcome \in [Builds -> {"none", "ok", "failed", "unclean", "killed"}]
  /\ scratch \in [Builds -> BOOLEAN] /\ production \in [Builds -> BOOLEAN]
  /\ native \in [Builds -> SUBSET Relations]
  /\ calls \in [Builds -> BOOLEAN] /\ held \in [Builds -> BOOLEAN] /\ evidence \in [Builds -> BOOLEAN]
  /\ graph \in [Builds -> {"none", "opening", "open", "failed", "closed"}]
  /\ package \in [Builds -> [rows : Content, counts : Content, manifest : Content, zip : Content,
                             todo : {<<>>, <<"shape", "note">>, <<"note">>, <<"trip", "shape", "note">>},
                             part : BOOLEAN]]
  /\ \A b \in Builds : package[b].part => package[b].todo = <<"note">>
  /\ bundle \in Builds \cup {None} /\ diagnostics \in Builds \cup {None}

NewPackage(b) ==
  [rows |-> Empty, counts |-> Empty, manifest |-> Empty, zip |-> Empty,
   todo |-> <<"trip", "shape", "note">>, part |-> FALSE]

Init ==
  /\ kind \in [Builds -> Kinds] /\ wants \in [Builds -> BOOLEAN]
  /\ pc = [b \in Builds |-> "begin"] /\ outcome = [b \in Builds |-> "none"]
  /\ scratch = [b \in Builds |-> FALSE] /\ production = [b \in Builds |-> FALSE]
  /\ native = [b \in Builds |-> {}]
  /\ calls = [b \in Builds |-> FALSE] /\ held = [b \in Builds |-> FALSE]
  /\ evidence = [b \in Builds |-> FALSE]
  /\ graph = [b \in Builds |-> "none"]
  /\ package = [b \in Builds |-> NewPackage(b)]
  /\ bundle = None /\ diagnostics = None

Go(b, stage) == pc' = [pc EXCEPT ![b] = stage]
Set(f, b, value) == [f EXCEPT ![b] = value]

--------------------------------------------------------------------------------
(***************************************************************************)
(* The compilers.                                                          *)
(***************************************************************************)
\* Inputs are valid and the output is not there yet; otherwise nothing is created.
Begin(b) ==
  /\ pc[b] = "begin" /\ bundle = None
  /\ scratch' = Set(scratch, b, TRUE)
  /\ Go(b, IF kind[b] = "routed" THEN "openGraph" ELSE "convert")
  /\ UNCHANGED <<inputVars, outcome, native, calls, graph, held, evidence, production, package, pathVars>>

\* The graph is opened while the input is parsed.
StartGraph(b) ==
  /\ pc[b] = "openGraph"
  /\ graph' = Set(graph, b, "opening")
  /\ Go(b, "convert")
  /\ UNCHANGED <<inputVars, outcome, scratch, native, calls, held, evidence, production, package, pathVars>>

GraphOpens(b) ==
  /\ graph[b] = "opening"
  /\ \E end \in {"open", "failed"} : graph' = Set(graph, b, end)
  /\ UNCHANGED <<inputVars, pc, outcome, scratch, native, calls, held, evidence, production, package, pathVars>>

\* Parsing, calendar and filters; for the other compilers the whole conversion.
Convert(b) ==
  /\ pc[b] = "convert"
  /\ calls' = Set(calls, b, Jdf(b))
  /\ Go(b, IF kind[b] = "routed" THEN "await" ELSE IF Jdf(b) THEN "stream" ELSE "prepare")
  /\ UNCHANGED <<inputVars, outcome, scratch, native, graph, held, evidence, production, package, pathVars>>

AwaitGraph(b) ==
  /\ pc[b] = "await" /\ graph[b] = "open"
  /\ held' = Set(held, b, TRUE)
  /\ Go(b, "capture")
  /\ UNCHANGED <<inputVars, outcome, scratch, native, calls, graph, evidence, production, package, pathVars>>

\* The directory is there from the first table written to it.
CaptureEvidence(b) ==
  /\ pc[b] = "capture"
  /\ evidence' = Set(evidence, b, TRUE)
  /\ Go(b, "evaluate")
  /\ UNCHANGED <<inputVars, outcome, scratch, native, calls, graph, held, production, package, pathVars>>

\* The graph is released as soon as the posts are decided.
EvaluatePosts(b) ==
  /\ pc[b] = "evaluate"
  /\ held' = Set(held, b, FALSE) /\ graph' = Set(graph, b, "closed")
  /\ Go(b, "stream")
  /\ UNCHANGED <<inputVars, outcome, scratch, native, calls, evidence, production, package, pathVars>>

WriteNative(b) ==
  /\ pc[b] = "stream"
  /\ \E i \in DOMAIN NativeRelations :
       /\ native[b] = {NativeRelations[j] : j \in 1 .. i - 1}
       /\ native' = Set(native, b, native[b] \cup {NativeRelations[i]})
  /\ UNCHANGED <<inputVars, pc, outcome, scratch, calls, graph, held, evidence, production, package, pathVars>>

\* The hand-off to the package writer closes the input and the call store.
HandOff(b) ==
  /\ pc[b] = "stream" /\ native[b] = {NativeRelations[i] : i \in DOMAIN NativeRelations}
  /\ calls' = Set(calls, b, FALSE)
  /\ Go(b, "prepare")
  /\ UNCHANGED <<inputVars, outcome, scratch, native, graph, held, evidence, production, package, pathVars>>

--------------------------------------------------------------------------------
(***************************************************************************)
(* The package writer.                                                     *)
(***************************************************************************)
\* Rows the package writer makes itself, from the compiler's tables and the base.
Supplied(b, r) ==
  CASE r = "shape" /\ Jdf(b) -> {"generated"}
    [] r = "note" -> IF kind[b] = "overlay" THEN {"base"} ELSE {"generated"}
    [] OTHER -> {}

Rewrite(b, stage, new) ==
  /\ package' = Set(package, b, new)
  /\ Go(b, stage)
  /\ UNCHANGED <<inputVars, outcome, compilerVars, production, pathVars>>

\* Without native calls, the calls, shapes and trips are written first, in order.
Prepare(b) ==
  /\ pc[b] = "prepare"
  /\ LET ordered == [Empty EXCEPT !["trip"] = {"ordered"}, !["shape"] = {"ordered"}]
     IN  package' = IF Jdf(b) THEN package
                    ELSE [package EXCEPT ![b] = [@ EXCEPT !.rows = ordered, !.counts = ordered, !.todo = <<"note">>]]
  /\ production' = Set(production, b, TRUE)
  /\ Go(b, "relations")
  /\ UNCHANGED <<inputVars, outcome, compilerVars, pathVars>>

Written(b, r, rows) ==
  [package[b] EXCEPT !.rows[r] = rows, !.counts[r] = rows, !.todo = Tail(@), !.part = FALSE]

Relating(b, r) == pc[b] = "relations" /\ package[b].todo # <<>> /\ r = Head(package[b].todo)

\* A relation that is all native is moved, not copied.
MoveNative(b, r) ==
  /\ Relating(b, r) /\ r \in native[b] /\ Supplied(b, r) = {}
  /\ package' = Set(package, b, Written(b, r, {"compiled"}))
  /\ native' = Set(native, b, native[b] \ {r})
  /\ UNCHANGED <<inputVars, pc, outcome, scratch, calls, graph, held, evidence, production, pathVars>>

WriteRelation(b, r) ==
  /\ Relating(b, r) /\ r \notin native[b]
  /\ Rewrite(b, "relations", Written(b, r, Supplied(b, r)))

WritePart(b, r) ==
  /\ Relating(b, r) /\ r \in native[b] /\ Supplied(b, r) # {} /\ ~package[b].part
  /\ Rewrite(b, "relations", [package[b] EXCEPT !.part = TRUE])

\* Faulty variant: the rows the compiler wrote itself are not read back.
ConcatPartOnly(b, r) ==
  /\ Relating(b, r) /\ r \in native[b] /\ package[b].part
  /\ package' = Set(package, b, Written(b, r, Supplied(b, r)))
  /\ native' = Set(native, b, native[b] \ {r})
  /\ UNCHANGED <<inputVars, pc, outcome, scratch, calls, graph, held, evidence, production, pathVars>>

\* The native rows, then the others; both files go.
Concat(b, r) ==
  /\ Relating(b, r) /\ r \in native[b] /\ package[b].part
  /\ package' = Set(package, b, Written(b, r, {"compiled"} \cup Supplied(b, r)))
  /\ native' = Set(native, b, native[b] \ {r})
  /\ UNCHANGED <<inputVars, pc, outcome, scratch, calls, graph, held, evidence, production, pathVars>>

RelationsDone(b) ==
  /\ pc[b] = "relations" /\ package[b].todo = <<>>
  /\ Rewrite(b, "derive", package[b])

\* Route stops and zones come from the finished calls, which are rewritten in place.
Derive(b) ==
  /\ pc[b] = "derive"
  /\ Rewrite(b, IF Jdf(b) THEN "project" ELSE "shapes",
             [package[b] EXCEPT !.rows["routeStop"] = {"derived"}, !.counts["routeStop"] = {"derived"}])

\* Shapes for trips that have none, where they are asked for and the companion
\* program finds any; its own failure leaves the package as it is.
AddShapes(b) ==
  /\ pc[b] = "shapes"
  /\ \E found \in {{}, {"routed"}} :
       Rewrite(b, "project", [package[b] EXCEPT !.rows["shape"] = @ \cup found, !.counts["shape"] = @ \cup found])

Project(b) ==
  /\ pc[b] = "project"
  /\ Rewrite(b, "manifest", [package[b] EXCEPT !.zip = package[b].rows])

WriteManifest(b) ==
  /\ pc[b] = "manifest"
  /\ Rewrite(b, "validate", [package[b] EXCEPT !.manifest = package[b].counts])

\* Validation compares the counts in the manifest and the rows of gtfs.zip with
\* the relations and knows every file by name; it checks much else besides.
Validate(b) ==
  /\ pc[b] = "validate"
  /\ package[b].manifest = package[b].rows /\ package[b].zip = package[b].rows /\ ~package[b].part
  /\ Rewrite(b, "diagnose", package[b])

--------------------------------------------------------------------------------
(***************************************************************************)
(* Activation and the end of a build.                                      *)
(***************************************************************************)
\* Faulty variant: an artefact that is there already is left as it is.
WriteDiagnosticsIfNone(b) ==
  /\ pc[b] = "diagnose"
  /\ diagnostics' = IF wants[b] /\ diagnostics = None THEN b ELSE diagnostics
  /\ Go(b, IF kind[b] = "czptt" THEN "activate" ELSE "discard")
  /\ UNCHANGED <<inputVars, outcome, compilerVars, production, package, bundle>>

\* The artefact is moved into place, which fails when something is there.
WriteDiagnostics(b) ==
  /\ pc[b] = "diagnose"
  /\ wants[b] => diagnostics = None
  /\ diagnostics' = IF wants[b] THEN b ELSE diagnostics
  /\ Go(b, IF kind[b] = "czptt" THEN "activate" ELSE "discard")
  /\ UNCHANGED <<inputVars, outcome, compilerVars, production, package, bundle>>

DiscardScratch(b) ==
  /\ pc[b] = "discard"
  /\ scratch' = Set(scratch, b, FALSE)
  /\ Go(b, "activate")
  /\ UNCHANGED <<inputVars, outcome, native, calls, graph, held, evidence, production, package, pathVars>>

\* Faulty variant: a package that is there already is replaced.
ActivateOver(b) ==
  /\ pc[b] = "activate"
  /\ bundle' = b
  /\ production' = Set(production, b, FALSE)
  /\ outcome' = Set(outcome, b, "ok")
  /\ Go(b, IF kind[b] = "overlay" THEN "ended" ELSE "finally")
  /\ UNCHANGED <<inputVars, compilerVars, package, diagnostics>>

\* One move; it fails when another build got there first.
Activate(b) ==
  /\ pc[b] = "activate" /\ bundle = None
  /\ bundle' = b
  /\ production' = Set(production, b, FALSE)
  /\ outcome' = Set(outcome, b, "ok")
  /\ Go(b, IF kind[b] = "overlay" THEN "ended" ELSE "finally")
  /\ UNCHANGED <<inputVars, compilerVars, package, diagnostics>>

\* A stage raises.  The call store is closed on the way out; the overlay compiler
\* deletes its scratch, where it can, but its finalization keeps whatever is there.
\* Before the conversion starts no handler is in place yet.
Fail(b) ==
  /\ pc[b] \notin {"finally", "ended"}
  /\ outcome' = Set(outcome, b, "failed")
  /\ calls' = Set(calls, b, FALSE)
  /\ \E kept \in BOOLEAN :
       scratch' = Set(scratch, b, scratch[b] /\ (kept \/ kind[b] # "overlay" \/ pc[b] # "convert"))
  /\ Go(b, IF kind[b] = "overlay" \/ pc[b] \in {"begin", "openGraph"} THEN "ended" ELSE "finally")
  /\ UNCHANGED <<inputVars, native, graph, held, evidence, production, package, pathVars>>

\* The CZPTT compiler has yet to report that its package is written: when that
\* raises, the build fails with its package in place.
ReportFails(b) ==
  /\ pc[b] = "finally" /\ kind[b] = "czptt" /\ outcome[b] = "ok"
  /\ outcome' = Set(outcome, b, "failed")
  /\ UNCHANGED <<inputVars, pc, compilerVars, production, package, pathVars>>

\* Faulty variant: only a graph the main thread has taken is released.
FinallyHeldOnly(b) ==
  /\ pc[b] = "finally" /\ Jdf(b)
  /\ held' = Set(held, b, FALSE)
  /\ graph' = Set(graph, b, IF held[b] THEN "closed" ELSE graph[b])
  /\ evidence' = Set(evidence, b, evidence[b] /\ outcome[b] # "ok")
  /\ Go(b, "ended")
  /\ UNCHANGED <<inputVars, outcome, scratch, native, calls, production, package, pathVars>>

\* The JDF compiler waits for a graph that is still being opened, to close it;
\* scratch and evidence are kept unless the build completed.
Finally(b) ==
  /\ pc[b] = "finally" /\ Jdf(b) /\ graph[b] # "opening"
  /\ held' = Set(held, b, FALSE)
  /\ graph' = Set(graph, b, IF graph[b] = "open" THEN "closed" ELSE graph[b])
  /\ evidence' = Set(evidence, b, evidence[b] /\ outcome[b] # "ok")
  /\ Go(b, "ended")
  /\ UNCHANGED <<inputVars, outcome, scratch, native, calls, production, package, pathVars>>

\* The evidence of a completed build cannot be deleted, the last thing it does.
EvidenceStays(b) ==
  /\ pc[b] = "finally" /\ Jdf(b) /\ graph[b] # "opening" /\ outcome[b] = "ok" /\ evidence[b]
  /\ held' = Set(held, b, FALSE)
  /\ graph' = Set(graph, b, IF graph[b] = "open" THEN "closed" ELSE graph[b])
  /\ outcome' = Set(outcome, b, "unclean")
  /\ Go(b, "ended")
  /\ UNCHANGED <<inputVars, scratch, native, calls, evidence, production, package, pathVars>>

\* One of the two directories cannot be deleted; the scratch is the first.
DirectoriesStay(b) ==
  /\ pc[b] = "finally" /\ kind[b] = "czptt"
  /\ \/ scratch[b] /\ UNCHANGED scratch
     \/ production[b] /\ scratch' = Set(scratch, b, FALSE)
  /\ outcome' = Set(outcome, b, "unclean")
  /\ Go(b, "ended")
  /\ UNCHANGED <<inputVars, native, calls, graph, held, evidence, production, package, pathVars>>

\* The CZPTT compiler removes its directories whatever happened.
FinallyCzPtt(b) ==
  /\ pc[b] = "finally" /\ kind[b] = "czptt"
  /\ scratch' = Set(scratch, b, FALSE) /\ production' = Set(production, b, FALSE)
  /\ Go(b, "ended")
  /\ UNCHANGED <<inputVars, outcome, native, calls, graph, held, evidence, package, pathVars>>

\* The process is gone with everything it held; its files stay.
Kill(b) ==
  /\ pc[b] # "ended"
  /\ outcome' = Set(outcome, b, "killed")
  /\ calls' = Set(calls, b, FALSE) /\ held' = Set(held, b, FALSE)
  /\ graph' = Set(graph, b, IF graph[b] = "none" THEN "none" ELSE "closed")
  /\ Go(b, "ended")
  /\ UNCHANGED <<inputVars, scratch, native, evidence, production, package, pathVars>>

Compile(b) ==
  \/ Begin(b) \/ StartGraph(b) \/ Convert(b) \/ AwaitGraph(b)
  \/ CaptureEvidence(b) \/ EvaluatePosts(b) \/ WriteNative(b) \/ HandOff(b)

WritePackage(b) ==
  \/ Prepare(b)
  \/ \E r \in Relations : MoveNative(b, r) \/ WriteRelation(b, r) \/ WritePart(b, r) \/ Concat(b, r)
  \/ RelationsDone(b) \/ Derive(b) \/ AddShapes(b)
  \/ Project(b) \/ WriteManifest(b) \/ Validate(b)

Finish(b) ==
  \/ WriteDiagnostics(b) \/ DiscardScratch(b) \/ Activate(b) \/ ReportFails(b)
  \/ Finally(b) \/ FinallyCzPtt(b) \/ EvidenceStays(b) \/ DirectoriesStay(b)

Done == (\A b \in Builds : pc[b] = "ended") /\ UNCHANGED vars

Next ==
  \/ \E b \in Builds : Compile(b) \/ GraphOpens(b) \/ WritePackage(b) \/ Finish(b) \/ Fail(b) \/ Kill(b)
  \/ Done

Spec == Init /\ [][Next]_vars

--------------------------------------------------------------------------------
Complete(b) ==
  [r \in Relations |->
     CASE r = "routeStop" -> {"derived"}
       [] r = "trip" -> {IF Jdf(b) THEN "compiled" ELSE "ordered"}
       [] r = "note" -> Supplied(b, r) \cup (IF Jdf(b) THEN {"compiled"} ELSE {})
       [] r = "shape" -> {IF Jdf(b) THEN "generated" ELSE "ordered"} \cup (package[b].rows[r] \cap {"routed"})]

\* A package is at the output path only with every relation complete, whichever of
\* the ways into it its rows took and whatever failed in other builds, and with a
\* manifest and a gtfs.zip that say the same (README.md: "write failures do not
\* activate a bundle").
BundleComplete ==
  \A b \in Builds : bundle = b =>
    /\ package[b].rows = Complete(b)
    /\ package[b].manifest = package[b].rows /\ package[b].zip = package[b].rows

\* However a build ends, short of being killed, its graph and its call store are
\* released ("This prevents abandoned multi-gigabyte conversion-local artifacts"),
\* even when the clean-up raises; a build that succeeds leaves its package only,
\* and the CZPTT compiler leaves nothing else when it fails.
EndsTidy ==
  \A b \in Builds : pc[b] = "ended" =>
    /\ graph[b] \in {"none", "failed", "closed"} /\ ~held[b] /\ ~calls[b]
    /\ (outcome[b] = "ok" \/ (kind[b] = "czptt" /\ outcome[b] = "failed")) =>
         ~scratch[b] /\ native[b] = {} /\ ~production[b] /\ ~evidence[b]

\* The artefact at the diagnostics path is of the package at the output path, if
\* its build asked for one: the remains of an earlier build, failed or killed, are
\* never taken for it.
DiagnosticsBelong ==
  \A b \in Builds : bundle = b /\ wants[b] => diagnostics = b

\* A build reports success only if its package is the one at the output path, then
\* and for ever: of two builds racing for the path one fails.  A build that reports
\* a failure and has its package there all the same has failed behind activation,
\* which the CZPTT compiler may do, and the JDF compiler only over the evidence it
\* could not delete; an overlay build, or a JDF build without a routing graph, that
\* fails has not put its package there.
SuccessStands ==
  \A b \in Builds :
    /\ outcome[b] = "ok" => bundle = b
    /\ bundle = b /\ outcome[b] \in {"failed", "unclean"} =>
         kind[b] = "czptt" \/ (kind[b] = "routed" /\ outcome[b] = "unclean" /\ evidence[b])
================================================================================
