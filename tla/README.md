# Verification of JrUtil

JrUtil turns the Czech national timetables (JDF for buses, CZPTT for trains)
into GTFS and into a production package of Parquet relations, estimates the
boarding posts the national timetable does not name, and overlays the timetables
of regional integrators on the national one. This directory holds TLA+ models of
the parts of it that keep state, run concurrently, or decide something step by
step, and of the Python that trains the scorer of those posts; the TLC instances that check them; and proofs, checked by TLAPS, of what
must hold for every input and not only for the small ones.

File names below are those of the F# library under `jrutil/src/` unless they say
otherwise; `README.md` with line numbers is the repository's. `PROJECT.json` maps
every definition to the lines it stands for.

## 1. The system

A conversion is a pipeline run by one command of `jrutil-multitool`. What flows
between the parts are files and lazy sequences; what they share at run time is
memory, threads and the file system.

| Part | State it keeps | Operations | Interacts with |
|---|---|---|---|
| Ordered parallel maps (`ParallelUtils.fs`) | queue of tasks, completed results, byte charge, worker target | admit, start, complete, deliver, adapt, dispose | every stage that maps over rows in parallel |
| JDF input and fixups (`Jdf/JdfParser`, `JdfFix`, `JdfFixups`) | one batch at a time | parse, upgrade, correct names | files of a batch; merger |
| Licence merge (`JdfMerger`, `JdfTripStopSpool`) | versions of a licence, their tables by key, the trip-stop spool | add a batch, resolve overlaps, bound to the year, write | batches in, one merged batch out |
| Stop reconciliation (`JdfStopReconciliation`, `StopRegistry`, `StopMatcher`) | register of stops, fuzzy index | reconcile, match | merger, geodata |
| JDF → GTFS (`JdfToGtfs`, `JdfGtfsRules`, `JdfCalendar`) | ids handed out, calendars seen | trip version keys, bitmaps, stop times | package build |
| Post evidence (`JdfPostEvidence`) | queue of routing work, a row store per task, merged store | dispatch, route, merge | routing graph, routing cache, post inference |
| Post inference (`JdfPostInference*`) | beams, evidence store | score, choose, fall back | post evidence, call store |
| Scorer tables (`scripts/post-scorer/post_scorer/labels`, `corrections`, `features`, `weights`) | labels, posts and areas being clustered, the candidate table, weights | label, cluster, select, mark, count | evidence pack and overlay mappings in; scorer training |
| Scorer training (`post_scorer/model`, `collective`) | pooled table, split, models, thresholds | pool, train by fold, score, calibrate, report, write | candidate tables of several regions in; the model file is read by post inference |
| Routing graph and cache (`GeoData/Osm`, `JdfRoutingCache`) | packed graph, thread cache, cache file | open, walk, reuse, save | several runs and workers at once |
| Package build (`JdfBundle`, `CzPttPackage`, `Serving/PackageWriter`, `BundleWriter`) | scratch directories, open stores, package, diagnostics artefact, output path | stages from checks to activation | everything above; other builds with the same paths |
| CZPTT (`CzPtt/*`) | timetable messages by path id, cancellations | merge in order, normalize, convert | package build |
| Regional overlay (`Gtfs/RegionalOverlay/*`) | authority, bindings of source to national trips, selections | fold, match, resolve, slice, add | national GTFS and one GTFS per integrator |
| Serving relations (`Serving/*`) | relation files, keys, counts | write, derive, validate | package build |

The behaviours that are hard here:

- **Concurrency.** Two schedulers with tasks on the thread pool; a bounded queue
  between a reader and its tasks; workers that share the cache of walks; builds
  and converters that share paths with other processes.
- **Failure.** A function that raises, a source that cannot be read, a disk that
  fills up, a caller that stops early or cancels, a process that is killed.
- **Order.** Batches are added in an order nobody chose; tasks finish in any
  order; decisions of the overlay are made trip by trip and round by round.
- **Data that leaks.** The same stop may be in two regions, in a training and a
  held-out part, or be its own neighbour: what a model is told, trained on and
  judged on must stay apart through pooling, folds and collective features.
- **Time and versions.** Validity ranges that overlap, a reference date that
  moves on from run to run, trips that cross midnight, cache files made from
  another graph.

The library retries nothing. The one timed wait in the modelled code is the
producer's, which looks again every 100 ms; the model lets it wake at any time.

What makes each part correct: the maps deliver the sequential result within their
bounds and end; the merge loses no published date, keeps one version of a licence
per date; the calendar and the merger agree when
a trip runs; the capture merges every row once and in order and surfaces every
failure; a package is activated complete, by one build, with its own artefact, and a failure is told apart from a success but for what raises behind the activation;
evidence from the cache is what routing would find; the overlay shows each
journey once and loses none but in the cases its reports or section 6 name; a scorer's labels and weights belong to the context
they are filed under, its physical posts are sound whatever order they are merged
in, and no model is judged on a stop it was trained on.

## 2. Modules

| Module | Models | Built on |
|---|---|---|
| `OrderedMap` | what a caller of an ordered parallel map is promised (abstract) | |
| `AdaptiveScheduler` | `mapParallelOrderedAdaptive` | refines `OrderedMap` |
| `BoundedWindow` | `mapParallelOrderedCore`, `mapParallelOrderedBatches` | refines `OrderedMap` |
| `LicenceOverlaps` | the comparison of versions and the units of side-by-side versions | |
| `DayClasses` | `tripDateBitmap` of the calendar beside `dayClassMask` of the merger (operators) | |
| `LicenceMerge` | adding batches, resolving overlaps, bounding; tables and spool | extends `LicenceOverlaps`, `DayClasses` |
| `TripVersionKeys` | the trip keys of the versions kept | extends `LicenceMerge` |
| `CaptureQueue` | the routing stage of the evidence capture | |
| `RoutingCache` | cache file, reuse of entries, concurrent walks | |
| `PackageBuild` | the stages of the three compilers and the package writer | |
| `TripMatching` | tiers, edit alignment, scores and choice (operators) | |
| `RegionalOverlay` | authority, matching, availability, selection, projection | extends `TripMatching` |
| `PostLabels` | calls of the overlay, corrections and authored numbers to labels; weights (operators) | |
| `PostClusters` | candidate facts, which posts and areas may be merged and in which order (operators) | extends `PostLabels` |
| `PostTable` | the commands `labels`, `corrections`, `features`, `weights` step by step | extends `PostClusters` |
| `PostDecisions` | masses, decisions, thresholds, collective features (operators) | |
| `PostScorer` | the commands `train` and `crossval` | extends `PostDecisions` |

`MC*` modules hold the instances; `*Proofs` modules the theorems.

### Ordered parallel maps

`OrderedMap` has three variables: how many results the caller has, which inputs
have raised, and how the enumeration stands. Results come one by one in input
order, a failing input is reported at its own place, and the end comes only after
the last input.

`AdaptiveScheduler` models `ParallelUtils.fs:122-303`. The producer thread, a task
per admitted input and the consuming thread share one monitor (`gate`). The
producer holds it exactly while `ppc = "fill"`; every other critical section is
one action guarded by `GateFree`. A thread in `Monitor.Wait` is `"blocked"` and
only `PulseAll`, inside the action of the thread that pulses, makes it ready; the
producer's wait has a time limit and may also end by itself, the consumer's may
not. `Sample` is the memory and CPU controller, fed with any of the given ratios
and loads. Admission under the gate and starting the task outside it are separate
actions, as in the code, so a failure or a disposal can fall between them. An
exception on the producer thread ends the process (`"crashed"`).

`BoundedWindow` models `ParallelUtils.fs:44-87`. The caller's thread runs the
enumerator; tasks end in any order meanwhile. The value in the caller's hand is
part of the state, because the bound is about what is retained.

### Licence versions

`LicenceMerge` is `JdfMerger` for one licence. `Add` gives each version of a batch
the next distinction and its tables; `ResolveVersion` cuts a version to the dates
it won, in one or several chunks (copies get new keys, and share the spool entry
of their original); `BoundVersion` drops what is expired or of the next timetable
year and cuts the rest. The trip stops live in a file written by distinction and
rewritten on the way out, which is the `spool` variable. The rows of a table are
abstracted to the version they describe. `TripVersionKeys` reads what is kept and
forms the keys of `buildTripVersionKeys`. A hash of four bytes is modelled as what
it hashes, so nothing is said of collisions: within one merged timetable keys differ
because the chunks of one schedule are numbered and hashes are taken to differ. The
module is there for the other promise, that a version keeps its key in the next run
(section 6 says how far it goes).

`DayClasses` states two definitions that were written apart: when a trip runs on
a date, and on which classes of days the merger thinks it can run. A version carries
its trips; the resolution looks at their mask, the property at when they run. A date
of the merge may be a day of any kind in `Days`.

### Evidence and routing

`CaptureQueue` models the calling thread (read, dispatch, complete, await the
tasks one after the other, merge, clean up) and the tasks (take, route, store).
The linked cancellation token reaches both; `BlockingCollection` is a sequence
with a capacity and a completion flag.

`RoutingCache` has runs that load the file, answer contexts from it or by
routing, and save it by writing a temporary file and moving it. What no later stage of
a run asks for is forgotten (`StartsOver`, `ForgetEntries`), so that the ways in which
earlier runs came to the same file are one. The graph is a
set of edges on a line, and what a context's evidence depends on is reduced to
the thread of its snap edge: the maximal chain of nodes with one onward
neighbour, which the properties define as the smallest set of steps closed under
going on. A walk takes one step at a time and may stop on a step that another
worker has finished. A run may be killed anywhere, and a write may break off anywhere
between creating the file and closing it (`SaveBreaks`): either leaves half a
temporary file, which the next `SaveMove` of any run puts in place. Reading half a file gives nothing
where the reader raises, and all but the end of the last payload where it does not:
`ReadBytes` returns what there is, and a gzip stream without its last blocks ends
early (.NET's reader is not strict by default). A run that wants to reuse the entry
so cut fails (`HitFails`). A file that is still being written is locked, so it reads
as empty.

### Package build

`PackageBuild` has any number of builds, each of one of three kinds, each with
directories of its own, and one output and one diagnostics path they share.
Every stage may fail; a process may be killed between any two. What follows the
activation may raise as well: the report of the CZPTT compiler (`ReportFails`), and
either compiler's deletion of its directories (`EvidenceStays`, `DirectoriesStay`),
after which the caller sees an exception whatever the outcome was: an `"unclean"`
end. A relation of the
package is the set of sources whose rows its file holds: those of the compiler,
those moved in from its native directory, those concatenated from a base package,
routed shapes and notes. The background task that opens the routing graph is an
actor of its own, so that the clean-up can meet it in every state.

### Regional overlay

`TripMatching` holds the pure parts: the five tiers, the bounded edit alignment
(as a recursive function over prefixes), the score of times and the choice
between candidates. `RegionalOverlay` runs the compilation in its order: fold
after-midnight trips back to the day they belong to; decide for which lines and
dates the sources have authority (withhold a line if a trip on it cannot be
shown, apply the silence rule); bind trips; settle what is left by availability
in rounds; collect what each binding supplies (`SelectFacts`); then, for each
national trip in the order of ids, merge the claims on every date, quarantine
conflicts, cut the trip into slices; and add the source trips nothing represents.
A platform, a post or a shape is a value of a small set; the matched place of a
source stop is an input. A route without a label (`NoLabel`, for null and blank ones)
fits every national route of its mode.

### Post scorer

`PostTable` follows an evidence pack through the scripts that make a candidate
table of it. A label comes from one of three commands: from the calls of an
overlay's bindings (found on the base timetable by trip and ordinal, then in the
context export by stop and occurrence), from reviewed corrections, or from
authored numbers. Facts about the candidates leave out catalogues that only know
one point per stop. Posts are merged one pair at a time, closest first, and then
areas of posts; each merge is a step, and the posts and areas are sets. The rows
a context may choose from are those the policy scored and the modes of their post
admit; the correct ones are the nearest to the labelled place and its duplicates.
Distances are squared distances on a plane, exact where the code has floating
point. A pack also carries what its tables were written from (which pattern a trip
has, and in which context each call really is), which only the properties read.

`PostScorer` follows `train` and `crossval`. A job pools regions (a border stop is
kept from the first of them), splits the labelled contexts by the fold of their
stop, trains a first stage per fold for out-of-fold features, trains both stages,
scores the held-out contexts, calibrates and reports; `train` repeats the training
on all stops and writes the model. A model is the set of contexts it was trained
on, `scorings` records every use of one, and what a model believes is any of the
instance's beliefs: the softmax and its optimiser are left out, and nothing depends
on how well they fit. A belief is a number of percent, so masses and precisions are
exact. A part that has no labelled context ends the command, and so does any training
that does not converge (`Fail`).

## 3. What TLC checks

| Run | Instance | What it shows |
|---|---|---|
| `adaptive` | 7 inputs, 3 workers, byte bound 10 | the books agree (`Accounting`), the bounds hold (`WithinLimits`), no wake-up is lost, a paused scheduler admits only alone and a joined producer starts nothing (`AdmissionRules`), the enumeration ends, `OrderedMap` is implemented |
| `window` | 9 inputs, 4 tasks, byte bound 6 | the bounds hold with the result in the caller's hand counted, it ends, `OrderedMap` is implemented |
| `licence` | 3 versions, 4 dates; 2 versions of at most 2 of 7 trips; 28 kinds of day | tables, spool and versions stay in step; no published date is lost, one version per date unless side by side, no two trips of two versions on one date (`TripsNeverMeet`), a version with priority over all others wins, a trip key changes between runs only by expiry (`TripIdsChangeByExpiry`) |
| `capture` | 7 rows, 2 tasks, queue of 4 | the merged store is the work in order, everything is released, a failure surfaces, the stage ends |
| `package` | 2 builds of any kind | an activated package is complete, an ended build holds nothing, artefacts belong to their package; success means the package at the output is this build's, and a failure leaves one there only behind the activation (`SuccessStands`) |
| `routing_cache` | 3 runs × 2 workers, 3 graphs | evidence is what routing finds, threads agree; a file cut short at the path, or an entry cut short that a run reads, takes one run that broke off or was killed and another that moved the file from under it |
| `overlay` | 3 national and 3 source trips, 2 dates, 1800 combinations | a line that cannot be shown stays national; journeys shown once; a journey is added, whole in a national trip, in a reported conflict or a partial match beside another trip's selection (`NoneLost`); availability is exclusive; rounds settle |
| `post_table` | 2 stops, 8 candidates, 2254 packs | posts and areas are sound (`PostsAreSound`, `AreasAreSound`), mutual nearest candidates share a post, the candidates of one post are taught alike and a nearest one is correct (`PositivesAreWholePosts`), labels and weights belong to their context |
| `post_scorer` | 2 regions, 6 stops, 7 labellings | no model is judged on its own stops, a border stop counts once, the calibrated thresholds keep the target precision together, a context's own belief is no evidence for it |
| `licence_merged_input`, `overlay_conflict`, `overlay_partial` | the instances above | statements of the repository that the code does not meet (section 6) |

Why the bounds are enough to meet the cases that matter:

- `adaptive`: weights 1 six times and then 12, so that the last input alone is
  over the bound of 10 and must be admitted alone; seven inputs exceed twice the
  worker limit, so the backlog bound binds; memory ratios 79, 82, 86 and 96 and
  CPU loads 50 and 95 are one on each side of every threshold of the controller;
  input 2 may raise and input 6 may be unreadable, early and late.
- `window`: nine inputs fill a window of four twice; two failing inputs can be in
  one window; a tail that cannot be read meets a full and a draining window.
- `licence`: with three versions over four dates every relative position of two
  ranges occurs, a version can be cut in two by another, a chunk can be cut again,
  and versions can beat each other in a circle. Two batch dates make "published
  later" and "in the same publication" both happen. The reference date is inside
  the range and the year ends before the last date, so every rule of bounding
  applies. Days of the week by holiday by parity of the week is every date
  as far as the two definitions can tell dates apart, but for the dates of a note,
  which are the Wednesdays: inside some day classes and outside others. 690259 states.
- `capture`: seven rows exceed the queue and what two tasks hold, so the reader
  blocks; two failing rows can fail in both tasks.
- `package`: two of each is what races need; the proofs in section 5 do not bound
  their number.
- `routing_cache`: a file cut short needs three runs, one that breaks off, one that
  moves, one that reads; walks that cross need two workers. The three graphs are a road,
  the same with one end extended, where no node next to the other stop can tell, and
  one closed to a ring with the other stop cut off. A run reads the file when no other
  is in the middle of routing (`NoOtherRoutes`). 1673357 states.
- `overlay`: two national trips of one line with equal or different times,
  regular or detour; source trips with equal, shorter, later and after-midnight
  patterns, with and without a CIS line, of two revisions and two sources of
  which only one imports what it cannot match; a source route without a label; a short
  detour that only agrees with what another trip selects; a tram line neither source
  lists, for the silence rule. Every combination is an initial state.

- `post_table`: three catalogues and eight candidates at two stops, at the
  distances where a merge is just allowed and just not, with numbers that agree,
  differ or are missing, and modes of trams, roads and none; trips that come back
  to a stop, call numbers with gaps, bindings with and without edits and cut into
  several outputs; corrections of one movement at the same time and later; a
  service with added and removed days. 34701 states.
- `post_scorer`: a border stop that is complex, with a movement, its reverse, a
  turning place and a second line; a simple stop; folds that leave a part without
  labels, and a region whose only held-out stop is the border stop, so that every
  way of failing for lack of labels happens. The grids of thresholds are those values of the code's
  grids that the instance's beliefs can tell apart. 10943 states.

Every run is checked for deadlock: where the system stops, the model has an
explicit stuttering action for its final states, so that stopping anywhere else is
an error.

**Fairness.** `adaptive`: weak fairness for the producer thread, strong for the
completion of each task and for the consumer. A producer that finds no work comes
back for the monitor every 100 ms and leaves it free while it waits, so the others
find it free again and again but not continuously; `Monitor` queues those who ask
for it, so they get it in the end. Weak fairness would not say that. `window` and `capture`: weak fairness for every thread, that
is, the operating system runs what can run and a task that routes ends. Neither
the caller's cancellation nor a disposal, a failure or a full disk is forced to
happen. `package`, `routing_cache`, `licence`, `overlay`, `post_table` and `post_scorer`
state no liveness: they are straight lines of stages, for which absence of
deadlock, and for the overlay's only loop `RoundsSettle`, say as much (a
clustering loses a post or an area with every merge).

## 4. Hazards and the properties for them

`PROJECT.json` lists each hazard at its line with the properties that would
notice it. Four have no property, with the reason given there: an input that cannot
be read ends the process from the adaptive map's producer thread (the refinement
allows that step, so it would not notice it going wrong); a region that has no
held-out stop left in the pooled table raises and takes the reports of the earlier
jobs with it; and the transfer rows are tested on border stops the model was trained
on; and versions that beat one another in a circle (section 6), of which no document
says which should win: `PriorityWins` is about versions with priority over all others.

For every property there is a mutant, a plausible slip in one mapped definition
(a dropped guard, a missing reset, another order), and TLC finds the property
violated under it. The mutated forms stand beside the definition they vary, as
"Faulty variant".

## 5. What is proved

All theorems are about the specification for every value of its constants, under
the assumption named in the module. They are checked by TLAPS with no step left out.

| Theorem (module) | Says | Argument |
|---|---|---|
| `TypeCorrect`, `BookkeepingIsTrue` (`AdaptiveSchedulerProofs`) | types; no input lost or duplicated; the charge is that of the inputs between the consumer's head and the last admission | the invariant `Books` |
| `LimitsHold` | byte bound with its one exception; work under way and finished work below twice the worker limit | `Books` and monotonicity of `Offset` |
| `AdmissionIsOrderly`, `NoWakeupIsLost` | what a paused scheduler and a joined producer may do; a waiting consumer waits for something to come | step by step from `Books` |
| `SchedulerImplementsOrderedMap` | every step is a step or a stutter of `OrderedMap` | from `Books`, one case per action |
| `TypeCorrect`, `LimitsHold`, `WindowImplementsOrderedMap` (`BoundedWindowProofs`) | types; at most `Degree` retained, the byte bound; refinement | the invariant `WindowInv` |
| `TableIsKept` (`LicenceMergeProofs`) | keys, tables and spool follow the versions | `IInv`; assumes one version of a licence per batch |
| `ResolutionLosesNoDate`, `OneVersionRunsOnADate`, `PriorityHolds` | for any versions in any number of batches: a current date that had a version keeps one; two are kept on a date only side by side; the version with priority over all others is kept | `DatesInv`; lemmas on units, winners and ranges; assumes `RegistryInput` |
| `SideBySideIsSafe` | no two versions kept on a date both run a trip on it, whatever kind of day it is | `DatesInv`, and the lemma `MaskIsConservative`, by cases on codes and notes; assumes `RegistryInput` and that `Days` are days |
| `TripIdsChangeOnlyByExpiry` | a version current in two runs has another key only when one that came before it has expired | `DatesInv`: what is kept later was kept before, and a key counts nothing else |
| `TypeCorrect`, `MergeKeepsOrder`, `NothingIsLeftBehind`, `NoFailureIsLost` (`CaptureQueueProofs`) | the capture's safety for any amount of work and any number of tasks | `IInv` |
| `OneBuildSucceeds`, `ArtefactsBelong`, `NothingHeld` (`PackageBuildProofs`) | for any number of builds, failures behind the activation included: success means the package at the output is one's own, and it stays; artefacts belong to their package; nothing stays open | `StageInv`, then `HoldTyped`, `Held` and `NativeInv` on top of it |
| `PackagesAreComplete` | the package at the output path has every relation whole, whichever way its rows took, and a manifest and an archive of just those | `ContentInv` |
| `CacheFileWhole` (`RoutingCacheProofs`) | for any number of runs: a file cut short at the path takes a run that broke off, was killed or is writing, and another that moved the file; a run that fails over an entry takes one that broke off or was killed, and one that moved | `FileInv` |
| `ThreadsAgreeFromEveryStart`, `HitsAreRouting` | for any graphs, workers and orders of their steps: what is remembered of a step is the end of its own walk within a box around all it passes; an answer from any run's file is what routing finds on this run's graph | `RouteInv`; lemmas on closed sets of steps |
| `WithheldDatesStayNational` (`RegionalOverlayProofs`) | a line and date on which a source trip cannot be shown keeps every national trip | `AuthorityInv` and `ResolutionInv` |
| `JourneysAreShownOnce`, `NoJourneyIsLost` | for any number of sources and trips: a decided journey is shown at most once; it is added, whole in a published national trip, in a reported conflict, or its partial match agrees with another trip's selection; what a national trip carries is never itself a partial match | `ResolutionInv` |
| `SettledTargetsAreExclusive`, `RoundsMakeProgress` | however many ambiguities compete: a settled national trip is no other's on that date; a round that is not the last settles something | what availability leaves, round by round |
| `PhysicalPosts`, `NearestEndTogether`, `AreasOfPosts` (`PostScorerProofs`) | for any packs: posts are at every moment a partition of the candidates into sound posts; two candidates that are each other's nearest possible partner end in one; areas are sound, and a lone post is alone for a reason | `PostsInv`, `NearestInv`, `AreasInv` |
| `WholePostsAreCorrect` | in a context labelled with a place the candidates of one post are all correct or none, and a nearest one within the tolerance is | `PostsInv`, `LabelsInv`, `RowsInv` and `PositivesOfOnePost` |
| `EvidenceOfTheContext` | for any timetable, overlay, corrections and calendar whose tables are written from one another: a context's label is that of the calls really made there, or of the latest correction of its movement, and its weight counts the departures from it, across trips that come back to a stop, numbers with gaps and trips cut into outputs | `ContextInv`; assumes `PacksAreWritten` |
| `NoStopLeaks`, `PooledTables` | for any regions, labels and folds: no fold, calibration or held-out row uses a model on a stop it was trained on; a pooled table has every stop from the first region with it, once | `LeakInv`; `JobsInv` and `PooledInv` |
| `EvidenceOfOthers`, `SharesAreCalibrated` | for any beliefs: the collective features of a context do not depend on the first belief about it; the thresholds found one after the other keep the target precision together | `EvidenceInv`; `CalibratedInv` |

Why the invariants have the parts they have:

- `Books` = `Flags`, `Counters`, `WorkAccounted`, `ChargeIsWindow`, `Window`,
  `Stages`. The bounds follow from the charge being a difference of two offsets,
  which needs the window of outstanding inputs to be an interval, which needs to
  know at which stage the consumer has taken a result but not released it
  (`Stages`). None of them is inductive alone.
- `WindowInv` = `Flags`, `Numbers`, `Shape`, `WindowBound`: the queue is an
  interval of ordinals, and every position of the enumerator fixes whether there
  is a result in hand and an input read ahead.
- `IInv` of the capture: the queue is an interval that ends at the next row to
  dispatch; each task's rows increase, are disjoint from the others', and lie
  before the front of the queue; the row in a task's hand is newer than all it has
  written; nothing taken is lost. So at the end of the queue the stores partition
  the work, and a merge that always moves the least head on cannot miss a number
  (`MergeIsPrefix`).
- `IInv` of the licence merge: the routes are records of known versions, keys and
  routes agree, every spool entry holds the rows of its key, and the count used
  for the next key has not been handed out.
- `DatesInv` of the licence merge: there is a division of the versions into units
  (`Divided`) such that what is not resolved yet is as it was added, with the ranges
  its unit wins (`OpenAsAdded`), everything else that is kept lies on dates its unit
  wins (`Shares`), no current date so won is missing (`Covered`) and no date is kept
  twice of one version (`Apart`). The division is the one `Decide` compared; the
  versions it was made of are cut and deleted one after the other, so that afterwards
  nothing but the batches tells it. Three facts carry the argument: who wins changes
  only at a boundary, so that ranges made of boundaries have one winner
  (`SegmentHasOneWinner`, `WonIsCovered`); the members of a unit have one validity and
  disjoint day classes however they joined (`UnitsOfListing`); and the head of a unit
  is the member listed first, which no other member beats (`PriorityIsHeld`).
- `StageInv` of the build: stage and outcome agree; only a build whose
  activation was its own success is at the output; an artefact belongs to the last
  build that put one there. `Held` ties the graph task, the graph and the call
  store to the stage. `NativeInv` ties what the package writer has still to take in
  to what lies beside the scratch directory.
- `ContentInv`: while the writer goes through the relations, what it has passed is
  whole and what it has not is still beside its scratch directory (`NativeWaits`);
  after them the manifest and the archive repeat what the rows are. `StageInv` then
  carries a build's package to the output.
- `FileInv`: one writer per name, and a half-written file has a writer, or a run that
  was killed or broke off (`TemporaryWritten`, `PathWritten`); at the path it also has
  one that moved it there (`PathMoved`), and so has an entry cut short, in a file or in
  a run (`CutByTwo`), since such entries are only handed on.
- `RouteInv`: an entry, in a file, in memory or being made, is `Genuine`: on every
  graph that agrees with its own on the box of what was read, routing gives the same
  answer. For that, what a worker has visited must be the walk so far (`WorkFits`)
  even when it stops on a step another worker has finished, so that `ThreadsAgree` is
  part of the invariant and not a consequence of it. A thread is the smallest set of
  steps closed under going on, so that two walks that meet are compared as sets, with
  no induction over their length.
- `ResolutionInv` of the overlay: national trips are resolved in the order of their
  numbers, a resolved trip has marked what it represents and claimed what it carries,
  and no two resolved trips carry one source trip. `ShownOnce` is about a trip resolved
  early and an addition made at the end; only the marks tie the two together.
  `AuthorityInv` keeps a withheld line without authority from the decision on.
- `PostsInv`: the candidates lie at numbers, so that distance is symmetric, and the
  posts are sound; a merge of two posts that passes the test of `_cluster_stop` is
  sound because every pair across the two passes it (`JoinedPostsSound`). The order
  of the merges does not matter for it; for `NearestShareAPost` it does.
- `NearestInv`: until they are merged, two mutual nearest candidates are posts of one
  candidate each, because no pair with a third can come before theirs. `AreasInv` says
  the same of areas as `PostsInv` of posts and, once no pair is left, that none may be
  merged.
- `LabelsInv`, `RowsInv`: a context has one label, at a place on the plane, and rows
  are of candidates with facts, so that the nearest choice exists and its post is one.
- `ContextInv`: labels and weights are right from the step that gives them on. The
  weight of the proof is in that step. A call's number and its occurrence at its stop,
  counted by the code from the stop times, are those of the timetable
  (`CallsNumbered`), and a stop and an occurrence tell a trip's calls apart
  (`OccurrencesTell`), so that the three joins give each context exactly the source
  calls made there, once each (`ServedCounted`); two posts cannot both have four fifths
  of them, since majorities intersect (`AgreedIsMain`). The departures are a sum of
  numbers of days, which is a number of pairs of trip and day (`SumOfSizes`).
- `JobsInv`, `PooledInv`: the table in use is that of the regions of the job in hand,
  and the job that writes the model is the last.
- `EvidenceInv`, `CalibratedInv`: the features in use are those of the first beliefs,
  the thresholds those calibrated on the scored contexts. `CalibrateStratified` looks
  for the second threshold with what the first has let through counted, so the claim
  about both is proved over the sums of the three shares.
- `LeakInv`: the training and the held-out part have no fold in common
  (`SplitByFold`), and the model that is judged was trained on the training part
  (`JudgedModel`). A fold is a function of the stop, so parts of different folds
  have no stop in common.

**Assumptions.** `BoundsAssumption`: the reference date lies in the timetable year, or
the command refuses it (`JdfCommands.fs:141`); without it a date before the year would
be current and cut off. `SchedulerAssumption` and `WindowAssumption`: weights are
positive (the code takes `max 1L`), the first limit is between one and the
maximum. `CaptureAssumption`: at least one task. `NodesAssumption`,
`GraphsAssumption`, `ContextsAssumption`: graphs are edges between known nodes.
`NoneAssumption`: the null value is not a build, and not the end of a thread.
`InputAssumption` of the overlay: timetables are sequences of trips of known routes
and dates. `PacksAssumption`: tables are finite, candidates are numbered and lie on
the plane. `ContextsAssumption` of the scorer: tables are finite, and an id is of one
stop and once in a region, as it is made from the stop among other things
(`JdfPostEvidence.fs:393`). `ThresholdsAssumption`: grids are finite sets of numbers.
`BeliefsAssumption`: beliefs are percentages, and those of the second stage, a softmax
over the choices, add up to no more than a hundred. `FoldAssumption`,
`RegionsAssumption`, `LabellingsAssumption`: a stop has one fold, and regions and
labels are those of known contexts. `OneVersionPerBatch` is a
hypothesis of `TableIsKept`, not of the module: without it the code numbers two
versions alike (section 6). `RegistryInput`, the hypothesis of the other theorems of the
licence merge, says of each batch also that its dates are known and that it is not itself
the output of a merge, and of versions that each has a name of its own; the instance
`MCLicenceMerge` states that its inputs are such (`InputsAreRegistry`).
`TableAssumption`: a null is not a label, and the window is a finite set of dates.
`PacksAreWritten`, the hypothesis of `EvidenceOfTheContext`, says what the writers of the
tables do, which other programs of the repository are. `IsTimetable`: a call has one stop
time, numbered in the order of the trip, and one row in the context export unless it has
no context there (other modes, stops outside the region, `JdfBundleEvidence.fs:88-115`),
and a context is of one stop. `IsOverlay`: an output trip carries one selection of a
source trip, so that its bindings to that trip have the same posts
(`RegionalOverlay/Projection.fs:380-400`). `IsEvidence`: a route point has an id of its
own. The instance `MCPostTable` states that its packs are such (`AllAreWritten`). TLC
evaluates the assumptions on every run.

**Folds, sums and smallest sets.** Induction over data is out of the prover's reach, but
much of what it would show can be had from a least counterexample. Sums over sets
(`MapThenSumSet`) and folds over sequences (`FoldLeft`, `FoldLeftDomain`) are functions
over the finite subsets of their domain, and the library proves that finite subsets and
numbers are well-founded: a smallest subset on which a claim about its sum fails has an
element, and without it the claim holds. The lemmas on `Iter` and `SumOver` in
`PostScorerProofs` are got that way, and in `LicenceMergeProofs` the existence of a fold
and its steps (`FoldExists`, `FoldTyped`), from which `WinnerIsOfContest` and
`UnitsOfListing` follow by going along the sequence (`UpTo`).

**Only model-checked.** Termination: liveness is out of the prover's reach. Every safety
invariant and action property of a passing run is a theorem.

The type invariants of the scheduler, the window and the capture are proved
(`TypeCorrect`) and not run. Those of the other modules are there for the reader,
and hold on the instances when they are added to a `cfg`.

## 6. Where the code and the documents part

- **Two versions of one licence in one batch** (`licence_merged_input`,
  `JdfMerger.fs:888`). A merged timetable used as input gives both the same
  distinction, which `JdfModel.fs:192` calls part of a primary key.
- **Conflicts of sources** (`overlay_conflict`, `Projection.fs:368`). The README
  at 170-171 and the diagnostic of `Projection.fs:294` say that the national value
  survives a conflict; on a date on which the sources have authority over the line
  the national trip is removed and neither source trip is added.
- **Partial matches** (`overlay_partial`, `Projection.fs:329`). The README says at
  111-112 and 145 that a bounded pattern edit is not complete coverage and yields to
  the full source trip; a binding with an edit that agrees with what another trip
  selected counts as represented, and its trip is not added.

Seen while modelling, and not among the runs:

- **Trip ids** (`JdfGtfsRules.fs:361`). The README says at 253-254 that ids "stay the
  same between runs"; the version of a start that ends first has the plain key, so when
  it expires another version takes it over, and the same happens to the number of a
  chunk. `TripIdsChangeByExpiry` is what does hold: that is the only cause.
- **The order of comparisons** (`JdfMerger.fs:508`). `beats` is not transitive: of three
  versions an open-ended detour loses to a variant of its end that starts later, that one
  to another detour, and that one to the first when it is newer. The winner of a date
  valid for all three then depends on the order, which `JdfMerger.fs:438-439` says it
  does not.
- **An unreadable cache** (`JdfRoutingCache.fs:95`). The comment in line 12 says that an
  unreadable file is ignored; a file that ends within its last payload is read, and the
  run fails when it parses that payload (`HitFails`). `WholeWhenQuiet` says what it takes.
- **The tolerance of labels** (`features.py:513`). `scripts/post-scorer/README.md:31`
  says that every candidate within 20 m of the post is correct; the code (and its comment
  at 501-502) keeps the nearest and its duplicates, and a candidate of another post within
  20 m is taught as wrong. `PositivesAreWholePosts` takes from both what they agree on:
  the nearest candidate is correct, and so is a post mapped more than once, as a whole.
- The quick support bound of a candidate can reject an alignment that is within the
  maximum of edits.
- With authored labels only the candidates that contain the labelled route point are
  correct (`features.py:523-528`): a duplicate of theirs in the same physical post is
  taught as wrong, unlike under a labelled place (516). `PositivesAreWholePosts` is
  about labelled places.

## 7. Not modelled

`PROJECT.json` gives the reason part by part. There is nothing for a model checker
to find in readers, writers and serializers of rows, command-line parsing, generated
classes, geometry (route shapes, snapping, stop coordinates, bus stations), name
normalisation, maps and audits of finished output. They enter the models as their
inputs or as opaque values.

Of the modelled parts, these stay outside:

- `JdfMerger` beyond the versions of a licence: stops, agencies, attributes.
- The capture before and after its routing stage, and the beam search of post
  inference, whose scores are floating point.
- Contextual stop inference, headsigns and the written bundle of the overlay.
- What the rows of a package are; the model knows where they come from.
- In the scorer, the softmax and its optimiser, the numeric feature columns and the
  baseline columns of reports, and the commands that read a finished model and print
  tables (`ablate`, `curve`, `evaluate`, `review-list`). `JdfPostScorer.fs` ports the
  decisions to F#; a fixture written by `golden.py` compares the two.

The order of the modules followed the weight of the behaviour: the schedulers
everything runs on; the licence merge that decides which timetable a date gets;
capture, build and cache, where processes and threads meet; the overlay, the
largest decision in the system; and the scorer, where a leak between training and
judgement would not show in any output. What a continuation would take up first:

1. **CZPTT** (`CzPttMerger`): timetable messages and cancellations in the order of
   their files, in memory or in a spill file that must give the same result.
2. **Batches of JDF** (`JdfMerger` outside the licence, `JdfStopReconciliation`,
   `StopRegistry`): one register of stops from many batches.
3. **JDF → GTFS**: stop times across midnight, service ids of equal calendars.

## 8. Running it

In this directory, with `tlc` and `tlapm` on the path:

    tlc -workers 2 -config MCAdaptiveScheduler.cfg MCAdaptiveScheduler
    tlapm AdaptiveSchedulerProofs.tla

Each `cfg` names its module by its own name (`MCLicenceMerged.cfg` belongs to
`MCLicenceMerge`, `MCRegionalOverlayConflict.cfg` and `MCRegionalOverlayPartial.cfg` to
`MCRegionalOverlay`). No run takes five minutes.
