------------------------------ MODULE PostScorer ------------------------------
(***************************************************************************)
(* Training of the two-stage post scorer: pooling of regions, the split by *)
(* stop, out-of-fold first-stage scores, calibration on the held-out stops *)
(* and the rows of the reports, for the commands train and crossval        *)
(* (scripts/post-scorer/post_scorer/model.py).                             *)
(*                                                                         *)
(* A model is known by the contexts it was trained on. What it believes is *)
(* left open: it may give any of the beliefs of the instance to each       *)
(* context, so no property depends on how good a fit is.                   *)
(***************************************************************************)
EXTENDS PostDecisions

CONSTANTS
    Regions,        \* the --region arguments, in their order
    Fold,           \* stable_fold of every stop
    Labellings,     \* the labels that may be given: correct choices by labelled context
    FirstOpinions, SecondOpinions,  \* numbers of the beliefs the stages may have
    FirstBeliefs, SecondBeliefs     \* those beliefs, by context and number

FoldCount == 5

\* Contexts and stops are numbered; a stop has one fold.
ASSUME FoldAssumption == Fold \in [{Contexts[k].stop : k \in DOMAIN Contexts} -> 0 .. (FoldCount - 1)]
ASSUME RegionsAssumption == Regions \in Seq({Contexts[k].region : k \in DOMAIN Contexts})
\* Beliefs are probabilities, those of a second stage of exclusive choices.
ASSUME BeliefsAssumption == \A k \in DOMAIN Contexts :
    /\ \A i \in FirstOpinions : FirstBeliefs[k][i] \in [Contexts[k].choices -> 0 .. 100]
    /\ \A i \in SecondOpinions :
            /\ SecondBeliefs[k][i] \in [Contexts[k].choices -> 0 .. 100]
            /\ MapThenSumSet(LAMBDA h : SecondBeliefs[k][i][h], Contexts[k].choices) <= 100
ASSUME LabellingsAssumption == \A l \in Labellings : DOMAIN l \subseteq DOMAIN Contexts

VARIABLES
    phase,          \* the next step
    command,        \* train or crossval
    given,          \* the regions it is given
    jobs,           \* the models still to be trained: their regions, and whether on all stops
    correct,        \* the labels: the correct choices of the labelled contexts
    weight,         \* the traffic weights of the job's contexts
    pooled,         \* the contexts of the job's table
    training, validation,   \* its labelled contexts, split by stop
    foldsLeft,      \* folds of the training stops that are not scored yet
    model,          \* the contexts the finished model was trained on
    first, evidence,\* the first stage's beliefs about the held-out contexts, and their features
    scored,         \* the second stage's beliefs
    thresholds,     \* the calibrated thresholds
    scorings,       \* which model was used on which contexts, and for what
    written         \* model.json, if written

scorerVars == <<phase, command, given, jobs, correct, weight, pooled, training, validation, foldsLeft, model,
                first, evidence, scored, thresholds, scorings, written>>

-----------------------------------------------------------------------------
\* The table of a job and its split.

StopsOf(contexts) == {Contexts[k].stop : k \in contexts}

\* Faulty variant: every region is stacked in full.
StackedInFull(regions) == UNION {RegionContexts(regions[i]) : i \in DOMAIN regions}

\* pool: a stop is kept from the first region that has it.
Pooled(regions) ==
    LET earlier(i) == StopsOf(UNION {RegionContexts(regions[j]) : j \in 1 .. (i - 1)})
    IN  UNION {{k \in RegionContexts(regions[i]) : Contexts[k].stop \notin earlier(i)} : i \in DOMAIN regions}

\* Faulty variant: the fold is the context's and not the stop's.
FoldByContext(k) == k % FoldCount

FoldOf(k) == Fold[Contexts[k].stop]

NamesOf(regions) == {regions[i] : i \in DOMAIN regions}

\* The jobs of a command: a model is tested before the final one is trained on all stops.
Job(regions, final) == [regions |-> regions, final |-> final]
JobsOf(name, regions) ==
    IF name = "train" THEN <<Job(regions, FALSE), Job(regions, TRUE)>>
    ELSE [i \in DOMAIN regions |-> Job(<<regions[i]>>, FALSE)]
         \o (IF Len(regions) > 1 THEN <<Job(regions, FALSE)>> ELSE <<>>)

ScorerInit ==
    /\ phase = "pool"
    /\ command \in {"train", "crossval"}
    /\ \E n \in DOMAIN Regions : given = SubSeq(Regions, 1, n)
    /\ jobs = JobsOf(command, given)
    /\ correct \in Labellings
    /\ weight = <<>> /\ pooled = {} /\ training = {} /\ validation = {}
    /\ foldsLeft = {} /\ model = {} /\ first = <<>> /\ evidence = <<>> /\ scored = <<>>
    /\ thresholds = <<>> /\ scorings = {} /\ written = <<>>

\* read_regions, pool, _split and the folds of train_two_stage; the unlabelled are filtered out.
PoolRegions ==
    /\ phase = "pool"
    /\ LET job == Head(jobs)
       IN  /\ pooled' = Pooled(job.regions)
           /\ weight' = AttachWeights(NamesOf(job.regions), correct)
           /\ training' = {k \in pooled' \cap DOMAIN correct : job.final \/ FoldOf(k) # 0}
           /\ validation' = {k \in pooled' \cap DOMAIN correct : ~job.final /\ FoldOf(k) = 0}
           /\ foldsLeft' = {FoldOf(k) : k \in training'}
    /\ phase' = "folds"
    /\ UNCHANGED <<command, given, jobs, correct, model, first, evidence, scored, thresholds, scorings, written>>

\* One fold is scored by a first stage trained on the others.
OtherFolds(fold) == {k \in training : FoldOf(k) # fold}
InFold(fold) == {k \in training : FoldOf(k) = fold}
Use(trained, on, purpose) == [model |-> trained, on |-> on, purpose |-> purpose]

TrainFold ==
    /\ phase = "folds" /\ foldsLeft # {}
    /\ OtherFolds(Min(foldsLeft)) # {}
    /\ scorings' = scorings \cup {Use(OtherFolds(Min(foldsLeft)), InFold(Min(foldsLeft)), "fold")}
    /\ foldsLeft' = foldsLeft \ {Min(foldsLeft)}
    /\ UNCHANGED <<phase, command, given, jobs, correct, weight, pooled, training, validation, model,
                   first, evidence, scored, thresholds, written>>

\* Both stages are trained on all training contexts, the second on the out-of-fold scores.
TrainStages ==
    /\ phase = "folds" /\ foldsLeft = {} /\ training # {}
    /\ model' = training
    /\ phase' = IF Head(jobs).final THEN "write" ELSE "score"
    /\ UNCHANGED <<command, given, jobs, correct, weight, pooled, training, validation, foldsLeft,
                   first, evidence, scored, thresholds, scorings, written>>

\* TwoStageModel.probabilities of the held-out contexts.
ScoreFirstStage ==
    /\ phase = "score" /\ validation # {}
    /\ \E opinion \in [validation -> FirstOpinions] :
            first' = [k \in validation |-> FirstBeliefs[k][opinion[k]]]
    /\ evidence' = CollectiveFeatures(first')
    /\ phase' = "second"
    /\ UNCHANGED <<command, given, jobs, correct, weight, pooled, training, validation, foldsLeft, model,
                   scored, thresholds, scorings, written>>

ScoreSecondStage ==
    /\ phase = "second"
    /\ \E opinion \in [validation -> SecondOpinions] :
            scored' = [k \in validation |-> SecondBeliefs[k][opinion[k]]]
    /\ first' = <<>> /\ evidence' = <<>>
    /\ phase' = "calibrate"
    /\ UNCHANGED <<command, given, jobs, correct, weight, pooled, training, validation, foldsLeft, model,
                   thresholds, scorings, written>>

Calibrate ==
    /\ phase = "calibrate"
    /\ \E standings \in {[k \in validation |-> Standing(k, scored[k])]} :
            thresholds' = CalibrateStratified(standings, correct, weight)
    /\ scorings' = scorings \cup {Use(model, validation, "calibration")}
    /\ phase' = "report"
    /\ UNCHANGED <<command, given, jobs, correct, weight, pooled, training, validation, foldsLeft, model,
                   first, evidence, scored, written>>

\* The tests of a job: its held-out contexts, and for crossval those of each region of a pooled
\* model and the whole tables of the regions a region's model has not seen.
HeldOutParts ==
    IF command = "train" THEN {validation}
    ELSE {validation \cap RegionContexts(r) : r \in NamesOf(Head(jobs).regions)}
OtherTables ==
    IF command = "train" \/ Len(Head(jobs).regions) > 1 THEN {}
    ELSE {RegionContexts(r) \cap DOMAIN correct :
            r \in NamesOf(given) \ NamesOf(Head(jobs).regions)}

Report ==
    /\ phase = "report"
    /\ {} \notin HeldOutParts \cup OtherTables
    /\ scorings' = scorings \cup {Use(model, part, "held out") : part \in HeldOutParts}
                            \cup {Use(model, table, "transfer") : table \in OtherTables}
    /\ jobs' = Tail(jobs)
    /\ thresholds' = IF command = "train" THEN thresholds ELSE <<>>
    /\ scored' = <<>>
    /\ phase' = IF Tail(jobs) = <<>> THEN "done" ELSE "pool"
    /\ UNCHANGED <<command, given, correct, weight, pooled, training, validation, foldsLeft, model,
                   first, evidence, written>>

\* The final model keeps the thresholds calibrated with the first.
WriteModel ==
    /\ phase = "write"
    /\ written' = [model |-> model, thresholds |-> thresholds]
    /\ jobs' = Tail(jobs)
    /\ phase' = "done"
    /\ UNCHANGED <<command, given, correct, weight, pooled, training, validation, foldsLeft, model,
                   first, evidence, scored, thresholds, scorings>>

\* Nothing can be trained on, or scored from, an empty table, and any training may fail to
\* converge (fit): the command ends without output.
Fail ==
    /\ \/ phase = "folds"
       \/ phase = "score" /\ validation = {}
       \/ phase = "report" /\ {} \in HeldOutParts \cup OtherTables
    /\ phase' = "raised"
    /\ UNCHANGED <<command, given, jobs, correct, weight, pooled, training, validation, foldsLeft, model,
                   first, evidence, scored, thresholds, scorings, written>>

ScorerComplete == phase \in {"done", "raised"} /\ UNCHANGED scorerVars

ScorerNext ==
    \/ PoolRegions \/ TrainFold \/ TrainStages \/ ScoreFirstStage \/ ScoreSecondStage
    \/ Calibrate \/ Report \/ WriteModel \/ Fail \/ ScorerComplete

ScorerSpec == ScorerInit /\ [][ScorerNext]_scorerVars

-----------------------------------------------------------------------------
\* Properties.

\* Whatever a model is judged on in the folds, the calibration and the held-out rows, it was
\* trained on no context of those stops, in whichever region and job (model.py:404-424, 454-461,
\* 536-541). The transfer rows carry no such promise.
NoLeakage ==
    \A s \in scorings : s.purpose # "transfer" => StopsOf(s.model) \cap StopsOf(s.on) = {}

\* A pooled table has no context twice, though a border stop has the same contexts in two
\* regions; and every stop of its regions is in it, with exactly the contexts that the first region
\* with that stop has there (model.py:517-529).
StopsPooledOnce ==
    (phase # "pool" /\ jobs # <<>>) =>
        LET regions == Head(jobs).regions
            at(s, contexts) == {k \in contexts : Contexts[k].stop = s}
        IN  /\ \A j, k \in pooled : j # k => Contexts[j].id # Contexts[k].id
            /\ \A i \in DOMAIN regions : \A s \in StopsOf(RegionContexts(regions[i])) :
                    \/ at(s, pooled) = at(s, RegionContexts(regions[i]))
                    \/ \E j \in 1 .. (i - 1) : s \in StopsOf(RegionContexts(regions[j]))

\* Weight of the contexts for which a decision was made, and of those where it was right.
WeightIn(part) == MapThenSumSet(LAMBDA k : weight[k], part)
OnTarget(part, good) == TargetPrecision[2] * WeightIn(good) >= TargetPrecision[1] * WeightIn(part)

\* On the held-out contexts the thresholds found one after the other keep the target precision when
\* used together: the posts published at simple and at complex stops are correct, and the areas
\* published where no post was hold the truth, in the target share of the traffic
\* (model.py:341-375).
CalibratedShares ==
    phase = "report" =>
        \E standings \in {[k \in validation |-> Standing(k, scored[k])]} :
           LET deciding(d) == {k \in validation : Decision(k, standings[k], thresholds) = d}
               right(k) == Published(k, standings[k], thresholds) \in correct[k]
               held(k) == HasTruth(k, Published(k, standings[k], thresholds), correct)
           IN  /\ \A complex \in BOOLEAN :
                      LET part == {k \in deciding("Physical") : Complex(k) = complex}
                      IN  OnTarget(part, {k \in part : right(k)})
               /\ OnTarget(deciding("Area"), {k \in deciding("Area") : held(k)})

\* What the second stage is told about a context does not depend on what the first believed of
\* that context: neither as one of its movement, nor as its own reverse at a turning place, nor
\* among those that leave to or come from the same neighbour (collective.py:25-95).
OwnBeliefIsNoEvidence ==
    phase = "second" => \A k \in DOMAIN first : \A i \in FirstOpinions :
        CollectiveFeatures([first EXCEPT ![k] = FirstBeliefs[k][i]])[k] = evidence[k]

=============================================================================
