--------------------------- MODULE AdaptiveScheduler ---------------------------
(***************************************************************************)
(* mapParallelOrderedAdaptive of ParallelUtils.fs: a producer thread that  *)
(* admits inputs under a byte bound, a backlog bound and a worker target   *)
(* it adapts to memory and CPU samples; one thread-pool task per admitted  *)
(* input; and a consumer that hands the results to its caller in input     *)
(* order.  All shared state is guarded by one monitor, gate.               *)
(*                                                                         *)
(* The producer is inside its long critical section exactly when ppc is    *)
(* "fill"; every other critical section of the code is one action guarded  *)
(* by GateFree.  A thread in Monitor.Wait has the state "blocked"; PulseAll*)
(* makes it ready again in the action that pulses.                         *)
(***************************************************************************)
EXTENDS Integers, FiniteSets

CONSTANTS
  N,              \* number of inputs, numbered 0 .. N-1
  Offset,         \* Offset[i]: estimated bytes of the inputs before i
  Failing,        \* inputs whose func may raise
  Unreadable,     \* positions at which MoveNext or weight may raise
  MaxWorkers,     \* maximumWorkers
  InitialWorkers, \* initialWorkers
  MaxRetained,    \* maximumRetainedBytes
  MemoryRatios,   \* private bytes in percent of the memory budget, as sampled
  CpuLoads        \* normalized CPU percent, as sampled

(***************************************************************************)
(* weight is positive: the code takes max 1L (weight input), so Offset is  *)
(* strictly increasing and every sequence of weights has this form.        *)
(***************************************************************************)
ASSUME SchedulerAssumption ==
  /\ N \in Nat
  /\ Offset \in [0 .. N -> Nat]
  /\ Offset[0] = 0
  /\ \A i, j \in 0 .. N : i < j => Offset[i] < Offset[j]
  /\ Failing \subseteq 0 .. N - 1
  /\ Unreadable \subseteq 0 .. N
  /\ MaxWorkers \in Nat
  /\ InitialWorkers \in 1 .. MaxWorkers
  /\ MaxRetained \in Nat \ {0}
  /\ MemoryRatios \subseteq Nat
  /\ CpuLoads \subseteq Nat

Inputs == 0 .. N - 1
Weight(i) == Offset[i + 1] - Offset[i]

VARIABLES
  \* shared, under the gate
  completed,      \* ordinals whose result waits for the consumer
  raised,         \* ordinals whose result is an exception
  pending,        \* the producer holds the next input, read but not admitted
  active,         \* admitted inputs that have no result yet
  retainedBytes,  \* estimated bytes charged
  admittedCount,  \* inputs admitted so far
  exhausted,      \* the input sequence has ended
  cancelled,      \* the consumer has left
  targetWorkers,  \* current worker target
  admissionPaused,\* set at 95% of the memory budget, cleared below 80%
  nextToConsume,  \* ordinal the consumer waits for or holds
  \* thread states
  ppc,            \* producer
  launched,       \* inputs whose task the producer has started
  running,        \* tasks started and not finished
  cpc,            \* consumer
  status          \* how the enumeration stands, as in OrderedMap

shared == <<completed, raised, pending, active, retainedBytes, admittedCount, exhausted,
            cancelled, targetWorkers, admissionPaused, nextToConsume>>
vars == <<shared, ppc, launched, running, cpc, status>>

ProducerStates == {"start", "fill", "blocked", "launch", "decide", "leave", "done", "crashed"}
ConsumerStates == {"take", "blocked", "yielded", "raise", "cancel", "join", "closed"}

TypeOK ==
  /\ completed \subseteq Inputs
  /\ raised \subseteq Failing
  /\ pending \in BOOLEAN
  /\ active \in Nat
  /\ retainedBytes \in Nat
  /\ admittedCount \in 0 .. N
  /\ exhausted \in BOOLEAN
  /\ cancelled \in BOOLEAN
  /\ targetWorkers \in 1 .. MaxWorkers
  /\ admissionPaused \in BOOLEAN
  /\ nextToConsume \in 0 .. N
  /\ ppc \in ProducerStates
  /\ launched \in 0 .. N
  /\ running \subseteq Inputs
  /\ cpc \in ConsumerStates
  /\ status \in {"open", "finished", "failed", "abandoned", "crashed"}

Init ==
  /\ completed = {}
  /\ raised = {}
  /\ pending = FALSE
  /\ active = 0
  /\ retainedBytes = 0
  /\ admittedCount = 0
  /\ exhausted = FALSE
  /\ cancelled = FALSE
  /\ targetWorkers = InitialWorkers
  /\ admissionPaused = FALSE
  /\ nextToConsume = 0
  /\ ppc = "start"
  /\ launched = 0
  /\ running = {}
  /\ cpc = "take"
  /\ status = "open"

Alive == ppc # "crashed"
GateFree == ppc \notin {"fill", "crashed"}

AtLeastOne(n) == IF n < 1 THEN 1 ELSE n
AtMost(n, m) == IF n > m THEN m ELSE n
Larger(n, m) == IF n < m THEN m ELSE n

\* Monitor.PulseAll(gate), as it changes the two threads that wait.
Woken(pc, ready) == IF pc = "blocked" THEN ready ELSE pc
PulseConsumer == cpc' = Woken(cpc, "take")
PulseProducer == ppc' = Woken(ppc, "launch")

(***************************************************************************)
(* The adaptive controller, as sample computes it.                         *)
(***************************************************************************)
\* Faulty variant: only bytes bound the backlog, not the number of results.
BacklogBytesOnly == retainedBytes <= MaxRetained \div 2

BacklogHealthy ==
  /\ retainedBytes <= MaxRetained \div 2
  /\ Cardinality(completed) < AtLeastOne(targetWorkers)

WorkQueued == pending \/ ~exhausted

Sample(ratio, cpu) ==
  IF ratio >= 95 THEN
    /\ targetWorkers' = AtLeastOne(targetWorkers \div 2)
    /\ admissionPaused' = TRUE
  ELSE IF admissionPaused /\ ratio >= 80 THEN
    UNCHANGED <<targetWorkers, admissionPaused>>
  ELSE IF ratio > 85 THEN
    /\ targetWorkers' = AtLeastOne((targetWorkers * 3) \div 4)
    /\ admissionPaused' = FALSE
  ELSE IF ratio >= 80 \/ cpu >= 90 \/ ~WorkQueued \/ ~BacklogHealthy THEN
    /\ admissionPaused' = FALSE
    /\ UNCHANGED targetWorkers
  ELSE
    /\ targetWorkers' = AtMost(targetWorkers + Larger(2, targetWorkers \div 4), MaxWorkers)
    /\ admissionPaused' = FALSE

(***************************************************************************)
(* Producer thread.                                                        *)
(***************************************************************************)
\* Takes the gate; a sample is due at most once a second, so it may be skipped.
EnterGate ==
  /\ ppc = "start"
  /\ ppc' = "fill"
  /\ \/ \E ratio \in MemoryRatios, cpu \in CpuLoads : Sample(ratio, cpu)
     \/ UNCHANGED <<targetWorkers, admissionPaused>>
  /\ UNCHANGED <<completed, raised, pending, active, retainedBytes, admittedCount, exhausted, cancelled,
                 nextToConsume, launched, running, cpc, status>>

\* Faulty variants: no input is ever forced through; any input is, once nothing runs.
NeverForced == FALSE
ForcedBehindConsumer == active = 0

ForceProgress == active = 0 /\ admittedCount = nextToConsume

Admissible ==
  \/ ForceProgress
  \/ /\ ~admissionPaused
     /\ retainedBytes + Weight(admittedCount) <= MaxRetained
     /\ BacklogHealthy

\* The condition of the filling loop.
MayFill == ppc = "fill" /\ ~cancelled /\ active < targetWorkers

AdmitNext ==
  /\ MayFill
  /\ admittedCount < N
  /\ Admissible
  /\ pending' = FALSE
  /\ admittedCount' = admittedCount + 1
  /\ retainedBytes' = retainedBytes + Weight(admittedCount)
  /\ active' = active + 1
  /\ UNCHANGED <<completed, raised, exhausted, cancelled, targetWorkers, admissionPaused,
                 nextToConsume, ppc, launched, running, cpc, status>>

\* inputs.MoveNext or weight raises on the producer thread, which no handler
\* guards: the runtime ends the process.
ProducerRaises ==
  /\ MayFill
  /\ ~pending /\ ~exhausted
  /\ admittedCount \in Unreadable
  /\ ppc' = "crashed"
  /\ status' = IF status = "open" THEN "crashed" ELSE status
  /\ UNCHANGED <<shared, launched, running, cpc>>

\* The filling loop stops: no room, end of the inputs, or the next input has to
\* wait (it stays pending).  Without new work the producer then waits.
LeaveGate ==
  /\ ppc = "fill"
  /\ \/ ~MayFill /\ UNCHANGED <<pending, exhausted>>
     \/ MayFill /\ admittedCount = N /\ exhausted' = TRUE /\ UNCHANGED pending
     \/ /\ MayFill /\ admittedCount < N /\ ~Admissible
        /\ pending' = TRUE
        /\ UNCHANGED exhausted
  /\ ppc' = IF launched = admittedCount /\ ~cancelled /\ (~exhausted' \/ active > 0)
            THEN "blocked" ELSE "launch"
  /\ UNCHANGED <<completed, raised, active, retainedBytes, admittedCount, cancelled, targetWorkers,
                 admissionPaused, nextToConsume, launched, running, cpc, status>>

\* Monitor.Wait(gate, 100) times out.
WaitTimesOut ==
  /\ ppc = "blocked"
  /\ ppc' = "launch"
  /\ UNCHANGED <<shared, launched, running, cpc, status>>

\* Task.Run for the oldest admitted input that has no task yet, outside the gate.
Launch ==
  /\ ppc = "launch"
  /\ IF launched < admittedCount
     THEN /\ running' = running \cup {launched}
          /\ launched' = launched + 1
          /\ UNCHANGED ppc
     ELSE /\ ppc' = "decide"
          /\ UNCHANGED <<running, launched>>
  /\ UNCHANGED <<shared, cpc, status>>

\* shouldContinue
Decide ==
  /\ ppc = "decide"
  /\ ppc' = IF ~cancelled /\ (~exhausted \/ active > 0) THEN "start" ELSE "leave"
  /\ UNCHANGED <<shared, launched, running, cpc, status>>

\* Faulty variant: the producer ends without waking the consumer.
LeaveSilently ==
  /\ ppc = "leave"
  /\ ppc' = "done"
  /\ UNCHANGED <<shared, launched, running, cpc, status>>

Leave ==
  /\ ppc = "leave"
  /\ ppc' = "done"
  /\ PulseConsumer
  /\ UNCHANGED <<shared, launched, running, status>>

Producer == EnterGate \/ AdmitNext \/ ProducerRaises \/ LeaveGate \/ WaitTimesOut
              \/ Launch \/ Decide \/ Leave

\* func returned, or it raised: then the result is the exception.
Outcome(i) == \/ UNCHANGED raised
              \/ i \in Failing /\ raised' = raised \cup {i}

(***************************************************************************)
(* Worker task of input i: func has returned or raised; the result is      *)
(* filed under the gate.                                                   *)
(***************************************************************************)
Complete(i) ==
  /\ i \in running
  /\ GateFree
  /\ running' = running \ {i}
  /\ completed' = completed \cup {i}
  /\ Outcome(i)
  /\ active' = active - 1
  /\ PulseConsumer
  /\ PulseProducer
  /\ UNCHANGED <<pending, retainedBytes, admittedCount, exhausted, cancelled, targetWorkers,
                 admissionPaused, nextToConsume, launched, status>>

(***************************************************************************)
(* Consumer: the thread of the caller who enumerates the map.              *)
(***************************************************************************)
AllConsumed == exhausted /\ active = 0 /\ nextToConsume >= admittedCount

\* Faulty variant: a result is handed out whatever it is, an exception too.
TakeUnchecked ==
  /\ cpc = "take"
  /\ GateFree
  /\ nextToConsume \in completed
  /\ completed' = completed \ {nextToConsume}
  /\ cpc' = "yielded"
  /\ UNCHANGED <<raised, pending, active, retainedBytes, admittedCount, exhausted, cancelled, targetWorkers,
                 admissionPaused, nextToConsume, ppc, launched, running, status>>

\* Takes the next result, finds the end of the sequence, or waits.
Take ==
  /\ cpc = "take"
  /\ GateFree
  /\ \/ /\ nextToConsume \in completed
        /\ completed' = completed \ {nextToConsume}
        /\ cpc' = IF nextToConsume \in raised THEN "raise" ELSE "yielded"
        /\ UNCHANGED status
     \/ /\ nextToConsume \notin completed
        /\ IF AllConsumed
           THEN cpc' = "cancel" /\ status' = "finished"
           ELSE cpc' = "blocked" /\ UNCHANGED status
        /\ UNCHANGED completed
  /\ UNCHANGED <<raised, pending, active, retainedBytes, admittedCount, exhausted, cancelled, targetWorkers,
                 admissionPaused, nextToConsume, ppc, launched, running>>

\* Faulty variant: the consumed result stays charged.
ReleaseKeepsCharge ==
  /\ GateFree
  /\ nextToConsume' = nextToConsume + 1
  /\ PulseProducer
  /\ UNCHANGED <<completed, raised, pending, active, retainedBytes, admittedCount, exhausted, cancelled,
                 targetWorkers, admissionPaused, launched, running>>

\* The result in hand is uncharged and the next ordinal is due.
ReleaseHead ==
  /\ GateFree
  /\ retainedBytes' = retainedBytes - Weight(nextToConsume)
  /\ nextToConsume' = nextToConsume + 1
  /\ PulseProducer
  /\ UNCHANGED <<completed, raised, pending, active, admittedCount, exhausted, cancelled, targetWorkers,
                 admissionPaused, launched, running>>

\* The caller asks for the next result.
Advance == cpc = "yielded" /\ cpc' = "take" /\ ReleaseHead /\ UNCHANGED status

\* The result is an exception: it is released and raised to the caller.
RaiseError == cpc = "raise" /\ cpc' = "cancel" /\ ReleaseHead /\ status' = "failed"

\* The caller disposes the enumerator while it holds a result.
Dispose ==
  /\ cpc = "yielded"
  /\ Alive
  /\ cpc' = "cancel"
  /\ status' = "abandoned"
  /\ UNCHANGED <<shared, ppc, launched, running>>

\* The finally block: cancels the producer, then joins it.
Cancel ==
  /\ cpc = "cancel"
  /\ GateFree
  /\ cancelled' = TRUE
  /\ PulseProducer
  /\ cpc' = "join"
  /\ UNCHANGED <<completed, raised, pending, active, retainedBytes, admittedCount, exhausted, targetWorkers,
                 admissionPaused, nextToConsume, launched, running, status>>

Join ==
  /\ cpc = "join"
  /\ ppc = "done"
  /\ cpc' = "closed"
  /\ UNCHANGED <<shared, ppc, launched, running, status>>

Consumer == Take \/ Advance \/ RaiseError \/ Dispose \/ Cancel \/ Join

\* The enumeration is over and no task runs, or the process has ended.
Terminated ==
  /\ \/ cpc = "closed" /\ running = {}
     \/ ~Alive
  /\ UNCHANGED vars

Next == Producer \/ (\E i \in Inputs : Complete(i)) \/ Consumer \/ Terminated

Spec == Init /\ [][Next]_vars

(***************************************************************************)
(* Fairness: the runtime schedules the producer and the tasks, func        *)
(* returns, and a caller that holds a result either asks for the next one  *)
(* or disposes the enumerator.  Samples stay adversarial.  The gate is     *)
(* contended: a producer that finds no work comes back for it every 100 ms *)
(* and leaves it free while it waits, so the tasks and the consumer find   *)
(* it free again and again, not continuously.  They get it in the end,     *)
(* which is strong fairness.                                               *)
(***************************************************************************)
Fairness ==
  /\ WF_vars(Producer)
  /\ \A i \in Inputs : SF_vars(Complete(i))
  /\ SF_vars(Consumer)

FairSpec == Spec /\ Fairness
--------------------------------------------------------------------------------
(***************************************************************************)
(* Properties.                                                             *)
(***************************************************************************)
\* The head result is out of completed and not yet released.
Held == cpc \in {"yielded", "raise"} \/ status = "abandoned"
FirstOutstanding == IF Held THEN nextToConsume + 1 ELSE nextToConsume

\* Every admitted and unconsumed input is in exactly one place: waiting for its
\* task, in a task, or filed for the consumer; active counts the first two.
WorkAccounted ==
  /\ running \cap completed = {}
  /\ running \cup completed = FirstOutstanding .. launched - 1
  /\ active = Cardinality(running) + (admittedCount - launched)

\* The bytes charged are those of the inputs admitted and not released: the
\* window from the consumer's head to the last admission.
ChargeIsWindow == retainedBytes = Offset[admittedCount] - Offset[nextToConsume]

\* The bookkeeping of the pool (AdaptiveParallel.fs) is the truth about its work and its bytes.
Accounting == WorkAccounted /\ ChargeIsWindow

\* More than MaxRetained bytes are charged only for a single input too large for
\* the bound, admitted alone at the head of the window.
MemoryBound ==
  retainedBytes <= MaxRetained \/ admittedCount = nextToConsume + 1

\* A target lowered while work is under way never lets more than MaxWorkers
\* inputs be worked on, and a consumer that stops taking results holds the
\* finished and the unfinished work together below twice the worker limit.
BacklogBound ==
  /\ active <= MaxWorkers
  /\ Cardinality(completed) + active <= 2 * MaxWorkers - 1

\* Neither the bytes nor the work of the pool outgrow what its caller allowed.
WithinLimits == MemoryBound /\ BacklogBound

\* The consumer never sleeps through its wake-up: while it waits, its result is
\* not there, and when the work is over the producer is still about to pulse.
NoLostWakeup ==
  cpc = "blocked" =>
    /\ nextToConsume \notin completed
    /\ AllConsumed => ppc \in {"launch", "decide", "leave"}

\* Under memory pressure (admission paused) an input is admitted only when no
\* byte is charged at all: the scheduler falls back to one input at a time.
PausedAdmitsAlone ==
  [][admittedCount' > admittedCount /\ admissionPaused => retainedBytes = 0]_vars

\* Once the enumeration is closed no further task is started: the producer has
\* been joined, although tasks started before may still be running.
NoLaunchAfterClose == [][cpc = "closed" => running' \subseteq running]_vars

\* What may be admitted under pressure, and nothing at all started after the end.
AdmissionRules == PausedAdmitsAlone /\ NoLaunchAfterClose

\* The enumeration always ends: whatever the samples say, the head of the line is
\* eventually admitted, computed, delivered and released, and the producer joined.
Termination == <>(cpc = "closed" \/ ~Alive)

\* The results seen by the caller are those of the abstract ordered map.
Delivered ==
  IF status = "failed" THEN nextToConsume - 1 ELSE FirstOutstanding

\* A held result that is about to be raised has not been delivered.
DeliveredResults ==
  IF cpc = "raise" THEN nextToConsume ELSE Delivered

Abstract == INSTANCE OrderedMap WITH delivered <- DeliveredResults
ImplementsOrderedMap == Abstract!OMSpec
================================================================================
