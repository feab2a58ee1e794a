----------------------------- MODULE BoundedWindow -----------------------------
(***************************************************************************)
(* mapParallelOrderedCore of ParallelUtils.fs: the rolling window of tasks *)
(* behind mapParallelOrderedBatches.  One thread, the caller's, runs the   *)
(* enumerator: it keeps up to Degree tasks in a queue, blocks on the       *)
(* oldest, yields its result and refills the window when it is resumed.    *)
(* The tasks run on the thread pool meanwhile.  With Degree = 1 there are  *)
(* no tasks: the caller computes each input itself.                        *)
(***************************************************************************)
EXTENDS Integers, FiniteSets

CONSTANTS
  N,          \* number of inputs, numbered 0 .. N-1
  Offset,     \* Offset[i]: estimated bytes of the inputs before i
  Failing,    \* inputs whose func may raise
  Unreadable, \* positions at which MoveNext or weight may raise
  Degree,     \* degreeOfParallelism
  MaxBytes    \* maximumInFlightBytes, which is positive; 0 stands for None

Unbounded == MaxBytes = 0

\* weight is positive: the code takes max 1L (weight input).
ASSUME WindowAssumption ==
  /\ N \in Nat
  /\ Offset \in [0 .. N -> Nat]
  /\ \A i, j \in 0 .. N : i < j => Offset[i] < Offset[j]
  /\ Failing \subseteq 0 .. N - 1
  /\ Unreadable \subseteq 0 .. N
  /\ Degree \in Nat \ {0}
  /\ MaxBytes \in Nat

Inputs == 0 .. N - 1
Weight(i) == Offset[i + 1] - Offset[i]

VARIABLES
  pc,             \* where the caller's thread is in the enumerator
  head,           \* ordinal of the oldest task not yet awaited: the front of tasks
  enqueued,       \* inputs whose task has been started: the end of tasks
  pending,        \* what comes next, an input or the end, has been read already
  inFlightBytes,  \* estimated bytes of the tasks in the queue
  running,        \* tasks that have not finished
  raised,         \* inputs whose task ended in an exception
  held,           \* the caller holds the result of input head - 1
  status          \* how the enumeration stands, as in OrderedMap

vars == <<pc, head, enqueued, pending, inFlightBytes, running, raised, held, status>>

PCs == {"fill", "await", "yielded", "closed"}

TypeOK ==
  /\ pc \in PCs
  /\ head \in 0 .. N
  /\ enqueued \in 0 .. N
  /\ pending \in BOOLEAN
  /\ inFlightBytes \in Nat
  /\ running \subseteq Inputs
  /\ raised \subseteq Failing
  /\ held \in BOOLEAN
  /\ status \in {"open", "finished", "failed", "abandoned", "crashed"}

Init ==
  /\ pc = "fill"
  /\ head = 0
  /\ enqueued = 0
  /\ pending = FALSE
  /\ inFlightBytes = 0
  /\ running = {}
  /\ raised = {}
  /\ held = FALSE
  /\ status = "open"

TasksCount == enqueued - head

HasRoom == TasksCount < Degree

\* Faulty variant: an input is enqueued as long as the bytes before it fit.
FitsBefore == Unbounded \/ TasksCount = 0 \/ inFlightBytes <= MaxBytes

WithinByteLimit ==
  Unbounded \/ TasksCount = 0 \/ inFlightBytes + Weight(enqueued) <= MaxBytes

(***************************************************************************)
(* Filling the window.  With Degree = 1 the caller calls func itself when  *)
(* it needs the input, which is a window of one task that is awaited at    *)
(* once.  An input that does not fit stays pending and is tried again.     *)
(***************************************************************************)
EnqueueNext ==
  /\ pc = "fill"
  /\ HasRoom
  /\ enqueued < N
  /\ WithinByteLimit
  /\ enqueued' = enqueued + 1
  /\ pending' = FALSE
  /\ inFlightBytes' = inFlightBytes + Weight(enqueued)
  /\ running' = running \cup {enqueued}
  /\ UNCHANGED <<pc, head, held, raised, status>>

\* MoveNext or weight raises: the exception reaches the caller.
ReadRaises ==
  /\ pc = "fill"
  /\ HasRoom
  /\ ~pending /\ enqueued \in Unreadable
  /\ pc' = "closed"
  /\ status' = "crashed"
  /\ UNCHANGED <<head, enqueued, pending, inFlightBytes, running, raised, held>>

StopFilling ==
  /\ pc = "fill"
  /\ \/ ~HasRoom /\ UNCHANGED pending
     \/ /\ HasRoom
        /\ enqueued < N => ~WithinByteLimit
        /\ pending' = TRUE
  /\ pc' = "await"
  /\ UNCHANGED <<head, enqueued, inFlightBytes, running, held, raised, status>>

(***************************************************************************)
(* Awaiting the oldest task and handing out its result.                    *)
(***************************************************************************)
\* Faulty variants: a failed task is run again; an exception is handed out as a result.
AwaitHeadRetries ==
  /\ pc = "await"
  /\ TasksCount > 0
  /\ head \notin running
  /\ IF head \in raised
     THEN /\ running' = running \cup {head}
          /\ UNCHANGED <<pc, head, inFlightBytes, held>>
     ELSE /\ pc' = "yielded"
          /\ head' = head + 1
          /\ held' = TRUE
          /\ inFlightBytes' = inFlightBytes - Weight(head)
          /\ UNCHANGED running
  /\ UNCHANGED <<enqueued, pending, raised, status>>

AwaitUnchecked ==
  /\ pc = "await"
  /\ TasksCount > 0
  /\ head \notin running
  /\ head' = head + 1
  /\ pc' = "yielded"
  /\ held' = TRUE
  /\ inFlightBytes' = inFlightBytes - Weight(head)
  /\ UNCHANGED <<enqueued, pending, running, raised, status>>

AwaitHead ==
  /\ pc = "await"
  /\ TasksCount > 0
  /\ head \notin running
  /\ head' = head + 1
  /\ IF head \in raised
     THEN /\ pc' = "closed"
          /\ status' = "failed"
          /\ UNCHANGED <<inFlightBytes, held>>
     ELSE /\ pc' = "yielded"
          /\ held' = TRUE
          /\ inFlightBytes' = inFlightBytes - Weight(head)
          /\ UNCHANGED status
  /\ UNCHANGED <<enqueued, pending, running, raised>>

Drained ==
  /\ pc = "await"
  /\ TasksCount = 0
  /\ pc' = "closed"
  /\ status' = "finished"
  /\ UNCHANGED <<head, enqueued, pending, inFlightBytes, running, raised, held>>

\* The caller asks for the next result: the last one is cleared first.
Resume ==
  /\ pc = "yielded"
  /\ pc' = "fill"
  /\ held' = FALSE
  /\ UNCHANGED <<head, enqueued, pending, inFlightBytes, running, raised, status>>

\* The caller disposes the enumerator; the tasks in the queue are left to run.
Dispose ==
  /\ pc = "yielded"
  /\ pc' = "closed"
  /\ status' = "abandoned"
  /\ UNCHANGED <<head, enqueued, pending, inFlightBytes, running, raised, held>>

\* A task returns or raises.
TaskEnds(i) ==
  /\ i \in running
  /\ running' = running \ {i}
  /\ \/ UNCHANGED raised
     \/ i \in Failing /\ raised' = raised \cup {i}
  /\ UNCHANGED <<pc, head, enqueued, pending, inFlightBytes, held, status>>

Enumerator == EnqueueNext \/ ReadRaises \/ StopFilling \/ AwaitHead \/ Drained \/ Resume \/ Dispose

Terminated == pc = "closed" /\ running = {} /\ UNCHANGED vars

Next == Enumerator \/ (\E i \in Inputs : TaskEnds(i)) \/ Terminated

Spec == Init /\ [][Next]_vars

\* The thread pool runs every task, func returns, and the caller goes on.
Fairness == WF_vars(Enumerator) /\ \A i \in Inputs : WF_vars(TaskEnds(i))

FairSpec == Spec /\ Fairness
--------------------------------------------------------------------------------
(***************************************************************************)
(* Properties.                                                             *)
(***************************************************************************)
\* Inputs whose result exists or is being computed and is not let go: those the
\* doc comment of mapParallelOrderedBatches calls retained.
Retained == TasksCount + (IF held THEN 1 ELSE 0)

\* Never more than Degree results are retained, the one the caller is working on
\* included, whatever the order in which the tasks finish.
WindowBound == Retained <= Degree

\* The bytes in flight are those of the tasks in the queue, and together with the
\* result in the caller's hand they exceed the bound only for a single input.
HeldBytes == IF held THEN Weight(head - 1) ELSE 0

BytesBound ==
  status \in {"open", "finished", "abandoned"} =>
    /\ inFlightBytes = Offset[enqueued] - Offset[head]
    /\ Unbounded \/ inFlightBytes + HeldBytes <= MaxBytes \/ Retained = 1

\* Neither the number nor the bytes of the results in flight outgrow the limits.
WithinLimits == WindowBound /\ BytesBound

\* Every enumeration comes to an end.
Termination == <>(pc = "closed")

\* The caller sees the results of the ordered map.
DeliveredResults == IF status = "failed" THEN head - 1 ELSE head

Abstract == INSTANCE OrderedMap WITH delivered <- DeliveredResults
ImplementsOrderedMap == Abstract!OMSpec
================================================================================
