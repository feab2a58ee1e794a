----------------------------- MODULE CaptureQueue -----------------------------
(***************************************************************************)
(* The routing stage of the post-evidence capture                          *)
(* (captureToStoreRestrictedWithCancellation): the calling thread reads    *)
(* the routing work in order of its ordinals and puts it on one bounded    *)
(* queue, worker tasks take it, route it and collect the rows in a row     *)
(* store of their own, and the stores are merged by ordinal.  A failure of *)
(* a worker or of the reader, or the caller's cancellation, reaches        *)
(* everybody through one linked token.                                     *)
(***************************************************************************)
EXTENDS Integers, Sequences

CONSTANTS
  WorkCount,    \* rows of routing work, with ordinals 1 .. WorkCount
  WorkerCount,  \* admittedWorkers
  Failing,      \* ordinals whose routing, or the writing of whose row, may raise
  Unreadable,   \* ordinals the reading of whose row may raise
  MayCancel,    \* whether the caller's token may be cancelled
  MayFillDisk   \* whether writing the merged store may fail

ASSUME CaptureAssumption ==
  WorkCount \in Nat /\ WorkerCount \in Nat \ {0}

Workers == 1 .. WorkerCount
Work == 1 .. WorkCount
Capacity == WorkerCount * 2

VARIABLES
  producer,         \* where the calling thread is
  next,             \* ordinal of the next row to dispatch
  queue,            \* the BlockingCollection
  addingCompleted,
  cancelled,        \* the linked token
  dispatchFailure,
  at,               \* per task: where it is
  item,             \* per task: the row it took last
  rows,             \* per task: the ordinals it has written
  joined,           \* tasks whose result has been awaited
  stores,           \* tasks whose store is on disk or in memory
  cursor,           \* per store: rows the merge has passed
  merged,           \* the merged store
  ownConcurrency    \* whether the graph has its own maximum of workers

vars == <<producer, next, queue, addingCompleted, cancelled, dispatchFailure, at, item, rows,
          joined, stores, cursor, merged, ownConcurrency>>
mainVars == <<producer, next, dispatchFailure, joined>>
queueVars == <<queue, addingCompleted, cancelled>>
workerVars == <<at, item, rows, stores>>
resultVars == <<cursor, merged, ownConcurrency>>

Places == {"idle", "routing", "done", "raised", "cancelled"}

TypeOK ==
  /\ producer \in {"dispatch", "await", "merge", "merged", "raised"}
  /\ next \in 1 .. WorkCount + 1
  /\ queue \in Seq(Work) /\ Len(queue) <= Capacity
  /\ addingCompleted \in BOOLEAN /\ cancelled \in BOOLEAN
  /\ dispatchFailure \in {"none", "unreadable", "cancelled"}
  /\ at \in [Workers -> Places] /\ item \in [Workers -> 0 .. WorkCount]
  /\ rows \in [Workers -> Seq(Work)]
  /\ joined \in 0 .. WorkerCount
  /\ stores \subseteq Workers
  /\ cursor \in [Workers -> Nat]
  /\ merged \in Seq(Work)
  /\ ownConcurrency \in BOOLEAN

\* The tasks are started first; the graph then routes each row on one thread.
Init ==
  /\ producer = "dispatch" /\ next = 1
  /\ queue = <<>> /\ addingCompleted = FALSE /\ cancelled = FALSE
  /\ dispatchFailure = "none"
  /\ at = [w \in Workers |-> "idle"] /\ item = [w \in Workers |-> 0]
  /\ rows = [w \in Workers |-> <<>>]
  /\ joined = 0 /\ stores = {}
  /\ cursor = [w \in Workers |-> 0] /\ merged = <<>>
  /\ ownConcurrency = FALSE

--------------------------------------------------------------------------------
(***************************************************************************)
(* The calling thread, up to the end of the work.                          *)
(***************************************************************************)
HasRoom == Len(queue) < Capacity

Dispatch ==
  /\ producer = "dispatch" /\ next <= WorkCount
  /\ ~cancelled /\ HasRoom
  /\ queue' = Append(queue, next)
  /\ next' = next + 1
  /\ UNCHANGED <<producer, addingCompleted, cancelled, dispatchFailure, joined, workerVars, resultVars>>

\* The row cannot be read, or the token stops the loop before the row is added
\* or while it waits for room.
DispatchFails ==
  /\ producer = "dispatch" /\ next <= WorkCount
  /\ \/ next \in Unreadable /\ dispatchFailure' = "unreadable"
     \/ cancelled /\ dispatchFailure' = "cancelled"
  /\ cancelled' = TRUE
  /\ addingCompleted' = TRUE
  /\ producer' = "await"
  /\ UNCHANGED <<next, queue, joined, workerVars, resultVars>>

DispatchEnds ==
  /\ producer = "dispatch" /\ next > WorkCount
  /\ addingCompleted' = TRUE
  /\ producer' = "await"
  /\ UNCHANGED <<next, queue, cancelled, dispatchFailure, joined, workerVars, resultVars>>

CallerCancels ==
  /\ MayCancel /\ ~cancelled
  /\ producer \in {"dispatch", "await"}
  /\ cancelled' = TRUE
  /\ UNCHANGED <<queue, addingCompleted, mainVars, workerVars, resultVars>>

--------------------------------------------------------------------------------
(***************************************************************************)
(* A worker task: the rows of its store are the queue's consuming          *)
(* enumeration, each routed when it is taken.                              *)
(***************************************************************************)
Move(w, place) == at' = [at EXCEPT ![w] = place]

\* Faulty variant: the newest row is taken first.
TakeNewest(w) ==
  /\ at[w] = "idle"
  /\ queue # <<>> /\ ~cancelled
  /\ Move(w, "routing") /\ item' = [item EXCEPT ![w] = queue[Len(queue)]]
  /\ queue' = SubSeq(queue, 1, Len(queue) - 1)
  /\ UNCHANGED <<addingCompleted, cancelled, rows, stores, mainVars, resultVars>>

Take(w) ==
  /\ at[w] = "idle"
  /\ queue # <<>> /\ ~cancelled
  /\ Move(w, "routing") /\ item' = [item EXCEPT ![w] = Head(queue)]
  /\ queue' = Tail(queue)
  /\ UNCHANGED <<addingCompleted, cancelled, rows, stores, mainVars, resultVars>>

Route(w) ==
  /\ at[w] = "routing"
  /\ rows' = [rows EXCEPT ![w] = Append(@, item[w])]
  /\ Move(w, "idle")
  /\ UNCHANGED <<item, stores, mainVars, queueVars, resultVars>>

\* Faulty variant: the failure is only left in the task.
RouteFailsQuietly(w) ==
  /\ at[w] = "routing" /\ item[w] \in Failing
  /\ Move(w, "raised")
  /\ UNCHANGED <<item, rows, stores, mainVars, queueVars, resultVars>>

\* The store under construction removes its own file; the token tells the others.
RouteFails(w) ==
  /\ at[w] = "routing" /\ item[w] \in Failing
  /\ Move(w, "raised")
  /\ cancelled' = TRUE
  /\ UNCHANGED <<item, queue, addingCompleted, rows, stores, mainVars, resultVars>>

TakeCancelled(w) ==
  /\ at[w] = "idle" /\ cancelled
  /\ Move(w, "cancelled")
  /\ UNCHANGED <<item, rows, stores, mainVars, queueVars, resultVars>>

\* The enumeration ends before it looks at the token.
FinishStore(w) ==
  /\ at[w] = "idle"
  /\ queue = <<>> /\ addingCompleted
  /\ Move(w, "done")
  /\ stores' = stores \cup {w}
  /\ UNCHANGED <<item, rows, mainVars, queueVars, resultVars>>

--------------------------------------------------------------------------------
(***************************************************************************)
(* The calling thread, once everything is dispatched.                      *)
(***************************************************************************)
\* Results are awaited task by task; a store is on hand, or the task's error.
AwaitTask ==
  /\ producer = "await" /\ joined < WorkerCount
  /\ at[joined + 1] \notin {"idle", "routing"}
  /\ joined' = joined + 1
  /\ UNCHANGED <<producer, next, dispatchFailure, queueVars, workerVars, resultVars>>

AllAwaited == producer = "await" /\ joined = WorkerCount

\* Faulty variant: only the tasks are looked at.
FailedWorking == \E w \in Workers : at[w] \in {"raised", "cancelled"}

\* A worker's error comes before the loop's, which may only echo it.
Failed == dispatchFailure # "none" \/ \E w \in Workers : at[w] \in {"raised", "cancelled"}

\* Faulty variant: the stores of the tasks that succeeded are left to the collector.
RaiseLeaving ==
  /\ AllAwaited /\ Failed
  /\ producer' = "raised"
  /\ stores' = stores
  /\ ownConcurrency' = TRUE
  /\ UNCHANGED <<next, dispatchFailure, at, item, rows, joined, cursor, merged, queueVars>>

Raise ==
  /\ AllAwaited /\ Failed
  /\ producer' = "raised"
  /\ stores' = {}
  /\ ownConcurrency' = TRUE
  /\ UNCHANGED <<next, dispatchFailure, at, item, rows, joined, cursor, merged, queueVars>>

StartMerge ==
  /\ AllAwaited /\ ~Failed
  /\ producer' = "merge"
  /\ UNCHANGED <<next, dispatchFailure, joined, queueVars, workerVars, resultVars>>

Active(w) == cursor[w] < Len(rows[w])
Current(w) == rows[w][cursor[w] + 1]

\* MergeSorted takes the row with the least key next.
MergeNext ==
  /\ producer = "merge"
  /\ \E w \in Workers :
       /\ Active(w)
       /\ \A v \in Workers : Active(v) => Current(w) <= Current(v)
       /\ merged' = Append(merged, Current(w))
       /\ cursor' = [cursor EXCEPT ![w] = @ + 1]
  /\ UNCHANGED <<ownConcurrency, mainVars, queueVars, workerVars>>

\* The worker stores go in either case; the partial merged store removes itself.
EndMerge(how) ==
  /\ producer = "merge"
  /\ producer' = how
  /\ stores' = {}
  /\ ownConcurrency' = TRUE
  /\ UNCHANGED <<next, dispatchFailure, at, item, rows, joined, cursor, merged, queueVars>>

MergeEnds == (\A w \in Workers : ~Active(w)) /\ EndMerge("merged")
MergeFails == MayFillDisk /\ EndMerge("raised")

Ended == producer \in {"merged", "raised"} /\ UNCHANGED vars

WorkerStep(w) ==
  \/ Take(w) \/ Route(w) \/ RouteFails(w) \/ TakeCancelled(w) \/ FinishStore(w)

MainStep ==
  \/ Dispatch \/ DispatchFails \/ DispatchEnds
  \/ AwaitTask \/ Raise \/ StartMerge \/ MergeNext \/ MergeEnds \/ MergeFails

Next == MainStep \/ (\E w \in Workers : WorkerStep(w)) \/ CallerCancels \/ Ended

\* The calling thread and every task keep running; nobody has to cancel.
Spec == Init /\ [][Next]_vars /\ WF_vars(MainStep) /\ \A w \in Workers : WF_vars(WorkerStep(w))

--------------------------------------------------------------------------------
\* The merged store has every row of the work once, in order of the ordinals,
\* whichever task took which row (the comment at the queue says that a worker's
\* rows increase, "so its store stays ordered for MergeSorted").
MergedInOrder == producer = "merged" => merged = [i \in Work |-> i]

\* However the stage ends, no worker store is left and the graph has its own
\* concurrency again.
EverythingReleased == producer \in {"merged", "raised"} => stores = {} /\ ownConcurrency

\* A capture that ends well met no failure: an error of a task or of the reader is
\* never lost in the race between the token, the queue's end and the awaited tasks.
FailureSurfaces ==
  producer \in {"merge", "merged"} => /\ next > WorkCount
                                     /\ \A w \in Workers : at[w] = "done"

\* The stage ends: nobody waits for room, for a row or for a task for ever.
Termination == <>(producer \in {"merged", "raised"})
================================================================================
