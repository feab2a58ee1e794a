------------------------------ MODULE OrderedMap ------------------------------
(***************************************************************************)
(* What the ordered parallel maps of ParallelUtils.fs promise a caller who *)
(* enumerates them: the results of the inputs 0, 1, 2, ... one by one and  *)
(* in that order, each at most once; a failing input reported at its own   *)
(* place, after every earlier result and before any later one; and the end *)
(* of the sequence only after the last input.  Nothing is said here of     *)
(* threads, windows or memory: mapParallelOrderedCore (BoundedWindow) and  *)
(* mapParallelOrderedAdaptive (AdaptiveScheduler) implement this.          *)
(***************************************************************************)
EXTENDS Naturals

CONSTANTS
  N,          \* number of inputs
  Failing,    \* the inputs on which the mapped function may raise
  Unreadable  \* positions at which reading the next input may raise (N: at the end)

VARIABLES
  delivered,  \* how many results the caller has been handed
  raised,     \* the inputs on which the function has raised
  status      \* how the enumeration stands

omVars == <<delivered, raised, status>>

OMInit == delivered = 0 /\ raised = {} /\ status = "open"

\* The function raises on an input whose result has not been handed out.
Raise ==
  /\ \E i \in Failing : i >= delivered /\ raised' = raised \cup {i}
  /\ UNCHANGED <<delivered, status>>

Deliver ==
  /\ status = "open"
  /\ delivered < N
  /\ delivered \notin raised
  /\ delivered' = delivered + 1
  /\ UNCHANGED <<raised, status>>

Finish ==
  /\ status = "open"
  /\ delivered = N
  /\ status' = "finished"
  /\ UNCHANGED <<delivered, raised>>

Fail ==
  /\ status = "open"
  /\ delivered \in raised
  /\ status' = "failed"
  /\ UNCHANGED <<delivered, raised>>

\* The caller disposes the enumerator between two results.
Abandon ==
  /\ status = "open"
  /\ delivered > 0
  /\ status' = "abandoned"
  /\ UNCHANGED <<delivered, raised>>

\* Reading an input raises: the exception reaches the caller of a window, and
\* ends the process when it is raised on the adaptive map's producer thread.
Crash ==
  /\ status = "open"
  /\ Unreadable # {}
  /\ status' = "crashed"
  /\ UNCHANGED <<delivered, raised>>

OMNext == Raise \/ Deliver \/ Finish \/ Fail \/ Abandon \/ Crash

OMSpec == OMInit /\ [][OMNext]_omVars
================================================================================
