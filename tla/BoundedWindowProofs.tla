------------------------- MODULE BoundedWindowProofs -------------------------
(***************************************************************************)
(* Proofs about BoundedWindow, for every number of inputs, every weight,   *)
(* every degree of parallelism and byte bound, and every order in which    *)
(* the tasks finish.                                                       *)
(***************************************************************************)
EXTENDS BoundedWindow, TLAPS

(***************************************************************************)
(* The inductive invariant.  It adds to the properties where the caller    *)
(* holds a result, that the queue is empty only at the end of the inputs   *)
(* when the caller comes to await, and which statuses are final.           *)
(***************************************************************************)
Flags == held \in BOOLEAN /\ pending \in BOOLEAN

Numbers ==
  /\ pc \in PCs
  /\ head \in 0 .. N
  /\ enqueued \in 0 .. N
  /\ inFlightBytes \in Nat
  /\ running \subseteq Inputs
  /\ raised \subseteq Failing
  /\ status \in {"open", "finished", "failed", "abandoned", "crashed"}

Shape ==
  /\ head <= enqueued
  /\ \A i \in running : i >= head
  /\ held => head > 0
  /\ pc \in {"fill", "await"} => ~held
  /\ pc = "yielded" => held
  /\ pc # "closed" <=> status = "open"
  /\ pc = "await" /\ head = enqueued => enqueued = N
  /\ status # "failed" => inFlightBytes = Offset[enqueued] - Offset[head]

WindowInv == Flags /\ Numbers /\ Shape /\ WindowBound

LEMMA OffsetMonotone ==
  ASSUME NEW i \in 0 .. N, NEW j \in 0 .. N, i <= j
  PROVE  Offset[i] \in Nat /\ Offset[j] \in Nat /\ Offset[i] <= Offset[j]
<1>1. CASE i = j
  BY <1>1, WindowAssumption
<1>2. CASE i < j
  BY <1>2, WindowAssumption
<1> QED BY <1>1, <1>2, WindowAssumption

LEMMA WindowInit == Init => WindowInv
<1> SUFFICES ASSUME Init PROVE WindowInv
  OBVIOUS
<1>1. Flags
  BY Zenon DEF Init, Flags
<1>2. Numbers /\ Shape
  BY WindowAssumption DEF Init, Numbers, Shape, PCs
<1>3. WindowBound
  BY WindowAssumption DEF Init, WindowBound, Retained, TasksCount
<1> QED BY <1>1, <1>2, <1>3 DEF WindowInv

LEMMA WindowNext == WindowInv /\ [Next]_vars => WindowInv'
<1> SUFFICES ASSUME WindowInv, [Next]_vars
             PROVE  Flags' /\ Numbers' /\ Shape' /\ WindowBound'
  BY DEF WindowInv
<1> USE WindowAssumption DEF TasksCount
<1>a. Numbers /\ Shape /\ WindowBound /\ held \in BOOLEAN
  BY DEF WindowInv, Flags
<1>b. Flags'
  BY Zenon DEF WindowInv, Flags, Next, Enumerator, EnqueueNext, ReadRaises, StopFilling, AwaitHead, Drained, Resume,
     Dispose, TaskEnds, Terminated, vars
<1>1. CASE EnqueueNext
  <2>1. /\ Offset[enqueued] \in Nat /\ Offset[enqueued + 1] \in Nat /\ Offset[head] \in Nat
        /\ Offset[enqueued] < Offset[enqueued + 1]
    BY <1>1, <1>a DEF EnqueueNext, Numbers
  <2>2. Numbers'
    BY <1>1, <1>a, <2>1 DEF EnqueueNext, Numbers, Weight, Inputs
  <2>3. Shape'
    BY <1>1, <1>a, <2>1 DEF EnqueueNext, Shape, Numbers, Weight
  <2>4. WindowBound'
    BY <1>1, <1>a DEF EnqueueNext, WindowBound, Retained, HasRoom, Shape, Numbers
  <2> QED BY <1>b, <2>2, <2>3, <2>4
<1>2. CASE AwaitHead
  <2>1. /\ head' = head + 1 /\ head < enqueued /\ UNCHANGED <<enqueued, running, raised>>
        /\ pc = "await" /\ head \notin running
    BY <1>2, <1>a DEF AwaitHead, Numbers
  <2>2. /\ Offset[enqueued] \in Nat /\ Offset[head] \in Nat /\ Offset[head + 1] \in Nat
        /\ Offset[head + 1] <= Offset[enqueued]
    BY <2>1, <1>a, OffsetMonotone DEF Numbers
  <2>5. \A i \in running' : i >= head'
    BY <2>1, <1>a DEF Shape, Numbers, Inputs
  <2>3. CASE head \in raised
    <3>1. pc' = "closed" /\ status' = "failed" /\ UNCHANGED <<inFlightBytes, held>>
      BY <1>2, <2>3 DEF AwaitHead
    <3>2. Numbers'
      BY <2>1, <3>1, <1>a DEF Numbers, PCs
    <3>3. Shape'
      BY <2>1, <2>5, <3>1, <1>a DEF Shape, Numbers
    <3>4. WindowBound'
      BY <2>1, <3>1, <1>a DEF WindowBound, Retained, Numbers
    <3> QED BY <1>b, <3>2, <3>3, <3>4
  <2>4. CASE head \notin raised
    <3>1. /\ pc' = "yielded" /\ held' = TRUE /\ UNCHANGED status
          /\ inFlightBytes' = inFlightBytes - (Offset[head + 1] - Offset[head])
      BY <1>2, <2>4 DEF AwaitHead, Weight
    <3>2. status = "open" /\ inFlightBytes = Offset[enqueued] - Offset[head]
      BY <2>1, <1>a DEF Shape
    <3>3. inFlightBytes' = Offset[enqueued] - Offset[head + 1] /\ inFlightBytes' \in Nat
      <4> DEFINE a == Offset[enqueued]
                 b == Offset[head + 1]
                 c == Offset[head]
      <4>1. a \in Nat /\ b \in Nat /\ c \in Nat /\ b <= a
        BY <2>2
      <4>2. inFlightBytes' = (a - c) - (b - c)
        BY <3>1, <3>2
      <4>3. inFlightBytes' = a - b /\ inFlightBytes' \in Nat
        <5> HIDE DEF a, b, c
        <5> QED BY <4>1, <4>2
      <4> QED BY <4>3
    <3>4. Numbers'
      BY <2>1, <3>1, <3>3, <1>a DEF Numbers, PCs
    <3>5. Shape'
      BY <2>1, <2>5, <3>1, <3>2, <3>3, <1>a DEF Shape, Numbers
    <3>6. WindowBound'
      BY <2>1, <3>1, <1>a DEF WindowBound, Retained, Numbers, Shape
    <3> QED BY <1>b, <3>4, <3>5, <3>6
  <2> QED BY <2>3, <2>4
<1>3. CASE ReadRaises \/ StopFilling \/ Drained \/ Dispose
  <2>1. Numbers'
    BY <1>3, <1>a DEF ReadRaises, StopFilling, Drained, Dispose, Numbers, PCs
  <2>2. Shape'
    BY <1>3, <1>a DEF ReadRaises, StopFilling, Drained, Dispose, Shape, HasRoom, WithinByteLimit, Numbers
  <2>3. WindowBound'
    BY <1>3, <1>a DEF ReadRaises, StopFilling, Drained, Dispose, WindowBound, Retained
  <2> QED BY <1>b, <2>1, <2>2, <2>3
<1>4. CASE Resume
  <2>1. Numbers' /\ Shape'
    BY <1>4, <1>a DEF Resume, Numbers, Shape, PCs
  <2>2. WindowBound'
    BY <1>4, <1>a DEF Resume, WindowBound, Retained, Numbers, Shape
  <2> QED BY <1>b, <2>1, <2>2
<1>5. ASSUME NEW i \in Inputs, TaskEnds(i) PROVE Flags' /\ Numbers' /\ Shape' /\ WindowBound'
  BY <1>5, <1>b, <1>a DEF TaskEnds, Numbers, Shape, WindowBound, Retained
<1>6. CASE Terminated \/ UNCHANGED vars
  <2>1. UNCHANGED vars
    BY <1>6 DEF Terminated
  <2>2. Numbers' /\ WindowBound'
    BY <2>1, <1>a DEF vars, Numbers, WindowBound, Retained
  <2>3. Shape'
    BY <2>1, <1>a DEF vars, Shape
  <2> QED BY <1>b, <2>2, <2>3
<1> QED BY <1>1, <1>2, <1>3, <1>4, <1>5, <1>6 DEF Next, Enumerator

THEOREM WindowInvariant == Spec => []WindowInv
  BY WindowInit, WindowNext, PTL DEF Spec

\* Every variable of the window keeps its type.
THEOREM TypeCorrect == Spec => []TypeOK
<1>1. WindowInv => TypeOK
  BY Zenon DEF WindowInv, Flags, Numbers, TypeOK
<1> QED BY <1>1, WindowInvariant, PTL

\* Never more than Degree results are retained, as the doc comment promises.
THEOREM WindowIsBounded == Spec => []WindowBound
<1>1. WindowInv => WindowBound
  BY DEF WindowInv
<1> QED BY <1>1, WindowInvariant, PTL

--------------------------------------------------------------------------------
LEMMA BytesBoundNext == WindowInv /\ BytesBound /\ [Next]_vars => BytesBound'
<1> SUFFICES ASSUME WindowInv, WindowInv', BytesBound, [Next]_vars,
                    status' \in {"open", "finished", "abandoned"}
             PROVE  Unbounded \/ inFlightBytes' + HeldBytes' <= MaxBytes \/ Retained' = 1
  BY WindowNext DEF BytesBound, WindowInv, Shape
<1> USE WindowAssumption DEF TasksCount
<1>a. Numbers /\ Shape /\ held \in BOOLEAN
  BY DEF WindowInv, Flags
<1>1. CASE EnqueueNext
  <2>1. ~held /\ UNCHANGED held
    BY <1>1, <1>a DEF EnqueueNext, Shape
  <2>4. HeldBytes' = 0
    BY <2>1 DEF HeldBytes
  <2>2. CASE enqueued - head = 0
    BY <1>1, <2>1, <2>2, <1>a DEF EnqueueNext, Retained, Numbers
  <2>3. CASE enqueued - head # 0
    <3>1. Unbounded \/ inFlightBytes' <= MaxBytes
      BY <1>1, <2>3 DEF EnqueueNext, WithinByteLimit
    <3>2. inFlightBytes' \in Int
      BY DEF WindowInv, Numbers
    <3>3. PICK b \in Int : b = inFlightBytes'
      BY <3>2
    <3>4. inFlightBytes' + HeldBytes' = b + 0
      BY <2>4, <3>3, Zenon
    <3> QED BY <3>1, <3>3, <3>4
  <2> QED BY <2>2, <2>3
<1>2. CASE AwaitHead
  <2>1. /\ head' = head + 1 /\ UNCHANGED <<enqueued, status>>
        /\ held' = TRUE /\ pc = "await" /\ inFlightBytes' = inFlightBytes - Weight(head)
    BY <1>2 DEF AwaitHead
  <2>2. ~held /\ HeldBytes = 0 /\ status = "open"
    BY <2>1, <1>a DEF Shape, HeldBytes
  <2>3. HeldBytes' = Weight(head)
    BY <2>1, <1>a DEF HeldBytes, Weight, Numbers
  <2>4. Weight(head) \in Int /\ inFlightBytes \in Int
    BY <1>2, <1>a DEF Weight, Numbers, AwaitHead
  <2>5. inFlightBytes' + HeldBytes' = inFlightBytes + HeldBytes
    BY <2>1, <2>2, <2>3, <2>4
  <2>6. Retained' = Retained
    BY <2>1, <2>2, <1>a DEF Retained, Numbers
  <2> QED BY <2>2, <2>5, <2>6 DEF BytesBound
<1>3. CASE Resume
  <2>1. UNCHANGED <<inFlightBytes, head, enqueued, status>> /\ held = TRUE /\ held' = FALSE
    BY <1>3, <1>a DEF Resume, Shape
  <2>2. HeldBytes' = 0 /\ HeldBytes \in Nat /\ HeldBytes = Weight(head - 1)
    <3>1. Offset[head - 1] \in Nat /\ Offset[head] \in Nat /\ Offset[head - 1] < Offset[head]
      BY <2>1, <1>a DEF Shape, Numbers
    <3>2. head - 1 + 1 = head
      BY <1>a DEF Numbers
    <3>3. Weight(head - 1) = Offset[head] - Offset[head - 1]
      BY <3>2 DEF Weight
    <3> QED BY <2>1, <3>1, <3>3 DEF HeldBytes
  <2>3. CASE Retained = 1
    <3>1. enqueued = head
      BY <2>1, <2>3, <1>a DEF Retained, Numbers
    <3>2. inFlightBytes' = 0
      BY <1>3, <2>1, <3>1, <1>a DEF Shape, Numbers, Resume
    <3> QED BY <2>2, <3>2
  <2>4. CASE Unbounded \/ inFlightBytes + HeldBytes <= MaxBytes
    BY <2>1, <2>2, <2>4, <1>a DEF Numbers
  <2> QED BY <2>1, <2>3, <2>4 DEF BytesBound
<1>4. CASE UNCHANGED <<inFlightBytes, head, enqueued, held>> /\ status \in {"open", "finished", "abandoned"}
  BY <1>4 DEF BytesBound, HeldBytes, Retained
<1>5. EnqueueNext \/ AwaitHead \/ Resume
        \/ (UNCHANGED <<inFlightBytes, head, enqueued, held>> /\ status \in {"open", "finished", "abandoned"})
  BY <1>a DEF Next, Enumerator, ReadRaises, StopFilling, Drained, Dispose, TaskEnds, Terminated, vars, Shape
<1> QED BY <1>1, <1>2, <1>3, <1>4, <1>5

\* The byte bound counts the result in the caller's hand and yields only to an
\* input that is too large on its own.
THEOREM BytesAreBounded == Spec => []BytesBound
<1>1. Init => BytesBound
  BY WindowAssumption DEF Init, BytesBound, HeldBytes
<1> QED BY <1>1, BytesBoundNext, WindowInvariant, PTL DEF Spec

--------------------------------------------------------------------------------
LEMMA AbstractStep == WindowInv /\ [Next]_vars => [Abstract!OMNext]_(Abstract!omVars)
<1> SUFFICES ASSUME WindowInv, [Next]_vars
             PROVE  Abstract!OMNext \/ UNCHANGED <<DeliveredResults, raised, status>>
  BY DEF Abstract!omVars
<1> USE WindowAssumption DEF TasksCount, DeliveredResults
<1>a. Numbers /\ Shape
  BY DEF WindowInv
<1>1. CASE AwaitHead
  <2>1. status = "open" /\ head < N /\ head' = head + 1 /\ raised' = raised
    BY <1>1, <1>a DEF AwaitHead, Shape, Numbers
  <2>2. CASE head \in raised
    <3>1. status' = "failed"
      BY <1>1, <2>2 DEF AwaitHead
    <3>2. Abstract!Fail
      BY <2>1, <2>2, <3>1, <1>a DEF Abstract!Fail, Numbers
    <3> QED BY <3>2 DEF Abstract!OMNext
  <2>3. CASE head \notin raised
    <3>1. UNCHANGED status
      BY <1>1, <2>3 DEF AwaitHead
    <3>2. Abstract!Deliver
      BY <2>1, <2>3, <3>1 DEF Abstract!Deliver
    <3> QED BY <3>2 DEF Abstract!OMNext
  <2> QED BY <2>2, <2>3
<1>2. CASE Drained
  <2>1. Abstract!Finish
    BY <1>2, <1>a DEF Drained, Shape, Numbers, Abstract!Finish
  <2> QED BY <2>1 DEF Abstract!OMNext
<1>3. CASE Dispose
  <2>1. Abstract!Abandon
    BY <1>3, <1>a DEF Dispose, Shape, Numbers, Abstract!Abandon
  <2> QED BY <2>1 DEF Abstract!OMNext
<1>4. CASE ReadRaises
  <2>1. Abstract!Crash
    BY <1>4, <1>a DEF ReadRaises, Shape, Abstract!Crash
  <2> QED BY <2>1 DEF Abstract!OMNext
<1>5. CASE UNCHANGED <<head, raised, status>>
  BY <1>5
<1>6. ASSUME NEW i \in Inputs, TaskEnds(i), raised' # raised PROVE Abstract!OMNext
  <2>1. /\ i \in Failing /\ raised' = raised \cup {i} /\ UNCHANGED <<head, status>>
        /\ i \in running /\ i \in Int
    BY <1>6 DEF TaskEnds, Inputs
  <2>2. i >= DeliveredResults
    BY <2>1, <1>a DEF Shape, Numbers
  <2>3. Abstract!Raise
    BY <2>1, <2>2 DEF Abstract!Raise
  <2> QED BY <2>3 DEF Abstract!OMNext
<1> QED
  BY <1>1, <1>2, <1>3, <1>4, <1>5, <1>6
  DEF Next, Enumerator, EnqueueNext, StopFilling, Resume, TaskEnds, Terminated, vars

\* The window hands out the results of the ordered map.
THEOREM WindowImplementsOrderedMap == Spec => ImplementsOrderedMap
<1>1. Init => Abstract!OMInit
  BY DEF Init, Abstract!OMInit, DeliveredResults
<1> QED BY <1>1, AbstractStep, WindowInvariant, PTL DEF Spec, ImplementsOrderedMap, Abstract!OMSpec

\* The number and the bytes of results in flight stay within their limits, for any limits.
THEOREM LimitsHold == Spec => []WithinLimits
<1>1. WindowBound /\ BytesBound => WithinLimits
  BY DEF WithinLimits
<1> QED BY <1>1, WindowIsBounded, BytesAreBounded, PTL
================================================================================
