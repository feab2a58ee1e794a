----------------------- MODULE AdaptiveSchedulerProofs -----------------------
(***************************************************************************)
(* Proofs about AdaptiveScheduler, for every number of inputs, every       *)
(* weight, worker limit and byte bound, every failing or unreadable input  *)
(* and every sequence of memory and CPU samples.                           *)
(***************************************************************************)
EXTENDS AdaptiveScheduler, FiniteSetTheorems, TLAPS

(***************************************************************************)
(* The inductive invariant.  WorkAccounted and ChargeIsWindow say what the *)
(* books hold; Window and Stages say where the two threads can be, which   *)
(* both need: a result is in hand only if its task was started, and the    *)
(* producer goes back to admitting only when every admitted input has a    *)
(* task.                                                                   *)
(***************************************************************************)
Window == nextToConsume <= FirstOutstanding /\ FirstOutstanding <= launched /\ launched <= admittedCount

Stages ==
  /\ ppc \in {"start", "blocked", "decide", "leave", "done"} => launched = admittedCount
  /\ Alive /\ cpc \in {"take", "blocked", "yielded", "raise"} => status = "open"
  /\ status = "abandoned" => cpc \in {"cancel", "join", "closed"}
  /\ status = "failed" => cpc \in {"cancel", "join", "closed"}
  /\ cpc = "raise" => nextToConsume \in raised
  /\ exhausted => admittedCount = N
  /\ cpc \in {"join", "closed"} => cancelled
  /\ cpc = "closed" => ppc = "done"

\* TypeOK in two parts: the flags, and the variables that count or name a stage.
Flags ==
  /\ pending \in BOOLEAN
  /\ exhausted \in BOOLEAN
  /\ cancelled \in BOOLEAN
  /\ admissionPaused \in BOOLEAN

Counters ==
  /\ completed \subseteq Inputs
  /\ raised \subseteq Failing
  /\ active \in Nat
  /\ retainedBytes \in Nat
  /\ admittedCount \in 0 .. N
  /\ targetWorkers \in 1 .. MaxWorkers
  /\ nextToConsume \in 0 .. N
  /\ ppc \in ProducerStates
  /\ launched \in 0 .. N
  /\ running \subseteq Inputs
  /\ cpc \in ConsumerStates
  /\ status \in {"open", "finished", "failed", "abandoned", "crashed"}

Books == Flags /\ Counters /\ WorkAccounted /\ ChargeIsWindow /\ Window /\ Stages

--------------------------------------------------------------------------------
(***************************************************************************)
(* Arithmetic of the window and of the controller.                         *)
(***************************************************************************)
LEMMA OffsetMonotone ==
  ASSUME NEW i \in 0 .. N, NEW j \in 0 .. N, i <= j
  PROVE  Offset[i] \in Nat /\ Offset[j] \in Nat /\ Offset[i] <= Offset[j]
<1>1. CASE i = j
  BY <1>1, SchedulerAssumption
<1>2. CASE i < j
  BY <1>2, SchedulerAssumption
<1> QED BY <1>1, <1>2, SchedulerAssumption

\* The controller keeps its target between one worker and the worker limit.
LEMMA SampleKeepsTarget ==
  ASSUME targetWorkers \in 1 .. MaxWorkers, admissionPaused \in BOOLEAN,
         NEW ratio \in MemoryRatios, NEW cpu \in CpuLoads, Sample(ratio, cpu)
  PROVE  targetWorkers' \in 1 .. MaxWorkers /\ admissionPaused' \in BOOLEAN
<1> USE SchedulerAssumption
<1>1. CASE ratio >= 95
  BY <1>1 DEF Sample, AtLeastOne
<1>2. CASE ~(ratio >= 95) /\ admissionPaused /\ ratio >= 80
  BY <1>2 DEF Sample
<1>3. CASE ~(ratio >= 95) /\ ~(admissionPaused /\ ratio >= 80) /\ ratio > 85
  <2>1. targetWorkers' = AtLeastOne((targetWorkers * 3) \div 4) /\ admissionPaused' = FALSE
    BY <1>3 DEF Sample
  <2>2. PICK u \in Int : u = (targetWorkers * 3) \div 4
    OBVIOUS
  <2>3. u <= targetWorkers
    BY <2>2
  <2>4. targetWorkers' = AtLeastOne(u)
    BY <2>1, <2>2
  <2>5. targetWorkers' \in 1 .. MaxWorkers
    BY <2>3, <2>4 DEF AtLeastOne
  <2> QED BY <2>1, <2>5
<1>4. CASE ~(ratio >= 95) /\ ~(admissionPaused /\ ratio >= 80) /\ ~(ratio > 85)
           /\ (ratio >= 80 \/ cpu >= 90 \/ ~WorkQueued \/ ~BacklogHealthy)
  BY <1>4 DEF Sample
<1>5. CASE ~(ratio >= 95) /\ ~(admissionPaused /\ ratio >= 80) /\ ~(ratio > 85)
           /\ ~(ratio >= 80 \/ cpu >= 90 \/ ~WorkQueued \/ ~BacklogHealthy)
  <2>1. /\ targetWorkers' = AtMost(targetWorkers + Larger(2, targetWorkers \div 4), MaxWorkers)
        /\ admissionPaused' = FALSE
    BY <1>5 DEF Sample
  <2>2. PICK u \in Nat : u = Larger(2, targetWorkers \div 4)
    BY DEF Larger
  <2>3. targetWorkers' = AtMost(targetWorkers + u, MaxWorkers)
    BY <2>1, <2>2
  <2>4. targetWorkers' \in 1 .. MaxWorkers
    BY <2>3 DEF AtMost
  <2> QED BY <2>1, <2>4
<1> QED BY <1>1, <1>2, <1>3, <1>4, <1>5

\* Sets of inputs are finite.
LEMMA InputsFinite ==
  ASSUME NEW S \in SUBSET Inputs
  PROVE  IsFiniteSet(S) /\ Cardinality(S) \in Nat
<1>1. IsFiniteSet(Inputs)
  BY FS_Interval, SchedulerAssumption DEF Inputs
<1> QED BY <1>1, FS_Subset, FS_CardinalityType

--------------------------------------------------------------------------------
(***************************************************************************)
(* The books balance.                                                      *)
(***************************************************************************)
LEMMA TypeParts == Flags /\ Counters <=> TypeOK
  BY Zenon DEF Flags, Counters, TypeOK

LEMMA BooksInit == Init => Books
<1> SUFFICES ASSUME Init PROVE Books
  OBVIOUS
<1>1. Flags
  BY Zenon DEF Init, Flags
<1>2. Counters
  BY SchedulerAssumption DEF Init, Counters, ProducerStates, ConsumerStates, Inputs
<1>3. WorkAccounted
  BY SchedulerAssumption, FS_EmptySet DEF Init, WorkAccounted, FirstOutstanding, Held
<1>4. ChargeIsWindow
  BY SchedulerAssumption DEF Init, ChargeIsWindow
<1>5. Window /\ Stages
  BY DEF Init, Window, Stages, FirstOutstanding, Held, Alive
<1> QED BY <1>1, <1>2, <1>3, <1>4, <1>5 DEF Books

LEMMA FlagsKept == Flags /\ Counters /\ [Next]_vars => Flags'
<1> SUFFICES ASSUME Flags, Counters, [Next]_vars PROVE Flags'
  OBVIOUS
<1> USE DEF Flags
<1>1. CASE EnterGate
  <2>1. admissionPaused' \in BOOLEAN
    BY <1>1, SampleKeepsTarget, Zenon DEF EnterGate, Counters
  <2> QED BY <1>1, <2>1, Zenon DEF EnterGate
<1>2. CASE AdmitNext \/ LeaveGate
  BY <1>2, Zenon DEF AdmitNext, LeaveGate
<1>3. CASE ProducerRaises \/ WaitTimesOut \/ Launch \/ Decide \/ Leave
  BY <1>3, Zenon DEF ProducerRaises, WaitTimesOut, Launch, Decide, Leave, shared
<1>4. CASE \E i \in Inputs : Complete(i)
  BY <1>4, Zenon DEF Complete
<1>5. CASE Take \/ Advance \/ RaiseError
  BY <1>5, Zenon DEF Take, Advance, RaiseError, ReleaseHead
<1>6. CASE Dispose \/ Cancel \/ Join
  BY <1>6, Zenon DEF Dispose, Cancel, Join, shared
<1>7. CASE Terminated \/ UNCHANGED vars
  BY <1>7, Zenon DEF Terminated, vars, shared
<1> QED
  BY <1>1, <1>2, <1>3, <1>4, <1>5, <1>6, <1>7, Zenon DEF Next, Producer, Consumer

\* Filing a result moves its input from running to completed.
LEMMA MoveToCompleted ==
  ASSUME NEW R \in SUBSET Inputs, NEW D \in SUBSET Inputs, NEW i \in R, R \cap D = {}
  PROVE  /\ (R \ {i}) \cap (D \cup {i}) = {}
         /\ (R \ {i}) \cup (D \cup {i}) = R \cup D
         /\ Cardinality(R \ {i}) = Cardinality(R) - 1
         /\ Cardinality(R) \in Nat \ {0}
<1>1. Cardinality(R \ {i}) = Cardinality(R) - 1 /\ IsFiniteSet(R) /\ Cardinality(R \ {i}) \in Nat
  BY InputsFinite, FS_RemoveElement, FS_CardinalityType
<1> QED BY <1>1, InputsFinite

LEMMA BooksNext == Books /\ [Next]_vars => Books'
<1> SUFFICES ASSUME Books, [Next]_vars PROVE Books'
  OBVIOUS
<1> USE SchedulerAssumption
<1> Flags'
  BY FlagsKept DEF Books
<1>a. /\ Counters /\ WorkAccounted /\ ChargeIsWindow /\ Window /\ Stages
      /\ Cardinality(running) \in Nat
  BY InputsFinite DEF Books, Counters
<1> SUFFICES Counters' /\ WorkAccounted' /\ ChargeIsWindow' /\ Window' /\ Stages'
  BY DEF Books
<1>1. CASE EnterGate
  <2>1. targetWorkers' \in 1 .. MaxWorkers
    BY <1>1, SampleKeepsTarget, Zenon DEF EnterGate, Books, Flags, Counters
  <2>2. Counters'
    BY <1>1, <1>a, <2>1 DEF EnterGate, Counters, ProducerStates
  <2>3. WorkAccounted' /\ ChargeIsWindow' /\ Window'
    BY <1>1, <1>a DEF EnterGate, WorkAccounted, ChargeIsWindow, Window, FirstOutstanding, Held
  <2>4. Stages'
    BY <1>1, <1>a DEF EnterGate, Stages, Alive
  <2> QED BY <2>2, <2>3, <2>4
<1>2. CASE AdmitNext
  <2>1. Offset[admittedCount + 1] \in Nat /\ Offset[admittedCount] \in Nat
        /\ Offset[admittedCount] < Offset[admittedCount + 1]
        /\ Offset[nextToConsume] \in Nat
    BY <1>2, <1>a DEF AdmitNext, Counters
  <2>2. Counters'
    BY <1>2, <1>a, <2>1 DEF AdmitNext, Counters, Weight
  <2>3. WorkAccounted' /\ Window'
    <3>1. /\ admittedCount' = admittedCount + 1 /\ active' = active + 1
          /\ UNCHANGED <<completed, nextToConsume, launched, running>>
      BY <1>2 DEF AdmitNext
    <3>2. FirstOutstanding' = FirstOutstanding
      BY <1>2 DEF AdmitNext, FirstOutstanding, Held
    <3>3. /\ active \in Nat /\ admittedCount \in Nat /\ launched \in Nat /\ nextToConsume \in Nat
          /\ launched <= admittedCount
      BY <1>a DEF Counters, Window
    <3>4. Window'
      BY <3>1, <3>2, <3>3, <1>a DEF Window
    <3>5. running' \cap completed' = {} /\ running' \cup completed' = FirstOutstanding' .. launched' - 1
      BY <3>1, <3>2, <1>a DEF WorkAccounted
    <3>6. active' = Cardinality(running') + (admittedCount' - launched')
      <4>1. active = Cardinality(running) + (admittedCount - launched) /\ Cardinality(running) \in Nat
        <5>1. IsFiniteSet(running)
          BY <1>a, InputsFinite DEF Counters
        <5> QED BY <5>1, <1>a, FS_CardinalityType DEF WorkAccounted
      <4>2. running' = running
        BY <3>1
      <4> QED BY <3>1, <3>3, <4>1, <4>2
    <3> QED BY <3>4, <3>5, <3>6 DEF WorkAccounted
  <2>4. ChargeIsWindow'
    <3>1. /\ admittedCount' = admittedCount + 1 /\ UNCHANGED nextToConsume
          /\ retainedBytes' = retainedBytes + (Offset[admittedCount + 1] - Offset[admittedCount])
      BY <1>2 DEF AdmitNext, Weight
    <3>2. retainedBytes = Offset[admittedCount] - Offset[nextToConsume]
      BY <1>a DEF ChargeIsWindow
    <3>3. retainedBytes' = Offset[admittedCount + 1] - Offset[nextToConsume]
      BY <2>1, <3>1, <3>2
    <3> QED BY <3>1, <3>3 DEF ChargeIsWindow
  <2>5. Stages'
    BY <1>2, <1>a DEF AdmitNext, Stages, Alive, MayFill, Counters
  <2> QED BY <2>2, <2>3, <2>4, <2>5
<1>3. CASE ProducerRaises \/ WaitTimesOut \/ Decide
  <2>1. Counters'
    BY <1>3, <1>a DEF ProducerRaises, WaitTimesOut, Decide, Counters, ProducerStates, shared
  <2>2. WorkAccounted' /\ ChargeIsWindow' /\ Window'
    BY <1>3, <1>a DEF ProducerRaises, WaitTimesOut, Decide, shared,
       WorkAccounted, ChargeIsWindow, Window, FirstOutstanding, Held
  <2>3. Stages'
    BY <1>3, <1>a DEF ProducerRaises, WaitTimesOut, Decide, Stages, Alive, shared, MayFill
  <2> QED BY <2>1, <2>2, <2>3
<1>4. CASE LeaveGate
  <2>1. Counters'
    BY <1>4, <1>a DEF LeaveGate, Counters, ProducerStates
  <2>2. WorkAccounted' /\ ChargeIsWindow' /\ Window'
    BY <1>4, <1>a DEF LeaveGate, WorkAccounted, ChargeIsWindow, Window, FirstOutstanding, Held
  <2>3. Stages'
    BY <1>4, <1>a DEF LeaveGate, Stages, Alive
  <2> QED BY <2>1, <2>2, <2>3
<1>5. CASE Launch /\ launched < admittedCount
  <2>1. /\ running' = running \cup {launched}
        /\ launched' = launched + 1
        /\ ppc = "launch"
        /\ UNCHANGED <<shared, ppc, cpc, status>>
    BY <1>5 DEF Launch
  <2>2. launched \in Inputs /\ launched + 1 \in 0 .. N
    BY <1>5, <1>a DEF Counters, Inputs
  <2>3. Counters'
    BY <2>1, <2>2, <1>a DEF Counters, shared
  <2>4. ChargeIsWindow' /\ Window' /\ Stages'
    BY <1>5, <2>1, <1>a DEF ChargeIsWindow, Window, Stages, FirstOutstanding, Held, Alive, Counters, shared
  <2>5. WorkAccounted'
    <3>1. launched \notin running /\ launched \notin completed
      BY <1>a DEF WorkAccounted, Counters, FirstOutstanding, Inputs
    <3>2. Cardinality(running') = Cardinality(running) + 1
      BY <2>1, <3>1, <1>a, InputsFinite, FS_AddElement DEF Counters
    <3>3. (running \cup completed) \cup {launched} = FirstOutstanding .. launched
      <4>1. running \cup completed = FirstOutstanding .. launched - 1
        BY <1>a DEF WorkAccounted
      <4>2. FirstOutstanding \in Int /\ launched \in Int /\ FirstOutstanding <= launched
        BY <1>a DEF Window, Counters, FirstOutstanding
      <4> QED BY <4>1, <4>2
    <3>4. running' \cup completed' = FirstOutstanding' .. launched' - 1
      BY <2>1, <3>3, <1>a DEF shared, FirstOutstanding, Held, Counters
    <3>5. active' = Cardinality(running') + (admittedCount' - launched')
      BY <2>1, <3>2, <1>a DEF WorkAccounted, shared, Counters
    <3>6. running' \cap completed' = {}
      BY <2>1, <3>1, <1>a DEF WorkAccounted, shared
    <3> QED BY <3>4, <3>5, <3>6 DEF WorkAccounted
  <2> QED BY <2>3, <2>4, <2>5
<1>13. CASE Launch /\ ~(launched < admittedCount)
  <2>1. /\ ppc' = "decide"
        /\ UNCHANGED <<shared, launched, running, cpc, status>>
        /\ ppc = "launch"
    BY <1>13 DEF Launch
  <2>2. Counters'
    BY <2>1, <1>a DEF Counters, ProducerStates, shared
  <2>3. WorkAccounted' /\ ChargeIsWindow' /\ Window'
    BY <2>1, <1>a DEF WorkAccounted, ChargeIsWindow, Window, FirstOutstanding, Held, shared
  <2>4. Stages'
    BY <1>13, <2>1, <1>a DEF Stages, Alive, shared, Window, Counters
  <2> QED BY <2>2, <2>3, <2>4
<1>6. CASE Leave
  <2>1. Counters'
    BY <1>6, <1>a DEF Leave, PulseConsumer, Woken, Counters, ProducerStates, ConsumerStates, shared
  <2>2. WorkAccounted' /\ ChargeIsWindow' /\ Window'
    BY <1>6, <1>a DEF Leave, PulseConsumer, Woken, shared,
       WorkAccounted, ChargeIsWindow, Window, FirstOutstanding, Held
  <2>3. Stages'
    BY <1>6, <1>a DEF Leave, PulseConsumer, Woken, Stages, Alive, shared
  <2> QED BY <2>1, <2>2, <2>3
<1>7. ASSUME NEW i \in Inputs, Complete(i) PROVE Counters' /\ WorkAccounted' /\ ChargeIsWindow' /\ Window' /\ Stages'
  <2>1. /\ i \in running /\ running' = running \ {i} /\ completed' = completed \cup {i}
        /\ active' = active - 1
        /\ UNCHANGED <<pending, retainedBytes, admittedCount, exhausted, cancelled, targetWorkers,
                       admissionPaused, nextToConsume, launched, status>>
    BY <1>7 DEF Complete
  <2>2. raised \subseteq raised' /\ raised' \subseteq raised \cup Failing
    BY <1>7 DEF Complete, Outcome
  <2>3. /\ running' \cap completed' = {}
        /\ running' \cup completed' = running \cup completed
        /\ Cardinality(running') = Cardinality(running) - 1
        /\ Cardinality(running) \in Nat \ {0}
    <3>1. running \in SUBSET Inputs /\ completed \in SUBSET Inputs /\ running \cap completed = {}
      BY <1>a DEF Counters, WorkAccounted
    <3>2. i \in running /\ running' = running \ {i} /\ completed' = completed \cup {i}
      BY <2>1
    <3>3. /\ (running \ {i}) \cap (completed \cup {i}) = {}
          /\ (running \ {i}) \cup (completed \cup {i}) = running \cup completed
          /\ Cardinality(running \ {i}) = Cardinality(running) - 1
          /\ Cardinality(running) \in Nat \ {0}
      BY <3>1, <3>2, MoveToCompleted
    <3> QED BY <3>2, <3>3
  <2>4. FirstOutstanding' = FirstOutstanding
    BY <1>7 DEF Complete, PulseConsumer, Woken, FirstOutstanding, Held
  <2>5. active - 1 \in Nat
    <3>1. active = Cardinality(running) + (admittedCount - launched)
      BY <1>a DEF WorkAccounted
    <3>2. launched \in 0 .. N /\ admittedCount \in 0 .. N /\ launched <= admittedCount
      BY <1>a DEF Counters, Window
    <3>3. Cardinality(running) \in Nat \ {0}
      BY <2>3
    <3> QED BY <3>1, <3>2, <3>3
  <2>6. ppc' \in ProducerStates /\ cpc' \in ConsumerStates
    BY <1>7, <1>a DEF Complete, PulseConsumer, PulseProducer, Woken, Counters, ProducerStates, ConsumerStates
  <2>7. Counters'
    <3>1. running' \subseteq Inputs /\ completed' \subseteq Inputs
      BY <2>1, <1>a DEF Counters
    <3>2. raised' \subseteq Failing /\ active' \in Nat
      BY <2>1, <2>2, <2>5, <1>a DEF Counters
    <3>3. /\ retainedBytes' \in Nat /\ admittedCount' \in 0 .. N /\ targetWorkers' \in 1 .. MaxWorkers
          /\ nextToConsume' \in 0 .. N /\ launched' \in 0 .. N
          /\ status' \in {"open", "finished", "failed", "abandoned", "crashed"}
      BY <2>1, <1>a DEF Counters
    <3> QED BY <3>1, <3>2, <3>3, <2>6, Zenon DEF Counters
  <2>8. WorkAccounted'
    <3>1. running' \cap completed' = {}
      BY <2>3
    <3>2. running' \cup completed' = FirstOutstanding' .. launched' - 1
      <4>1. launched' = launched /\ running \cup completed = FirstOutstanding .. launched - 1
        BY <2>1, <1>a DEF WorkAccounted
      <4> QED BY <4>1, <2>3, <2>4
    <3>3. active' = Cardinality(running') + (admittedCount' - launched')
      <4>1. active = Cardinality(running) + (admittedCount - launched)
        BY <1>a DEF WorkAccounted
      <4>2. active' = active - 1 /\ admittedCount' = admittedCount /\ launched' = launched
        BY <2>1
      <4>3. Cardinality(running) \in Nat /\ Cardinality(running') = Cardinality(running) - 1
        BY <2>3
      <4>4. admittedCount \in Nat /\ launched \in Nat
        BY <1>a DEF Counters
      <4> QED BY <4>1, <4>2, <4>3, <4>4
    <3> QED BY <3>1, <3>2, <3>3 DEF WorkAccounted
  <2>9. ChargeIsWindow' /\ Window'
    BY <2>1, <2>4, <1>a DEF ChargeIsWindow, Window
  <2>10. Stages'
    BY <1>7, <2>2, <1>a DEF Complete, PulseConsumer, PulseProducer, Woken, Stages, Alive
  <2> QED BY <2>7, <2>8, <2>9, <2>10
<1>8. CASE Take
  <2>1. CASE nextToConsume \in completed
    <3>1. /\ completed' = completed \ {nextToConsume}
          /\ cpc' = IF nextToConsume \in raised THEN "raise" ELSE "yielded"
          /\ cpc = "take" /\ ppc # "crashed"
          /\ UNCHANGED <<raised, pending, active, retainedBytes, admittedCount, exhausted, cancelled, targetWorkers,
                 admissionPaused, nextToConsume, ppc, launched, running, status>>
      BY <1>8, <2>1 DEF Take, GateFree
    <3>2. status = "open" /\ FirstOutstanding = nextToConsume /\ FirstOutstanding' = nextToConsume + 1
      BY <3>1, <1>a DEF Stages, Alive, FirstOutstanding, Held
    <3>3. nextToConsume < launched
      BY <2>1, <1>a, <3>2 DEF WorkAccounted, Counters, Inputs
    <3>4. Counters'
      BY <3>1, <1>a DEF Counters, ConsumerStates
    <3>5. WorkAccounted'
      <4>1. (running \cup completed) \ {nextToConsume} = nextToConsume + 1 .. launched - 1
        <5>1. running \cup completed = nextToConsume .. launched - 1
          BY <1>a, <3>2 DEF WorkAccounted
        <5>2. nextToConsume \in Int /\ launched \in Int
          BY <1>a DEF Counters
        <5> QED BY <5>1, <5>2
      <4>2. running \cup (completed \ {nextToConsume}) = nextToConsume + 1 .. launched - 1
        BY <4>1, <2>1, <1>a DEF WorkAccounted
      <4> QED BY <3>1, <3>2, <4>2, <1>a DEF WorkAccounted
    <3>6. ChargeIsWindow' /\ Window'
      BY <3>1, <3>2, <3>3, <1>a DEF ChargeIsWindow, Window, Counters
    <3>7. Stages'
      BY <3>1, <3>2, <1>a DEF Stages, Alive
    <3> QED BY <3>4, <3>5, <3>6, <3>7
  <2>2. CASE nextToConsume \notin completed
    <3>1. /\ cpc = "take" /\ ppc # "crashed"
          /\ \/ cpc' = "cancel" /\ status' = "finished"
             \/ cpc' = "blocked" /\ UNCHANGED status
          /\ UNCHANGED <<completed, raised, pending, active, retainedBytes, admittedCount, exhausted, cancelled,
                 targetWorkers, admissionPaused, nextToConsume, ppc, launched, running>>
      BY <1>8, <2>2 DEF Take, GateFree
    <3>2. status = "open" /\ FirstOutstanding' = FirstOutstanding
      BY <3>1, <1>a DEF Stages, Alive, FirstOutstanding, Held
    <3>3. Counters'
      BY <3>1, <1>a DEF Counters, ConsumerStates
    <3>4. WorkAccounted' /\ ChargeIsWindow' /\ Window'
      BY <3>1, <3>2, <1>a DEF WorkAccounted, ChargeIsWindow, Window
    <3>5. Stages'
      BY <3>1, <3>2, <1>a DEF Stages, Alive
    <3> QED BY <3>3, <3>4, <3>5
  <2> QED BY <2>1, <2>2
<1>9. CASE Advance \/ RaiseError
  <2>1. /\ cpc \in {"yielded", "raise"} /\ ppc # "crashed"
        /\ retainedBytes' = retainedBytes - Weight(nextToConsume)
        /\ nextToConsume' = nextToConsume + 1
        /\ PulseProducer
        /\ \/ cpc' = "take" /\ UNCHANGED status
           \/ cpc' = "cancel" /\ status' = "failed"
        /\ UNCHANGED <<completed, raised, pending, active, admittedCount, exhausted, cancelled, targetWorkers,
                 admissionPaused, launched, running>>
    BY <1>9 DEF Advance, RaiseError, ReleaseHead, GateFree
  <2>2. status = "open" /\ FirstOutstanding = nextToConsume + 1 /\ FirstOutstanding' = nextToConsume + 1
    BY <2>1, <1>a DEF Stages, Alive, FirstOutstanding, Held
  <2>3. nextToConsume + 1 \in 0 .. N /\ nextToConsume + 1 <= admittedCount
    BY <2>2, <1>a DEF Window, Counters
  <2>4. /\ retainedBytes' = Offset[admittedCount] - Offset[nextToConsume + 1]
        /\ retainedBytes' \in Nat
    <3>1. /\ Offset[admittedCount] \in Nat /\ Offset[nextToConsume + 1] \in Nat /\ Offset[nextToConsume] \in Nat
          /\ Offset[nextToConsume + 1] <= Offset[admittedCount]
      BY <2>3, <1>a, OffsetMonotone DEF Counters
    <3>2. retainedBytes' = (Offset[admittedCount] - Offset[nextToConsume])
                             - (Offset[nextToConsume + 1] - Offset[nextToConsume])
      BY <2>1, <1>a DEF ChargeIsWindow, Weight
    <3> QED BY <3>1, <3>2
  <2>5. Counters'
    BY <2>1, <2>3, <2>4, <1>a DEF Counters, ConsumerStates, ProducerStates, PulseProducer, Woken
  <2>6. WorkAccounted'
    BY <2>1, <2>2, <1>a DEF WorkAccounted
  <2>8. ChargeIsWindow'
    BY <2>1, <2>4 DEF ChargeIsWindow
  <2>9. Window'
    <3>1. FirstOutstanding' = FirstOutstanding /\ UNCHANGED <<launched, admittedCount>>
      BY <2>1, <2>2
    <3>2. nextToConsume' <= FirstOutstanding'
      BY <2>1, <2>2, <2>3
    <3> QED BY <3>1, <3>2, <1>a DEF Window
  <2>7. Stages'
    BY <2>1, <2>2, <1>a DEF Stages, Alive, PulseProducer, Woken
  <2> QED BY <2>5, <2>6, <2>7, <2>8, <2>9
<1>10. CASE Dispose
  <2>1. Counters'
    BY <1>10, <1>a DEF Dispose, Counters, ConsumerStates, shared
  <2>2. WorkAccounted' /\ ChargeIsWindow' /\ Window'
    BY <1>10, <1>a DEF Dispose, shared, WorkAccounted, ChargeIsWindow, Window, FirstOutstanding, Held
  <2>3. Stages'
    BY <1>10, <1>a DEF Dispose, Stages, Alive, shared
  <2> QED BY <2>1, <2>2, <2>3
<1>11. CASE Cancel \/ Join
  <2>1. Counters'
    BY <1>11, <1>a DEF Cancel, Join, PulseProducer, Woken, Counters, ProducerStates, ConsumerStates, shared
  <2>2. WorkAccounted' /\ ChargeIsWindow' /\ Window'
    BY <1>11, <1>a DEF Cancel, Join, PulseProducer, Woken, shared,
       WorkAccounted, ChargeIsWindow, Window, FirstOutstanding, Held
  <2>3. Stages'
    BY <1>11, <1>a DEF Cancel, Join, PulseProducer, Woken, Stages, Alive, shared, GateFree
  <2> QED BY <2>1, <2>2, <2>3
<1>12. CASE Terminated \/ UNCHANGED vars
  <2>1. UNCHANGED vars
    BY <1>12 DEF Terminated
  <2>2. Counters'
    BY <2>1, <1>a DEF vars, shared, Counters
  <2>3. WorkAccounted' /\ ChargeIsWindow' /\ Window'
    BY <2>1, <1>a DEF vars, shared, WorkAccounted, ChargeIsWindow, Window, FirstOutstanding, Held
  <2>4. Stages'
    BY <2>1, <1>a DEF vars, shared, Stages, Alive
  <2> QED BY <2>2, <2>3, <2>4
<1> QED
  BY <1>1, <1>2, <1>3, <1>4, <1>5, <1>13, <1>6, <1>7, <1>8, <1>9, <1>10, <1>11, <1>12
  DEF Next, Producer, Consumer

THEOREM BooksBalance == Spec => []Books
  BY BooksInit, BooksNext, PTL DEF Spec

\* Every variable of the scheduler keeps its type.
THEOREM TypeCorrect == Spec => []TypeOK
<1>1. Books => TypeOK
  BY TypeParts DEF Books
<1> QED BY <1>1, BooksBalance, PTL

\* No admitted input is lost or duplicated between the producer, the worker tasks
\* and the consumer, however their critical sections interleave.
THEOREM WorkIsAccounted == Spec => []WorkAccounted
<1>1. Books => WorkAccounted
  BY DEF Books
<1> QED BY <1>1, BooksBalance, PTL

\* The bytes charged are always those of the window between the two threads.
THEOREM ChargeIsTheWindow == Spec => []ChargeIsWindow
<1>1. Books => ChargeIsWindow
  BY DEF Books
<1> QED BY <1>1, BooksBalance, PTL

--------------------------------------------------------------------------------
(***************************************************************************)
(* The bounds.                                                             *)
(***************************************************************************)
LEMMA MemoryBoundNext == Books /\ MemoryBound /\ [Next]_vars => MemoryBound'
<1> SUFFICES ASSUME Books, MemoryBound, [Next]_vars PROVE MemoryBound'
  OBVIOUS
<1> USE SchedulerAssumption
<1>a. Counters /\ ChargeIsWindow /\ Window /\ Stages
  BY DEF Books
<1>1. CASE AdmitNext
  <2>1. admittedCount' = admittedCount + 1 /\ UNCHANGED nextToConsume
        /\ retainedBytes' = retainedBytes + Weight(admittedCount)
    BY <1>1 DEF AdmitNext
  <2>2. CASE ForceProgress
    BY <2>1, <2>2 DEF ForceProgress, MemoryBound
  <2>3. CASE ~ForceProgress
    BY <1>1, <2>1, <2>3 DEF AdmitNext, Admissible, MemoryBound
  <2> QED BY <2>2, <2>3
<1>2. CASE ReleaseHead /\ cpc \in {"yielded", "raise"}
  <2>1. nextToConsume' = nextToConsume + 1 /\ UNCHANGED admittedCount
        /\ retainedBytes' = retainedBytes - Weight(nextToConsume)
    BY <1>2 DEF ReleaseHead
  <2>2. nextToConsume + 1 \in 0 .. N /\ nextToConsume + 1 <= admittedCount
    BY <1>2, <1>a DEF Window, FirstOutstanding, Held, Counters
  <2>3. retainedBytes' <= retainedBytes
    <3>1. Offset[nextToConsume] <= Offset[nextToConsume + 1]
          /\ Offset[nextToConsume] \in Nat /\ Offset[nextToConsume + 1] \in Nat
      BY <2>2, <1>a, OffsetMonotone DEF Counters
    <3> QED BY <2>1, <3>1, <1>a DEF Weight, Counters
  <2>4. admittedCount = nextToConsume + 1 => retainedBytes' = 0
    <3>1. Offset[nextToConsume] \in Nat /\ Offset[nextToConsume + 1] \in Nat
      BY <2>2, <1>a DEF Counters
    <3> QED BY <2>1, <3>1, <1>a DEF Weight, ChargeIsWindow
  <2>5. retainedBytes' \in Int
    BY <2>1, <2>2, <1>a DEF Weight, Counters
  <2> QED BY <2>1, <2>3, <2>4, <2>5, <1>a DEF MemoryBound, Counters
<1>3. CASE UNCHANGED <<retainedBytes, admittedCount, nextToConsume>>
  BY <1>3 DEF MemoryBound
<1>4. AdmitNext \/ (ReleaseHead /\ cpc \in {"yielded", "raise"})
        \/ UNCHANGED <<retainedBytes, admittedCount, nextToConsume>>
  BY DEF Next, Producer, Consumer, EnterGate, ProducerRaises, LeaveGate, WaitTimesOut, Launch,
     Decide, Leave, Complete, Take, Advance, RaiseError, Dispose, Cancel, Join, Terminated, vars, shared
<1> QED BY <1>1, <1>2, <1>3, <1>4

\* The byte bound is exceeded only by a single oversized input, admitted alone.
THEOREM MemoryIsBounded == Spec => []MemoryBound
<1>1. Init => MemoryBound
  BY SchedulerAssumption DEF Init, MemoryBound
<1> QED BY <1>1, MemoryBoundNext, BooksBalance, PTL DEF Spec

LEMMA BacklogBoundNext == Books /\ BacklogBound /\ [Next]_vars => BacklogBound'
<1> SUFFICES ASSUME Books, BacklogBound, [Next]_vars PROVE BacklogBound'
  OBVIOUS
<1> USE SchedulerAssumption
<1>a. /\ Counters /\ WorkAccounted /\ Window /\ Stages
      /\ Cardinality(running) \in Nat /\ Cardinality(completed) \in Nat
      /\ IsFiniteSet(running) /\ IsFiniteSet(completed)
  BY InputsFinite DEF Books, Counters
<1>1. CASE AdmitNext
  <2>1. /\ active' = active + 1 /\ active < targetWorkers
        /\ UNCHANGED completed
    BY <1>1 DEF AdmitNext, MayFill
  <2>2. CASE ForceProgress
    <3>1. completed = {}
      BY <2>2, <1>a DEF ForceProgress, WorkAccounted, Window, FirstOutstanding, Counters
    <3> QED BY <2>1, <2>2, <3>1, <1>a, FS_EmptySet DEF ForceProgress, BacklogBound, Counters
  <2>3. CASE ~ForceProgress
    <3>1. Cardinality(completed) < targetWorkers
      BY <1>1, <2>3, <1>a DEF AdmitNext, Admissible, BacklogHealthy, AtLeastOne, Counters
    <3> QED BY <2>1, <3>1, <1>a DEF BacklogBound, Counters
  <2> QED BY <2>2, <2>3
<1>2. ASSUME NEW i \in Inputs, Complete(i) PROVE BacklogBound'
  <2>1. Cardinality(completed') = Cardinality(completed) + 1
    BY <1>2, <1>a, FS_AddElement DEF Complete, WorkAccounted
  <2> QED BY <1>2, <2>1, <1>a DEF Complete, BacklogBound, Counters
<1>3. CASE Take
  <2>1. CASE nextToConsume \in completed
    <3>1. Cardinality(completed') = Cardinality(completed) - 1 /\ UNCHANGED active
      BY <1>3, <2>1, <1>a, FS_RemoveElement DEF Take
    <3> QED BY <3>1, <1>a DEF BacklogBound, Counters
  <2>2. CASE nextToConsume \notin completed
    BY <1>3, <2>2 DEF Take, BacklogBound
  <2> QED BY <2>1, <2>2
<1>4. CASE UNCHANGED <<completed, active>>
  BY <1>4 DEF BacklogBound
<1>5. AdmitNext \/ (\E i \in Inputs : Complete(i)) \/ Take \/ UNCHANGED <<completed, active>>
  BY DEF Next, Producer, Consumer, EnterGate, ProducerRaises, LeaveGate, WaitTimesOut, Launch,
     Decide, Leave, Advance, RaiseError, ReleaseHead, Dispose, Cancel, Join, Terminated, vars, shared
<1> QED BY <1>1, <1>2, <1>3, <1>4, <1>5

\* At most MaxWorkers inputs are worked on, and finished work that waits for the
\* consumer stays below the worker limit.
THEOREM BacklogIsBounded == Spec => []BacklogBound
<1>1. Init => BacklogBound
  BY SchedulerAssumption, FS_EmptySet DEF Init, BacklogBound
<1> QED BY <1>1, BacklogBoundNext, BooksBalance, PTL DEF Spec

--------------------------------------------------------------------------------
(***************************************************************************)
(* The two monitors' waits.                                                *)
(***************************************************************************)
LEMMA NoLostWakeupNext == Books /\ NoLostWakeup /\ [Next]_vars => NoLostWakeup'
<1> SUFFICES ASSUME Books, NoLostWakeup, [Next]_vars, cpc' = "blocked"
             PROVE  /\ nextToConsume' \notin completed'
                    /\ AllConsumed' => ppc' \in {"launch", "decide", "leave"}
  BY DEF NoLostWakeup
<1>a. Counters /\ Stages /\ Flags
  BY DEF Books
<1>1. CASE Take
  <2>1. ~AllConsumed /\ nextToConsume \notin completed
        /\ UNCHANGED <<completed, exhausted, active, nextToConsume, admittedCount>>
    BY <1>1 DEF Take
  <2>2. ~AllConsumed'
    BY <2>1, Zenon DEF AllConsumed
  <2> QED BY <2>1, <2>2
<1>2. CASE AdmitNext
  <2>1. cpc = "blocked" /\ UNCHANGED <<completed, exhausted, nextToConsume, ppc>>
        /\ active' = active + 1 /\ active' # 0
    BY <1>2, <1>a DEF AdmitNext, Counters
  <2> QED BY <2>1 DEF NoLostWakeup, AllConsumed
<1>3. CASE LeaveGate
  <2>1. cpc = "blocked" /\ UNCHANGED <<completed, nextToConsume, active>>
        /\ ppc' \in {"blocked", "launch"}
        /\ (ppc' = "blocked" => (~exhausted' \/ active > 0))
    BY <1>3, Zenon DEF LeaveGate
  <2>2. AllConsumed' => ppc' = "launch"
    BY <2>1, <1>a DEF AllConsumed, Counters
  <2> QED BY <2>1, <2>2 DEF NoLostWakeup
<1>4. CASE Leave \/ (\E i \in Inputs : Complete(i))
  BY <1>4, <1>a DEF Leave, Complete, PulseConsumer, Woken
<1>5. CASE Decide
  <2>1. cpc = "blocked" /\ UNCHANGED shared /\ ppc' \in {"start", "leave"}
        /\ (ppc' = "start" => (~exhausted \/ active > 0))
    BY <1>5, Zenon DEF Decide
  <2>2. AllConsumed' => ppc' = "leave"
    BY <2>1, <1>a DEF AllConsumed, Counters, shared
  <2> QED BY <2>1, <2>2 DEF NoLostWakeup, shared
<1>6. CASE EnterGate \/ ProducerRaises
  <2>1. ~AllConsumed
    BY <1>6, <1>a DEF NoLostWakeup, EnterGate, ProducerRaises, MayFill
  <2>2. cpc = "blocked" /\ UNCHANGED <<completed, exhausted, active, nextToConsume, admittedCount>>
    BY <1>6 DEF EnterGate, ProducerRaises, shared
  <2>3. ~AllConsumed'
    BY <2>1, <2>2, Zenon DEF AllConsumed
  <2> QED BY <2>2, <2>3 DEF NoLostWakeup
<1>7. CASE WaitTimesOut \/ Launch
  <2>1. cpc = "blocked" /\ UNCHANGED shared /\ ppc' \in {"launch", "decide"}
    BY <1>7 DEF WaitTimesOut, Launch
  <2> QED BY <2>1 DEF NoLostWakeup, shared
<1>8. CASE Advance \/ RaiseError \/ Dispose \/ Cancel \/ Join
  BY <1>8 DEF Advance, RaiseError, Dispose, Cancel, Join
<1>9. CASE Terminated \/ UNCHANGED vars
  <2>1. UNCHANGED vars
    BY <1>9 DEF Terminated
  <2> QED BY <2>1 DEF vars, shared, NoLostWakeup, AllConsumed
<1> QED
  BY <1>1, <1>2, <1>3, <1>4, <1>5, <1>6, <1>7, <1>8, <1>9 DEF Next, Producer, Consumer

\* A consumer that waits is waiting for something that is still to come.
THEOREM NoWakeupIsLost == Spec => []NoLostWakeup
<1>1. Init => NoLostWakeup
  BY DEF Init, NoLostWakeup
<1> QED BY <1>1, NoLostWakeupNext, BooksBalance, PTL DEF Spec

\* While admission is paused, an input is admitted only when nothing is charged.
THEOREM PausedScheduler == Spec => PausedAdmitsAlone
<1>1. ASSUME Books, [Next]_vars, admittedCount' > admittedCount, admissionPaused
      PROVE  retainedBytes = 0
  <2>1. admittedCount \in Nat
    BY <1>1 DEF Books, Counters
  <2>2. AdmitNext \/ UNCHANGED admittedCount
    BY <1>1 DEF Next, Producer, Consumer, EnterGate, ProducerRaises, LeaveGate, WaitTimesOut, Launch,
       Decide, Leave, Complete, Take, Advance, RaiseError, ReleaseHead, Dispose, Cancel, Join,
       Terminated, vars, shared
  <2>3. admittedCount' # admittedCount
    BY <1>1, <2>1
  <2>4. Admissible
    BY <2>2, <2>3 DEF AdmitNext
  <2>5. admittedCount = nextToConsume
    BY <1>1, <2>4, Zenon DEF Admissible, ForceProgress
  <2> QED BY <1>1, <2>5, SchedulerAssumption DEF Books, Counters, ChargeIsWindow
<1>2. Books /\ [Next]_vars => [admittedCount' > admittedCount /\ admissionPaused => retainedBytes = 0]_vars
  BY <1>1
<1> QED BY <1>2, BooksBalance, PTL DEF Spec, PausedAdmitsAlone

\* Once the caller has the end of the enumeration, no new task is ever started.
THEOREM ClosedIsQuiet == Spec => NoLaunchAfterClose
<1>1. ASSUME Books, [Next]_vars, cpc = "closed"
      PROVE  running' \subseteq running
  <2>1. ppc = "done"
    BY <1>1 DEF Books, Stages
  <2> QED
    BY <1>1, <2>1 DEF Next, Producer, Consumer, EnterGate, AdmitNext, MayFill, ProducerRaises, LeaveGate,
       WaitTimesOut, Launch, Decide, Leave, Complete, Take, Advance, RaiseError, Dispose, Cancel, Join,
       Terminated, vars, shared
<1>2. Books /\ [Next]_vars => [cpc = "closed" => running' \subseteq running]_vars
  BY <1>1
<1> QED BY <1>2, BooksBalance, PTL DEF Spec, NoLaunchAfterClose

--------------------------------------------------------------------------------
(***************************************************************************)
(* The scheduler implements the ordered map.                               *)
(***************************************************************************)
LEMMA AbstractInit == Init => Abstract!OMInit
  BY DEF Init, Abstract!OMInit, DeliveredResults, Delivered, FirstOutstanding, Held

LEMMA AbstractStep == Books /\ [Next]_vars => [Abstract!OMNext]_(Abstract!omVars)
<1> SUFFICES ASSUME Books, [Next]_vars
             PROVE  Abstract!OMNext \/ UNCHANGED <<DeliveredResults, raised, status>>
  BY DEF Abstract!omVars
<1> USE SchedulerAssumption
<1>a. Counters /\ Stages /\ Window /\ WorkAccounted
  BY DEF Books
<1>1. CASE Take
  <2>1. cpc = "take" /\ ppc # "crashed" /\ UNCHANGED <<nextToConsume, raised>>
    BY <1>1 DEF Take, GateFree
  <2>2. status = "open" /\ DeliveredResults = nextToConsume
    BY <2>1, <1>a DEF Stages, Alive, DeliveredResults, Delivered, FirstOutstanding, Held
  <2>3. CASE nextToConsume \in completed /\ nextToConsume \in raised
    <3>1. cpc' = "raise" /\ UNCHANGED status
      BY <1>1, <2>3 DEF Take
    <3> QED BY <2>1, <2>2, <3>1 DEF DeliveredResults
  <2>4. CASE nextToConsume \in completed /\ nextToConsume \notin raised
    <3>1. cpc' = "yielded" /\ UNCHANGED status
      BY <1>1, <2>4 DEF Take
    <3>2. DeliveredResults' = nextToConsume + 1
      BY <2>1, <2>2, <3>1 DEF DeliveredResults, Delivered, FirstOutstanding, Held
    <3>3. nextToConsume < N
      BY <2>4, <1>a DEF Counters, Inputs
    <3>4. Abstract!Deliver
      BY <2>1, <2>2, <2>4, <3>1, <3>2, <3>3 DEF Abstract!Deliver
    <3> QED BY <3>4 DEF Abstract!OMNext
  <2>5. CASE nextToConsume \notin completed /\ AllConsumed
    <3>1. cpc' = "cancel" /\ status' = "finished"
      BY <1>1, <2>5 DEF Take
    <3>2. nextToConsume = N
      BY <2>5, <1>a DEF AllConsumed, Stages, Counters
    <3>3. DeliveredResults' = nextToConsume
      BY <2>1, <3>1 DEF DeliveredResults, Delivered, FirstOutstanding, Held
    <3>4. Abstract!Finish
      BY <2>1, <2>2, <3>1, <3>2, <3>3 DEF Abstract!Finish
    <3> QED BY <3>4 DEF Abstract!OMNext
  <2>6. CASE nextToConsume \notin completed /\ ~AllConsumed
    <3>1. cpc' = "blocked" /\ UNCHANGED status
      BY <1>1, <2>6 DEF Take
    <3> QED BY <2>1, <2>2, <3>1 DEF DeliveredResults, Delivered, FirstOutstanding, Held
  <2> QED BY <2>3, <2>4, <2>5, <2>6
<1>2. CASE Advance
  <2>1. cpc = "yielded" /\ cpc' = "take" /\ ppc # "crashed" /\ nextToConsume' = nextToConsume + 1
        /\ UNCHANGED <<raised, status>>
    BY <1>2 DEF Advance, ReleaseHead, GateFree
  <2>2. status = "open"
    BY <2>1, <1>a DEF Stages, Alive
  <2>3. DeliveredResults = nextToConsume + 1 /\ DeliveredResults' = nextToConsume + 1
    BY <2>1, <2>2 DEF DeliveredResults, Delivered, FirstOutstanding, Held
  <2> QED BY <2>1, <2>3
<1>3. CASE RaiseError
  <2>1. cpc = "raise" /\ cpc' = "cancel" /\ ppc # "crashed" /\ nextToConsume' = nextToConsume + 1
        /\ status' = "failed" /\ raised' = raised
    BY <1>3 DEF RaiseError, ReleaseHead, GateFree
  <2>2. status = "open" /\ nextToConsume \in raised
    BY <2>1, <1>a DEF Stages, Alive
  <2>3. DeliveredResults = nextToConsume
    BY <2>1 DEF DeliveredResults
  <2>4. DeliveredResults' = nextToConsume
    BY <2>1, <1>a DEF DeliveredResults, Delivered, Counters
  <2>5. Abstract!Fail
    BY <2>1, <2>2, <2>3, <2>4 DEF Abstract!Fail
  <2> QED BY <2>5 DEF Abstract!OMNext
<1>4. CASE Dispose
  <2>1. cpc = "yielded" /\ cpc' = "cancel" /\ status' = "abandoned" /\ UNCHANGED <<nextToConsume, raised>>
    BY <1>4 DEF Dispose, shared
  <2>2. status = "open"
    BY <1>4, <1>a DEF Dispose, Stages
  <2>3. DeliveredResults = nextToConsume + 1 /\ DeliveredResults' = nextToConsume + 1
    BY <2>1, <2>2 DEF DeliveredResults, Delivered, FirstOutstanding, Held
  <2>4. DeliveredResults > 0
    BY <2>3, <1>a DEF Counters
  <2>5. Abstract!Abandon
    BY <2>1, <2>2, <2>3, <2>4 DEF Abstract!Abandon
  <2> QED BY <2>5 DEF Abstract!OMNext
<1>5. CASE ProducerRaises
  <2>1. Unreadable # {} /\ UNCHANGED <<cpc, nextToConsume, raised>>
        /\ status' = IF status = "open" THEN "crashed" ELSE status
    BY <1>5 DEF ProducerRaises, shared
  <2>2. UNCHANGED DeliveredResults
    BY <2>1 DEF DeliveredResults, Delivered, FirstOutstanding, Held
  <2>3. CASE status = "open"
    BY <2>1, <2>2, <2>3 DEF Abstract!OMNext, Abstract!Crash
  <2>4. CASE status # "open"
    BY <2>1, <2>2, <2>4
  <2> QED BY <2>3, <2>4
<1>6. ASSUME NEW i \in Inputs, Complete(i)
      PROVE  Abstract!OMNext \/ UNCHANGED <<DeliveredResults, raised, status>>
  <2>1. /\ UNCHANGED <<nextToConsume, status>> /\ cpc' = Woken(cpc, "take")
        /\ i \in running /\ i \in Int
        /\ raised' = raised \/ (i \in Failing /\ raised' = raised \cup {i})
    BY <1>6 DEF Complete, PulseConsumer, Outcome, Inputs
  <2>2. UNCHANGED DeliveredResults
    BY <2>1 DEF Woken, DeliveredResults, Delivered, FirstOutstanding, Held
  <2>3. i >= FirstOutstanding
    BY <2>1, <1>a DEF WorkAccounted, Counters, FirstOutstanding
  <2>4. i >= DeliveredResults
    BY <2>1, <2>3, <1>a DEF DeliveredResults, Delivered, FirstOutstanding, Counters
  <2>5. CASE raised' = raised
    BY <2>1, <2>2, <2>5
  <2>6. CASE i \in Failing /\ raised' = raised \cup {i}
    <3>1. Abstract!Raise
      BY <2>1, <2>2, <2>4, <2>6 DEF Abstract!Raise
    <3> QED BY <3>1 DEF Abstract!OMNext
  <2> QED BY <2>1, <2>5, <2>6
<1>9. CASE Leave
  <2>1. UNCHANGED <<nextToConsume, raised, status>> /\ cpc' = Woken(cpc, "take")
    BY <1>9 DEF Leave, PulseConsumer, shared
  <2> QED BY <2>1 DEF Woken, DeliveredResults, Delivered, FirstOutstanding, Held
<1>7. CASE Cancel \/ Join
  <2>1. UNCHANGED <<nextToConsume, raised, status>> /\ cpc \in {"cancel", "join"} /\ cpc' \in {"join", "closed"}
    BY <1>7 DEF Cancel, Join, shared
  <2> QED BY <2>1 DEF DeliveredResults, Delivered, FirstOutstanding, Held
<1>8. CASE UNCHANGED <<nextToConsume, raised, status, cpc>>
  BY <1>8 DEF DeliveredResults, Delivered, FirstOutstanding, Held
<1> QED
  BY <1>1, <1>2, <1>3, <1>4, <1>5, <1>6, <1>7, <1>8, <1>9
  DEF Next, Producer, Consumer, EnterGate, AdmitNext, LeaveGate, WaitTimesOut, Launch, Decide,
      Terminated, vars, shared

\* The caller is handed the results in input order, each once, a failure in its
\* own place, and the end only after the last input.
THEOREM SchedulerImplementsOrderedMap == Spec => ImplementsOrderedMap
<1>1. Init => Abstract!OMInit
  BY AbstractInit
<1> QED BY <1>1, AbstractStep, BooksBalance, PTL DEF Spec, ImplementsOrderedMap, Abstract!OMSpec

\* The bookkeeping under the gate is the truth for any number of inputs and any limits.
THEOREM BookkeepingIsTrue == Spec => []Accounting
<1>1. WorkAccounted /\ ChargeIsWindow => Accounting
  BY DEF Accounting
<1> QED BY <1>1, WorkIsAccounted, ChargeIsTheWindow, PTL

\* Bytes and work stay within their limits for any number of inputs and any limits.
THEOREM LimitsHold == Spec => []WithinLimits
<1>1. MemoryBound /\ BacklogBound => WithinLimits
  BY DEF WithinLimits
<1> QED BY <1>1, MemoryIsBounded, BacklogIsBounded, PTL

\* Admission under pressure and silence after the end, for any number of inputs.
THEOREM AdmissionIsOrderly == Spec => AdmissionRules
<1> QED BY PausedScheduler, ClosedIsQuiet, PTL DEF AdmissionRules
================================================================================
