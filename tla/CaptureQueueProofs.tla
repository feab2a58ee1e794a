-------------------------- MODULE CaptureQueueProofs --------------------------
(***************************************************************************)
(* The merged store holds the work in order, for any amount of work, any   *)
(* number of tasks and every schedule.  The argument: the queue holds an   *)
(* interval of ordinals that ends before next; what left it is in the hand *)
(* or the rows of exactly one task, in increasing order; so with nothing   *)
(* in a hand, the least row the merge has not passed is its next one.      *)
(***************************************************************************)
EXTENDS CaptureQueue, SequenceTheorems, TLAPS

Taken == next - Len(queue)    \* the first ordinal still in the queue, or next

Holds(w, k) == \E i \in 1 .. Len(rows[w]) : rows[w][i] = k
InHand(w, k) == at[w] \in {"routing", "raised"} /\ item[w] = k

QueueIsInterval == \A i \in 1 .. Len(queue) : queue[i] = Taken + i - 1

RowsIncrease ==
  \A w \in Workers : \A i, j \in 1 .. Len(rows[w]) : i < j => rows[w][i] < rows[w][j]

RowsAreTaken == \A w \in Workers : \A i \in 1 .. Len(rows[w]) : rows[w][i] < Taken

HandIsNewest ==
  \A w \in Workers : at[w] = "routing" =>
    /\ item[w] \in Work /\ item[w] < Taken
    /\ \A i \in 1 .. Len(rows[w]) : rows[w][i] < item[w]

NothingTakenIsLost ==
  \A k \in Work : k < Taken => \E w \in Workers : Holds(w, k) \/ InHand(w, k)

\* A task ends only behind the end of the queue.
EndIsReached ==
  /\ addingCompleted <=> producer # "dispatch"
  /\ (\E w \in Workers : at[w] = "done") => queue = <<>> /\ addingCompleted
  /\ producer # "dispatch" /\ dispatchFailure = "none" => next = WorkCount + 1

AwaitedHaveEnded ==
  /\ \A w \in 1 .. joined : at[w] \notin {"idle", "routing"}
  /\ producer \in {"merge", "merged", "raised"} => joined = WorkerCount
  /\ producer \in {"merge", "merged"} => ~Failed

\* The merge has passed exactly the ordinals up to the length of what it wrote.
MergeIsPrefix ==
  /\ Len(merged) \in 0 .. WorkCount
  /\ \A i \in 1 .. Len(merged) : merged[i] = i
  /\ \A w \in Workers :
       /\ cursor[w] <= Len(rows[w])
       /\ \A i \in 1 .. Len(rows[w]) : i <= cursor[w] <=> rows[w][i] <= Len(merged)
  /\ producer \in {"dispatch", "await"} => merged = <<>> /\ \A w \in Workers : cursor[w] = 0
  /\ producer = "merged" => \A w \in Workers : ~Active(w)

\* No ordinal is in two stores.
RowsAreDisjoint ==
  \A v, w \in Workers : v # w =>
    /\ \A i \in 1 .. Len(rows[v]), j \in 1 .. Len(rows[w]) : rows[v][i] # rows[w][j]
    /\ at[v] = "routing" =>
         /\ \A j \in 1 .. Len(rows[w]) : rows[w][j] # item[v]
         /\ at[w] = "routing" => item[v] # item[w]

Books == QueueIsInterval /\ RowsIncrease /\ RowsAreTaken /\ HandIsNewest
           /\ NothingTakenIsLost /\ RowsAreDisjoint
IInv == TypeOK /\ Books /\ EndIsReached /\ AwaitedHaveEnded /\ MergeIsPrefix
          /\ EverythingReleased

--------------------------------------------------------------------------------
LEMMA Constants ==
  /\ WorkCount \in Nat /\ WorkerCount \in Nat /\ WorkerCount > 0
  /\ Capacity \in Nat
BY CaptureAssumption DEF Capacity

Flags == addingCompleted \in BOOLEAN /\ cancelled \in BOOLEAN /\ ownConcurrency \in BOOLEAN

Shapes ==
  /\ producer \in {"dispatch", "await", "merge", "merged", "raised"}
  /\ next \in 1 .. WorkCount + 1
  /\ queue \in Seq(Work) /\ Len(queue) <= Capacity
  /\ dispatchFailure \in {"none", "unreadable", "cancelled"}
  /\ at \in [Workers -> Places] /\ item \in [Workers -> 0 .. WorkCount]
  /\ rows \in [Workers -> Seq(Work)]
  /\ joined \in 0 .. WorkerCount
  /\ stores \subseteq Workers
  /\ cursor \in [Workers -> Nat]
  /\ merged \in Seq(Work)

LEMMA TypeParts == TypeOK <=> Flags /\ Shapes
BY DEF TypeOK, Flags, Shapes

LEMMA TypeInit == Init => TypeOK
<1>1. Init => Flags
  BY DEF Init, Flags
<1>2. Init => Shapes
  BY Constants DEF Init, Shapes, Places
<1> QED BY <1>1, <1>2, TypeParts

LEMMA FlagsStep == Flags /\ [Next]_vars => Flags'
<1> SUFFICES ASSUME Flags, [Next]_vars PROVE Flags'
  OBVIOUS
<1> QED BY DEF Flags, vars, mainVars, queueVars, workerVars, resultVars, Next, MainStep, WorkerStep,
      Dispatch, DispatchFails, DispatchEnds, AwaitTask, Raise, StartMerge, MergeNext, MergeEnds,
      MergeFails, EndMerge, CallerCancels, Ended, Take, Route, RouteFails, TakeCancelled, FinishStore

LEMMA ShapesStep == Shapes /\ HandIsNewest /\ [Next]_vars => Shapes'
<1> SUFFICES ASSUME Shapes, HandIsNewest, [Next]_vars PROVE Shapes'
  OBVIOUS
<1> USE Constants DEF Shapes, mainVars, queueVars, workerVars, resultVars, Move
<1>1. CASE Dispatch
  <2>1. next \in Work /\ next' \in 1 .. WorkCount + 1
    BY <1>1 DEF Dispatch, Work
  <2>2. queue' \in Seq(Work) /\ Len(queue') = Len(queue) + 1
    BY <1>1, <2>1 DEF Dispatch
  <2>3. Len(queue') <= Capacity
    BY <1>1, <2>2 DEF Dispatch, HasRoom
  <2> QED BY <1>1, <2>1, <2>2, <2>3 DEF Dispatch
<1>2. CASE DispatchFails
  BY <1>2 DEF DispatchFails
<1>3. CASE DispatchEnds
  BY <1>3 DEF DispatchEnds
<1>4. CASE AwaitTask
  BY <1>4 DEF AwaitTask
<1>5. CASE Raise
  BY <1>5 DEF Raise
<1>6. CASE StartMerge
  BY <1>6 DEF StartMerge
<1>7. CASE MergeNext
  <2> PICK w \in Workers : /\ Active(w)
                           /\ merged' = Append(merged, Current(w))
                           /\ cursor' = [cursor EXCEPT ![w] = @ + 1]
    BY <1>7 DEF MergeNext
  <2>1. rows[w] \in Seq(Work) /\ cursor[w] \in Nat
    OBVIOUS
  <2>2. cursor[w] + 1 \in 1 .. Len(rows[w])
    BY <2>1 DEF Active
  <2>3. Current(w) \in Work
    BY <2>1, <2>2, ElementOfSeq DEF Current
  <2>4. cursor' \in [Workers -> Nat] /\ merged' \in Seq(Work)
    BY <2>1, <2>3
  <2> QED BY <1>7, <2>4 DEF MergeNext
<1>8. CASE MergeEnds \/ MergeFails
  BY <1>8 DEF MergeEnds, MergeFails, EndMerge
<1>9. ASSUME NEW w \in Workers, Take(w) PROVE Shapes'
  <2>1. Head(queue) \in Work /\ Tail(queue) \in Seq(Work) /\ Len(Tail(queue)) = Len(queue) - 1
    BY <1>9 DEF Take
  <2>2. Head(queue) \in 0 .. WorkCount /\ Len(queue') <= Capacity
    BY <1>9, <2>1 DEF Take, Work
  <2>3. item' \in [Workers -> 0 .. WorkCount] /\ at' \in [Workers -> Places]
    BY <1>9, <2>2 DEF Take, Places
  <2> QED BY <1>9, <2>1, <2>2, <2>3 DEF Take
<1>10. ASSUME NEW w \in Workers, Route(w) PROVE Shapes'
  <2>1. item[w] \in Work
    BY <1>10 DEF Route, HandIsNewest
  <2> QED BY <1>10, <2>1 DEF Route, Places
<1>11. ASSUME NEW w \in Workers, RouteFails(w) \/ TakeCancelled(w) PROVE Shapes'
  BY <1>11 DEF RouteFails, TakeCancelled, Places
<1>12. ASSUME NEW w \in Workers, FinishStore(w) PROVE Shapes'
  BY <1>12 DEF FinishStore, Places
<1>13. CASE CallerCancels
  BY <1>13 DEF CallerCancels
<1>14. CASE UNCHANGED vars \/ Ended
  BY <1>14 DEF Ended, vars
<1> QED BY <1>1, <1>2, <1>3, <1>4, <1>5, <1>6, <1>7, <1>8, <1>9, <1>10, <1>11, <1>12, <1>13, <1>14
        DEF Next, MainStep, WorkerStep

--------------------------------------------------------------------------------
\* What a step that neither dispatches, takes nor routes leaves of the books.
Untouched ==
  /\ queue' = queue /\ next' = next /\ rows' = rows /\ item' = item
  /\ \A w \in Workers : /\ at'[w] = "routing" => at[w] = "routing"
                        /\ at[w] \in {"routing", "raised"} => at'[w] \in {"routing", "raised"}

LEMMA OthersLeaveTheBooks ==
  ASSUME Shapes, [Next]_vars, ~Dispatch, \A w \in Workers : ~Take(w) /\ ~Route(w)
  PROVE  Untouched
<1> USE DEF Shapes, Untouched, mainVars, queueVars, workerVars, resultVars, Move
<1>1. CASE DispatchFails \/ DispatchEnds \/ AwaitTask \/ StartMerge \/ CallerCancels
  BY <1>1 DEF DispatchFails, DispatchEnds, AwaitTask, StartMerge, CallerCancels
<1>2. CASE Raise \/ MergeNext \/ MergeEnds \/ MergeFails
  BY <1>2 DEF Raise, MergeNext, MergeEnds, MergeFails, EndMerge
<1>3. ASSUME NEW w \in Workers, RouteFails(w) \/ TakeCancelled(w) \/ FinishStore(w)
      PROVE  Untouched
  BY <1>3 DEF RouteFails, TakeCancelled, FinishStore
<1>4. CASE UNCHANGED vars \/ Ended
  BY <1>4 DEF Ended, vars
<1> QED BY <1>1, <1>2, <1>3, <1>4 DEF Next, MainStep, WorkerStep

LEMMA BooksUntouched == Shapes /\ Books /\ Untouched => Books'
<1> SUFFICES ASSUME Shapes, Books, Untouched PROVE Books'
  OBVIOUS
<1> USE DEF Books, Untouched, Taken
<1>1. QueueIsInterval' /\ RowsIncrease' /\ RowsAreTaken'
  BY DEF QueueIsInterval, RowsIncrease, RowsAreTaken
<1>2. HandIsNewest' /\ RowsAreDisjoint'
  BY DEF HandIsNewest, RowsAreDisjoint
<1>3. NothingTakenIsLost'
  BY DEF NothingTakenIsLost, Holds, InHand
<1> QED BY <1>1, <1>2, <1>3

LEMMA DispatchKeepsBooks == Shapes /\ Books /\ Dispatch => Books'
<1> SUFFICES ASSUME Shapes, Books, Dispatch PROVE Books'
  OBVIOUS
<1>1. /\ next \in Work /\ next' = next + 1 /\ queue' = Append(queue, next)
      /\ at' = at /\ item' = item /\ rows' = rows
  BY Constants DEF Dispatch, workerVars, Shapes, Work
<1>2. /\ Len(queue') = Len(queue) + 1
      /\ \A i \in 1 .. Len(queue) : queue'[i] = queue[i]
      /\ queue'[Len(queue) + 1] = next
  BY <1>1 DEF Shapes
<1>3. Taken' = Taken
  BY <1>1, <1>2 DEF Taken, Shapes, Work
<1>4. QueueIsInterval'
  <2> SUFFICES ASSUME NEW i \in 1 .. Len(queue') PROVE queue'[i] = Taken + i - 1
    BY <1>3 DEF QueueIsInterval
  <2>1. CASE i \in 1 .. Len(queue)
    BY <1>2, <2>1 DEF Books, QueueIsInterval
  <2>2. CASE i = Len(queue) + 1
    BY <1>1, <1>2, <2>2 DEF Taken, Shapes, Work
  <2>3. Len(queue') = Len(queue) + 1 /\ Len(queue) \in Nat
    BY <1>2 DEF Shapes
  <2>4. i \in 1 .. Len(queue) \/ i = Len(queue) + 1
    <3> HIDE DEF Books, Shapes
    <3> QED BY <2>3
  <2> QED BY <2>1, <2>2, <2>4
<1>5. RowsIncrease' /\ RowsAreTaken' /\ HandIsNewest' /\ RowsAreDisjoint'
  BY <1>1, <1>3 DEF Books, RowsIncrease, RowsAreTaken, HandIsNewest, RowsAreDisjoint
<1>6. NothingTakenIsLost'
  BY <1>1, <1>3 DEF Books, NothingTakenIsLost, Holds, InHand
<1> QED BY <1>4, <1>5, <1>6 DEF Books

LEMMA RowsAreWork ==
  ASSUME Shapes, NEW v \in Workers, NEW i \in 1 .. Len(rows[v])
  PROVE  rows[v][i] \in Work /\ rows[v][i] \in Int
<1>1. rows[v] \in Seq(Work)
  BY DEF Shapes
<1>2. rows[v][i] \in Work
  BY <1>1, ElementOfSeq
<1> QED BY <1>2 DEF Work

LEMMA Smaller == ASSUME NEW a \in Int, NEW b \in Int, a < b PROVE a # b
OBVIOUS

\* The row taken is the oldest one, newer than every row taken before.
LEMMA TakeKeepsBooks ==
  ASSUME Shapes, Books, NEW w \in Workers, Take(w)
  PROVE  Books'
<1>1. /\ at[w] = "idle" /\ queue # <<>>
      /\ at' = [at EXCEPT ![w] = "routing"] /\ item' = [item EXCEPT ![w] = Head(queue)]
      /\ queue' = Tail(queue) /\ next' = next /\ rows' = rows
  BY DEF Take, Move, mainVars
<1>2. /\ Len(queue) \in Nat /\ Len(queue) >= 1 /\ Head(queue) = queue[1] /\ queue[1] \in Work
      /\ Len(queue') = Len(queue) - 1
      /\ \A i \in 1 .. Len(queue) - 1 : queue'[i] = queue[i + 1]
  BY <1>1 DEF Shapes
<1>3. Taken \in Int /\ Taken' = Taken + 1
  BY <1>1, <1>2 DEF Taken, Shapes
<1>4. Head(queue) = Taken
  BY <1>2, <1>3 DEF Books, QueueIsInterval
<1>5. /\ at'[w] = "routing" /\ item'[w] = Taken
      /\ \A v \in Workers : v # w => at'[v] = at[v] /\ item'[v] = item[v]
  <2>1. at \in [Workers -> Places] /\ item \in [Workers -> 0 .. WorkCount]
    BY DEF Shapes
  <2> QED BY <1>1, <1>4, <2>1
<1>6. \A v \in Workers : \A i \in 1 .. Len(rows[v]) : rows[v][i] \in Int
  BY RowsAreWork
<1>7. QueueIsInterval'
  <2> SUFFICES ASSUME NEW i \in 1 .. Len(queue') PROVE queue'[i] = Taken + 1 + i - 1
    BY <1>3 DEF QueueIsInterval
  <2>1. i + 1 \in 1 .. Len(queue) /\ queue'[i] = queue[i + 1]
    BY <1>2
  <2> QED BY <1>3, <2>1 DEF Books, QueueIsInterval
<1>8. RowsIncrease' /\ RowsAreTaken'
  <2>1. rows' = rows
    BY <1>1
  <2>2. RowsIncrease'
    BY <2>1 DEF Books, RowsIncrease
  <2>3. RowsAreTaken'
    <3> SUFFICES ASSUME NEW v \in Workers, NEW i \in 1 .. Len(rows[v]) PROVE rows[v][i] < Taken + 1
      BY <1>3, <2>1 DEF RowsAreTaken
    <3>1. rows[v][i] < Taken /\ rows[v][i] \in Int
      BY <1>6 DEF Books, RowsAreTaken
    <3> QED BY <1>3, <3>1
  <2> QED BY <2>2, <2>3
<1>9. HandIsNewest'
  <2> SUFFICES ASSUME NEW v \in Workers, at'[v] = "routing"
               PROVE  /\ item'[v] \in Work /\ item'[v] < Taken + 1
                      /\ \A i \in 1 .. Len(rows[v]) : rows[v][i] < item'[v]
    BY <1>1, <1>3 DEF HandIsNewest
  <2>1. CASE v = w
    BY <1>2, <1>3, <1>4, <1>5, <2>1 DEF Books, RowsAreTaken
  <2>2. CASE v # w
    <3>1. /\ item[v] \in Work /\ item[v] < Taken
          /\ \A i \in 1 .. Len(rows[v]) : rows[v][i] < item[v]
      BY <1>5, <2>2 DEF Books, HandIsNewest
    <3> QED BY <1>3, <1>5, <2>2, <3>1 DEF Work
  <2> QED BY <2>1, <2>2
<1>10. NothingTakenIsLost'
  <2> SUFFICES ASSUME NEW k \in Work, k < Taken + 1
               PROVE  \E v \in Workers : Holds(v, k)' \/ InHand(v, k)'
    BY <1>3 DEF NothingTakenIsLost
  <2>1. CASE k = Taken
    <3>1. InHand(w, k)'
      BY <1>5, <2>1 DEF InHand
    <3> QED BY <3>1
  <2>2. CASE k < Taken
    <3>1. PICK v \in Workers : Holds(v, k) \/ InHand(v, k)
      BY <2>2 DEF Books, NothingTakenIsLost
    <3>2. v = w => ~InHand(v, k)
      BY <1>1 DEF InHand
    <3>3. Holds(v, k)' \/ InHand(v, k)'
      BY <1>1, <1>5, <3>1, <3>2 DEF Holds, InHand
    <3> QED BY <3>3
  <2> QED BY <1>3, <2>1, <2>2 DEF Work
<1>11. RowsAreDisjoint'
  <2> SUFFICES ASSUME NEW u \in Workers, NEW v \in Workers, u # v
               PROVE  /\ \A i \in 1 .. Len(rows[u]), j \in 1 .. Len(rows[v]) :
                           rows[u][i] # rows[v][j]
                      /\ at'[u] = "routing" =>
                           /\ \A j \in 1 .. Len(rows[v]) : rows[v][j] # item'[u]
                           /\ at'[v] = "routing" => item'[u] # item'[v]
    BY <1>1 DEF RowsAreDisjoint
  <2>1. ASSUME NEW x \in Workers, NEW i \in 1 .. Len(rows[x]) PROVE rows[x][i] # Taken
    <3>1. rows[x][i] \in Int /\ rows[x][i] < Taken
      BY <1>6 DEF Books, RowsAreTaken
    <3> QED BY <1>3, <3>1, Smaller
  <2>5. ASSUME NEW x \in Workers, at[x] = "routing" PROVE item[x] # Taken
    <3>1. item[x] \in Int /\ item[x] < Taken
      BY <2>5 DEF Books, HandIsNewest, Work
    <3> QED BY <1>3, <3>1, Smaller
  <2>2. CASE u # w /\ v # w
    BY <1>5, <2>2 DEF Books, RowsAreDisjoint
  <2>3. CASE u = w
    <3>1. /\ at'[v] = at[v] /\ item'[v] = item[v] /\ item'[u] = Taken
          /\ \A i \in 1 .. Len(rows[u]), j \in 1 .. Len(rows[v]) : rows[u][i] # rows[v][j]
      BY <1>5, <2>3 DEF Books, RowsAreDisjoint
    <3> QED BY <2>1, <2>3, <2>5, <3>1
  <2>4. CASE v = w
    <3>1. /\ at'[u] = at[u] /\ item'[u] = item[u] /\ item'[v] = Taken
          /\ \A i \in 1 .. Len(rows[u]), j \in 1 .. Len(rows[v]) : rows[u][i] # rows[v][j]
          /\ at[u] = "routing" => \A j \in 1 .. Len(rows[v]) : rows[v][j] # item[u]
      BY <1>5, <2>4 DEF Books, RowsAreDisjoint
    <3> QED BY <1>5, <2>1, <2>4, <2>5, <3>1
  <2> QED BY <2>2, <2>3, <2>4
<1> QED BY <1>7, <1>8, <1>9, <1>10, <1>11 DEF Books

LEMMA RouteKeepsBooks ==
  ASSUME Shapes, Books, NEW w \in Workers, Route(w)
  PROVE  Books'
<1>1. /\ at[w] = "routing"
      /\ at' = [at EXCEPT ![w] = "idle"] /\ item' = item
      /\ rows' = [rows EXCEPT ![w] = Append(@, item[w])]
      /\ queue' = queue /\ next' = next
  BY DEF Route, Move, mainVars, queueVars
<1>2. Taken' = Taken /\ Taken \in Int
  BY <1>1 DEF Taken, Shapes
<1>3. /\ item[w] \in Work /\ item[w] < Taken
      /\ \A i \in 1 .. Len(rows[w]) : rows[w][i] < item[w]
  BY <1>1 DEF Books, HandIsNewest
<1>4. /\ Len(rows[w]) \in Nat /\ Len(rows'[w]) = Len(rows[w]) + 1
      /\ \A i \in 1 .. Len(rows[w]) : rows'[w][i] = rows[w][i]
      /\ rows'[w][Len(rows[w]) + 1] = item[w]
  BY <1>1, <1>3 DEF Shapes
<1>5. \A v \in Workers : v # w => rows'[v] = rows[v] /\ at'[v] = at[v]
  BY <1>1 DEF Shapes
<1>6. at'[w] = "idle"
  BY <1>1 DEF Shapes
<1>7. \A i \in 1 .. Len(rows'[w]) : (rows'[w][i] = item[w] /\ i = Len(rows[w]) + 1)
                                     \/ (i \in 1 .. Len(rows[w]) /\ rows'[w][i] = rows[w][i])
  <2> DEFINE n == Len(rows[w])
             new == rows'[w]
  <2>1. n \in Nat /\ Len(new) = n + 1 /\ new[n + 1] = item[w] /\ \A i \in 1 .. n : new[i] = rows[w][i]
    BY <1>4
  <2> SUFFICES \A i \in 1 .. Len(new) : (new[i] = item[w] /\ i = n + 1) \/ (i \in 1 .. n /\ new[i] = rows[w][i])
    OBVIOUS
  <2> HIDE DEF n, new
  <2>2. \A i \in 1 .. Len(new) : i \in 1 .. n \/ i = n + 1
    BY <2>1
  <2> QED BY <2>1, <2>2
<1>8. QueueIsInterval'
  BY <1>1, <1>2 DEF Books, QueueIsInterval
<1>9. RowsIncrease'
  <2> SUFFICES ASSUME NEW v \in Workers, NEW i \in 1 .. Len(rows'[v]), NEW j \in 1 .. Len(rows'[v]),
                      i < j
               PROVE  rows'[v][i] < rows'[v][j]
    BY DEF RowsIncrease
  <2>1. CASE v # w
    BY <1>5, <2>1 DEF Books, RowsIncrease
  <2>2. CASE v = w
    <3>1. i \in 1 .. Len(rows[w]) /\ rows'[w][i] = rows[w][i]
      BY <1>4, <2>2
    <3>2. CASE j \in 1 .. Len(rows[w])
      BY <1>4, <2>2, <3>1, <3>2 DEF Books, RowsIncrease
    <3>3. CASE j = Len(rows[w]) + 1
      BY <1>3, <1>4, <2>2, <3>1, <3>3
    <3> QED BY <1>4, <2>2, <3>2, <3>3
  <2> QED BY <2>1, <2>2
<1>10. RowsAreTaken'
  BY <1>2, <1>3, <1>5, <1>7 DEF Books, RowsAreTaken
<1>11. HandIsNewest'
  BY <1>1, <1>2, <1>5, <1>6 DEF Books, HandIsNewest
<1>12. NothingTakenIsLost'
  <2> SUFFICES ASSUME NEW k \in Work, k < Taken
               PROVE  \E v \in Workers : Holds(v, k)' \/ InHand(v, k)'
    BY <1>2 DEF NothingTakenIsLost
  <2>1. PICK v \in Workers : Holds(v, k) \/ InHand(v, k)
    BY DEF Books, NothingTakenIsLost
  <2>2. CASE v # w
    BY <1>1, <1>5, <2>1, <2>2 DEF Holds, InHand
  <2>3. CASE v = w /\ Holds(w, k)
    <3>1. PICK i \in 1 .. Len(rows[w]) : rows[w][i] = k
      BY <2>3 DEF Holds
    <3>2. i \in 1 .. Len(rows'[w]) /\ rows'[w][i] = k
      BY <1>4, <3>1
    <3> QED BY <3>2 DEF Holds
  <2>4. CASE v = w /\ InHand(w, k)
    <3>1. Len(rows[w]) + 1 \in 1 .. Len(rows'[w]) /\ rows'[w][Len(rows[w]) + 1] = k
      BY <1>4, <2>4 DEF InHand
    <3> QED BY <3>1 DEF Holds
  <2> QED BY <2>1, <2>2, <2>3, <2>4
<1>13. RowsAreDisjoint'
  <2> SUFFICES ASSUME NEW u \in Workers, NEW v \in Workers, u # v
               PROVE  /\ \A i \in 1 .. Len(rows'[u]), j \in 1 .. Len(rows'[v]) :
                           rows'[u][i] # rows'[v][j]
                      /\ at'[u] = "routing" =>
                           /\ \A j \in 1 .. Len(rows'[v]) : rows'[v][j] # item[u]
                           /\ at'[v] = "routing" => item[u] # item[v]
    BY <1>1 DEF RowsAreDisjoint
  <2>1. CASE u # w /\ v # w
    BY <1>5, <2>1 DEF Books, RowsAreDisjoint
  <2>2. CASE u = w
    BY <1>1, <1>5, <1>6, <1>7, <2>2 DEF Books, RowsAreDisjoint
  <2>3. CASE v = w
    BY <1>1, <1>5, <1>6, <1>7, <2>3 DEF Books, RowsAreDisjoint
  <2> QED BY <2>1, <2>2, <2>3
<1> QED BY <1>8, <1>9, <1>10, <1>11, <1>12, <1>13 DEF Books

LEMMA BooksStep == Shapes /\ Books /\ [Next]_vars => Books'
<1> SUFFICES ASSUME Shapes, Books, [Next]_vars PROVE Books'
  OBVIOUS
<1>1. CASE Dispatch
  BY <1>1, DispatchKeepsBooks
<1>2. CASE \E w \in Workers : Take(w) \/ Route(w)
  BY <1>2, TakeKeepsBooks, RouteKeepsBooks
<1>3. CASE ~Dispatch /\ \A w \in Workers : ~Take(w) /\ ~Route(w)
  BY <1>3, OthersLeaveTheBooks, BooksUntouched
<1> QED BY <1>1, <1>2, <1>3

--------------------------------------------------------------------------------
LEMMA EndStep == Shapes /\ Flags /\ EndIsReached /\ [Next]_vars => EndIsReached'
<1> SUFFICES ASSUME Shapes, Flags, EndIsReached, [Next]_vars PROVE EndIsReached'
  OBVIOUS
<1> USE DEF EndIsReached, Shapes, Flags, mainVars, queueVars, workerVars, resultVars, Move
<1>1. CASE Dispatch
  BY <1>1 DEF Dispatch
<1>2. CASE DispatchFails
  BY <1>2 DEF DispatchFails
<1>3. CASE DispatchEnds
  <2>1. next = WorkCount + 1
    BY <1>3, Constants DEF DispatchEnds
  <2> QED BY <1>3, <2>1 DEF DispatchEnds
<1>4. CASE AwaitTask \/ StartMerge \/ CallerCancels
  BY <1>4 DEF AwaitTask, StartMerge, AllAwaited, CallerCancels
<1>5. CASE Raise \/ MergeNext \/ MergeEnds \/ MergeFails
  BY <1>5 DEF Raise, AllAwaited, MergeNext, MergeEnds, MergeFails, EndMerge
<1>6. ASSUME NEW w \in Workers, Take(w) PROVE EndIsReached'
  <2>1. \A v \in Workers : at[v] # "done"
    BY <1>6 DEF Take
  <2> QED BY <1>6, <2>1 DEF Take
<1>7. ASSUME NEW w \in Workers, Route(w) \/ RouteFails(w) \/ TakeCancelled(w) PROVE EndIsReached'
  BY <1>7 DEF Route, RouteFails, TakeCancelled
<1>8. ASSUME NEW w \in Workers, FinishStore(w) PROVE EndIsReached'
  BY <1>8 DEF FinishStore
<1>9. CASE UNCHANGED vars \/ Ended
  BY <1>9 DEF Ended, vars
<1> QED BY <1>1, <1>2, <1>3, <1>4, <1>5, <1>6, <1>7, <1>8, <1>9 DEF Next, MainStep, WorkerStep

\* Once every task has been awaited, none takes a step.
LEMMA EveryoneAwaited ==
  ASSUME Shapes, AwaitedHaveEnded, joined = WorkerCount
  PROVE  \A w \in Workers : at[w] \notin {"idle", "routing"} /\ ~WorkerStep(w)
BY Constants DEF Shapes, AwaitedHaveEnded, Workers, WorkerStep, Take, Route, RouteFails,
     TakeCancelled, FinishStore

LEMMA AwaitedStep == Shapes /\ AwaitedHaveEnded /\ [Next]_vars => AwaitedHaveEnded'
<1> SUFFICES ASSUME Shapes, AwaitedHaveEnded, [Next]_vars PROVE AwaitedHaveEnded'
  OBVIOUS
<1> USE DEF AwaitedHaveEnded, Shapes, Failed, mainVars, queueVars, workerVars, resultVars, Move
<1>1. CASE Dispatch \/ DispatchFails \/ DispatchEnds \/ CallerCancels
  BY <1>1 DEF Dispatch, DispatchFails, DispatchEnds, CallerCancels
<1>2. CASE AwaitTask
  <2>1. /\ producer = "await" /\ joined < WorkerCount /\ joined' = joined + 1
        /\ at[joined + 1] \notin {"idle", "routing"} /\ UNCHANGED <<producer, at>>
    BY <1>2 DEF AwaitTask
  <2>2. joined \in Nat /\ 1 .. joined + 1 = (1 .. joined) \cup {joined + 1}
    BY Constants
  <2> QED BY <2>1, <2>2
<1>3. CASE Raise \/ StartMerge
  BY <1>3 DEF Raise, StartMerge, AllAwaited
<1>4. CASE MergeNext \/ MergeEnds \/ MergeFails
  BY <1>4 DEF MergeNext, MergeEnds, MergeFails, EndMerge
<1>5. ASSUME NEW w \in Workers, WorkerStep(w) PROVE AwaitedHaveEnded'
  <2>1. producer \in {"dispatch", "await"}
    BY <1>5, EveryoneAwaited
  <2>2. producer' = producer /\ joined' = joined /\ at[w] \in {"idle", "routing"}
    BY <1>5 DEF WorkerStep, Take, Route, RouteFails, TakeCancelled, FinishStore
  <2>3. \A v \in Workers : v # w => at'[v] = at[v]
    BY <1>5 DEF WorkerStep, Take, Route, RouteFails, TakeCancelled, FinishStore
  <2>4. 1 .. joined \subseteq Workers
    BY Constants DEF Workers
  <2>5. \A v \in 1 .. joined : v # w
    BY <2>2
  <2> QED BY <2>1, <2>2, <2>3, <2>4, <2>5
<1>6. CASE UNCHANGED vars \/ Ended
  BY <1>6 DEF Ended, vars
<1> QED BY <1>1, <1>2, <1>3, <1>4, <1>5, <1>6 DEF Next, MainStep

--------------------------------------------------------------------------------
\* When the merge runs, every ordinal is in the rows of some task.
LEMMA EveryRowIsHeld ==
  ASSUME Shapes, Books, EndIsReached, AwaitedHaveEnded, producer \in {"merge", "merged"}
  PROVE  /\ next = WorkCount + 1 /\ \A w \in Workers : at[w] = "done"
         /\ \A k \in Work : \E w \in Workers : Holds(w, k)
<1>1. dispatchFailure = "none" /\ \A w \in Workers : at[w] \notin {"raised", "cancelled"}
  BY DEF AwaitedHaveEnded, Failed
<1>2. \A w \in Workers : at[w] \notin {"idle", "routing"}
  BY EveryoneAwaited DEF AwaitedHaveEnded
<1>3. \A w \in Workers : at[w] = "done"
  BY <1>1, <1>2 DEF Shapes, Places
<1>4. \E w \in Workers : at[w] = "done"
  BY <1>3, Constants DEF Workers
<1>5. queue = <<>> /\ next = WorkCount + 1
  BY <1>1, <1>4 DEF EndIsReached
<1>6. Taken = WorkCount + 1
  BY <1>5, Constants DEF Taken
<1>7. ASSUME NEW k \in Work PROVE \E w \in Workers : Holds(w, k)
  <2>1. k < Taken
    BY <1>6, Constants DEF Work
  <2>2. PICK w \in Workers : Holds(w, k) \/ InHand(w, k)
    BY <2>1 DEF Books, NothingTakenIsLost
  <2>3. ~InHand(w, k)
    BY <1>3 DEF InHand
  <2> QED BY <2>2, <2>3
<1> QED BY <1>3, <1>5, <1>7

\* The next ordinal is ahead of the cursor of the task that has it, and no
\* row ahead of a cursor comes before it.
LEMMA NextIsAhead ==
  ASSUME Shapes, Books, EndIsReached, AwaitedHaveEnded, MergeIsPrefix,
         producer \in {"merge", "merged"}, Len(merged) + 1 \in Work
  PROVE  \E v \in Workers : /\ Active(v) /\ Current(v) \in Int
                            /\ Current(v) <= Len(merged) + 1
<1>1. PICK v \in Workers : Holds(v, Len(merged) + 1)
  BY EveryRowIsHeld
<1>2. PICK i \in 1 .. Len(rows[v]) : rows[v][i] = Len(merged) + 1
  BY <1>1 DEF Holds
<1>3. cursor[v] \in Nat /\ Len(rows[v]) \in Nat /\ Len(merged) \in Nat
  BY DEF Shapes
<1>4. ~(rows[v][i] <= Len(merged))
  BY <1>2, <1>3
<1>5. ~(i <= cursor[v])
  BY <1>4 DEF MergeIsPrefix
<1>6. cursor[v] + 1 \in 1 .. Len(rows[v]) /\ cursor[v] + 1 <= i
  BY <1>3, <1>5
<1>7. Current(v) \in Int
  BY <1>6, RowsAreWork DEF Current
<1>8. Current(v) <= Len(merged) + 1
  <2>1. CASE cursor[v] + 1 = i
    BY <1>2, <1>3, <2>1 DEF Current
  <2>2. CASE cursor[v] + 1 < i
    <3>1. rows[v][cursor[v] + 1] < rows[v][i]
      BY <1>6, <2>2 DEF Books, RowsIncrease
    <3> QED BY <1>2, <1>3, <1>7, <3>1 DEF Current
  <2> QED BY <1>3, <1>6, <2>1, <2>2
<1>9. Active(v)
  BY <1>3, <1>6 DEF Active
<1> QED BY <1>7, <1>8, <1>9

LEMMA MergeNextKeepsPrefix ==
  ASSUME Shapes, Books, EndIsReached, AwaitedHaveEnded, MergeIsPrefix, MergeNext
  PROVE  MergeIsPrefix'
<1> DEFINE n == Len(merged)
<1>1. PICK w \in Workers : /\ Active(w)
                           /\ \A v \in Workers : Active(v) => Current(w) <= Current(v)
                           /\ merged' = Append(merged, Current(w))
                           /\ cursor' = [cursor EXCEPT ![w] = @ + 1]
  BY DEF MergeNext
<1>2. producer = "merge" /\ producer' = producer /\ rows' = rows
  BY DEF MergeNext, mainVars, workerVars
<1>3. n \in Nat /\ n <= WorkCount /\ cursor[w] \in Nat /\ Len(rows[w]) \in Nat
  BY Constants DEF Shapes, MergeIsPrefix
<1>4. cursor[w] + 1 \in 1 .. Len(rows[w])
  BY <1>1, <1>3 DEF Active
<1>5. Current(w) \in Work /\ Current(w) \in Int
  BY <1>4, RowsAreWork DEF Current
<1>6. Current(w) > n
  <2>1. ~(cursor[w] + 1 <= cursor[w])
    BY <1>3
  <2>2. ~(rows[w][cursor[w] + 1] <= n)
    BY <1>4, <2>1 DEF MergeIsPrefix
  <2> QED BY <1>3, <1>5, <2>2 DEF Current
<1>7. Current(w) = n + 1
  <2>1. n + 1 \in Work
    BY <1>3, <1>5, <1>6, Constants DEF Work
  <2>2. PICK v \in Workers : Active(v) /\ Current(v) \in Int /\ Current(v) <= n + 1
    BY <1>2, <2>1, NextIsAhead
  <2>3. Current(w) <= Current(v)
    BY <1>1, <2>2
  <2> QED BY <1>3, <1>5, <1>6, <2>2, <2>3
<1>8. Len(merged') = n + 1 /\ merged'[n + 1] = n + 1 /\ \A i \in 1 .. n : merged'[i] = merged[i]
  BY <1>1, <1>3, <1>7 DEF Shapes
<1>9. \A i \in 1 .. Len(merged') : merged'[i] = i
  <2> SUFFICES ASSUME NEW i \in 1 .. n + 1 PROVE merged'[i] = i
    BY <1>8
  <2>1. CASE i \in 1 .. n
    BY <1>8, <2>1 DEF MergeIsPrefix
  <2>2. CASE i = n + 1
    BY <1>8, <2>2
  <2> QED BY <1>3, <2>1, <2>2
<1>10. cursor'[w] = cursor[w] + 1 /\ \A v \in Workers : v # w => cursor'[v] = cursor[v]
  BY <1>1 DEF Shapes
<1>11. ASSUME NEW v \in Workers, NEW i \in 1 .. Len(rows[v])
       PROVE  i <= cursor'[v] <=> rows[v][i] <= n + 1
  <2>1. rows[v][i] \in Int /\ i \in Int /\ cursor[v] \in Nat
    BY RowsAreWork DEF Shapes
  <2>2. i <= cursor[v] <=> rows[v][i] <= n
    BY DEF MergeIsPrefix
  <2>3. CASE v # w
    <3>1. rows[v][i] # rows[w][cursor[w] + 1]
      BY <1>4, <2>3 DEF Books, RowsAreDisjoint
    <3>2. rows[v][i] # n + 1
      BY <1>7, <3>1 DEF Current
    <3> QED BY <1>3, <1>10, <2>1, <2>2, <2>3, <3>2
  <2>4. CASE v = w /\ i = cursor[w] + 1
    BY <1>3, <1>7, <1>10, <2>4 DEF Current
  <2>5. CASE v = w /\ i > cursor[w] + 1
    <3>1. rows[w][cursor[w] + 1] < rows[w][i]
      BY <1>4, <2>5 DEF Books, RowsIncrease
    <3> QED BY <1>3, <1>7, <1>10, <2>1, <2>5, <3>1 DEF Current
  <2>6. CASE v = w /\ i <= cursor[w]
    BY <1>3, <1>10, <2>1, <2>2, <2>6
  <2> QED BY <1>3, <2>1, <2>3, <2>4, <2>5, <2>6
<1>12. \A v \in Workers : cursor'[v] <= Len(rows[v])
  <2> TAKE v \in Workers
  <2>1. CASE v = w
    BY <1>3, <1>4, <1>10, <2>1
  <2>2. CASE v # w
    BY <1>10, <2>2 DEF MergeIsPrefix
  <2> QED BY <2>1, <2>2
<1>13. n + 1 \in 0 .. WorkCount
  BY <1>3, <1>5, <1>7, Constants DEF Work
<1> QED BY <1>2, <1>8, <1>9, <1>11, <1>12, <1>13 DEF MergeIsPrefix

LEMMA MergeStep ==
  ASSUME Shapes, Books, EndIsReached, AwaitedHaveEnded, MergeIsPrefix, [Next]_vars
  PROVE  MergeIsPrefix'
<1>1. CASE MergeNext
  BY <1>1, MergeNextKeepsPrefix
<1>2. CASE MergeEnds
  BY <1>2 DEF MergeEnds, EndMerge, MergeIsPrefix, Active, queueVars
<1>3. CASE Raise \/ MergeFails
  BY <1>3 DEF Raise, AllAwaited, MergeFails, EndMerge, MergeIsPrefix, queueVars
<1>4. CASE Dispatch \/ DispatchFails \/ DispatchEnds \/ AwaitTask \/ StartMerge \/ CallerCancels
  BY <1>4 DEF Dispatch, DispatchFails, DispatchEnds, AwaitTask, StartMerge, AllAwaited, CallerCancels,
       MergeIsPrefix, mainVars, queueVars, workerVars, resultVars
<1>5. ASSUME NEW w \in Workers, Take(w) \/ RouteFails(w) \/ TakeCancelled(w) \/ FinishStore(w)
      PROVE  MergeIsPrefix'
  BY <1>5 DEF Take, RouteFails, TakeCancelled, FinishStore, MergeIsPrefix, Active, mainVars, queueVars,
       resultVars
<1>6. ASSUME NEW w \in Workers, Route(w) PROVE MergeIsPrefix'
  <2>1. producer \in {"dispatch", "await"}
    <3>1. at[w] = "routing"
      BY <1>6 DEF Route
    <3> QED BY <3>1, EveryoneAwaited DEF Shapes, AwaitedHaveEnded
  <2>2. merged' = <<>> /\ producer' = producer /\ cursor' = cursor /\ \A v \in Workers : cursor[v] = 0
    BY <1>6, <2>1 DEF Route, MergeIsPrefix, mainVars, resultVars
  <2>3. rows' \in [Workers -> Seq(Work)]
    <3>1. item[w] \in Work
      BY <1>6 DEF Route, Books, HandIsNewest
    <3> QED BY <1>6, <3>1 DEF Route, Shapes
  <2>4. ASSUME NEW v \in Workers
        PROVE  /\ 0 <= Len(rows'[v])
               /\ \A i \in 1 .. Len(rows'[v]) : i <= 0 <=> rows'[v][i] <= 0
    <3> DEFINE r == rows'[v]
    <3>1. r \in Seq(Work)
      BY <2>3
    <3> HIDE DEF r
    <3>2. \A i \in 1 .. Len(r) : r[i] \in Work
      BY <3>1, ElementOfSeq
    <3>3. 0 <= Len(r) /\ \A i \in 1 .. Len(r) : i <= 0 <=> r[i] <= 0
      BY <3>1, <3>2 DEF Work
    <3> QED BY <3>3 DEF r
  <2>5. Len(merged') = 0
    BY <2>2
  <2> QED BY <2>1, <2>2, <2>4, <2>5, Constants DEF MergeIsPrefix
<1>7. CASE UNCHANGED vars \/ Ended
  BY <1>7 DEF Ended, vars, MergeIsPrefix, Active
<1> QED BY <1>1, <1>2, <1>3, <1>4, <1>5, <1>6, <1>7 DEF Next, MainStep, WorkerStep

LEMMA ReleasedStep ==
  ASSUME Shapes, AwaitedHaveEnded, EverythingReleased, [Next]_vars
  PROVE  EverythingReleased'
<1>1. CASE Raise \/ MergeEnds \/ MergeFails
  BY <1>1 DEF Raise, MergeEnds, MergeFails, EndMerge, EverythingReleased
<1>2. CASE Dispatch \/ DispatchFails \/ DispatchEnds \/ AwaitTask \/ StartMerge \/ CallerCancels
  BY <1>2 DEF Dispatch, DispatchFails, DispatchEnds, AwaitTask, StartMerge, AllAwaited, CallerCancels,
       EverythingReleased, mainVars
<1>3. CASE MergeNext
  BY <1>3 DEF MergeNext, EverythingReleased, mainVars
<1>4. ASSUME NEW w \in Workers, WorkerStep(w) PROVE EverythingReleased'
  <2>1. producer \notin {"merged", "raised"}
    BY <1>4, EveryoneAwaited DEF AwaitedHaveEnded
  <2>2. producer' = producer
    BY <1>4 DEF WorkerStep, Take, Route, RouteFails, TakeCancelled, FinishStore, mainVars
  <2> QED BY <2>1, <2>2 DEF EverythingReleased
<1>5. CASE UNCHANGED vars \/ Ended
  BY <1>5 DEF Ended, vars, EverythingReleased
<1> QED BY <1>1, <1>2, <1>3, <1>4, <1>5 DEF Next, MainStep

LEMMA InitHolds == Init => IInv
<1> SUFFICES ASSUME Init PROVE IInv
  OBVIOUS
<1> USE Constants DEF Init
<1>1. TypeOK
  BY TypeInit
<1>2. QueueIsInterval /\ RowsIncrease /\ RowsAreTaken /\ HandIsNewest /\ RowsAreDisjoint
  BY DEF QueueIsInterval, RowsIncrease, RowsAreTaken, HandIsNewest, RowsAreDisjoint
<1>3. NothingTakenIsLost
  BY DEF NothingTakenIsLost, Taken, Work
<1>4. EndIsReached /\ AwaitedHaveEnded
  BY DEF EndIsReached, AwaitedHaveEnded
<1>5. MergeIsPrefix
  BY DEF MergeIsPrefix
<1>6. EverythingReleased
  BY DEF EverythingReleased
<1> QED BY <1>1, <1>2, <1>3, <1>4, <1>5, <1>6 DEF IInv, Books

LEMMA StepKeeps == IInv /\ [Next]_vars => IInv'
<1> SUFFICES ASSUME IInv, [Next]_vars PROVE IInv'
  OBVIOUS
<1>1. Flags /\ Shapes /\ Books /\ EndIsReached /\ AwaitedHaveEnded /\ MergeIsPrefix
      /\ EverythingReleased /\ HandIsNewest
  BY TypeParts DEF IInv, Books
<1>2. Flags'
  BY <1>1, FlagsStep
<1>3. Shapes'
  BY <1>1, ShapesStep
<1>4. Books' /\ EndIsReached' /\ AwaitedHaveEnded'
  BY <1>1, BooksStep, EndStep, AwaitedStep
<1>5. MergeIsPrefix' /\ EverythingReleased'
  BY <1>1, MergeStep, ReleasedStep
<1>6. TypeOK'
  BY <1>2, <1>3, TypeParts DEF TypeOK, Flags, Shapes
<1> QED BY <1>4, <1>5, <1>6 DEF IInv

LEMMA Invariant == Spec => []IInv
BY InitHolds, StepKeeps, PTL DEF Spec

\* The state stays well-typed; the queue never exceeds its capacity.
THEOREM TypeCorrect == Spec => []TypeOK
<1>1. IInv => TypeOK
  BY DEF IInv
<1> QED BY <1>1, Invariant, PTL

LEMMA MergedIsTheWork == IInv => MergedInOrder
<1> SUFFICES ASSUME IInv, producer = "merged" PROVE merged = [i \in Work |-> i]
  BY DEF MergedInOrder
<1>1. Shapes /\ Books /\ EndIsReached /\ AwaitedHaveEnded /\ MergeIsPrefix
  BY TypeParts DEF IInv
<1>2. \A v \in Workers : ~Active(v)
  BY <1>1 DEF MergeIsPrefix
<1>3. Len(merged) + 1 \notin Work
  BY <1>1, <1>2, NextIsAhead
<1>4. Len(merged) = WorkCount
  BY <1>1, <1>3, Constants DEF MergeIsPrefix, Work
<1> QED BY <1>1, <1>4 DEF MergeIsPrefix, Shapes, Work

\* The merged store holds every ordinal once and in order, for any amount of
\* work and whichever task takes which row.
THEOREM MergeKeepsOrder == Spec => []MergedInOrder
BY Invariant, MergedIsTheWork, PTL

\* However the stage ends, every worker store is gone and the graph has its
\* own concurrency back.
THEOREM NothingIsLeftBehind == Spec => []EverythingReleased
<1>1. IInv => EverythingReleased
  BY DEF IInv
<1> QED BY <1>1, Invariant, PTL

\* The merge never starts over a failure of a task or of the reader.
THEOREM NoFailureIsLost == Spec => []FailureSurfaces
<1>1. IInv => FailureSurfaces
  <2> SUFFICES ASSUME IInv, producer \in {"merge", "merged"}
               PROVE  next > WorkCount /\ \A w \in Workers : at[w] = "done"
    BY DEF FailureSurfaces
  <2>1. Shapes /\ Books /\ EndIsReached /\ AwaitedHaveEnded
    BY TypeParts DEF IInv
  <2> QED BY <2>1, EveryRowIsHeld, Constants
<1> QED BY <1>1, Invariant, PTL
================================================================================
