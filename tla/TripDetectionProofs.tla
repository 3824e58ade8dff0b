------------------------ MODULE TripDetectionProofs ------------------------
(***************************************************************************)
(* Theorems about TripDetection, for every set of trips, every finite set  *)
(* of workers and every time-out, with and without failures and manual     *)
(* trips; and, in the last part, about a replica that nothing disturbs.    *)
(***************************************************************************)
EXTENDS TripDetection, FiniteSetTheorems, TLAPS

\* An invocation runs the awaited calls of its operation and no others, and has a
\* trip as soon as its row is created.
Stages ==
    ({"start"} \X {"row", "point", "cache", "emit"})
        \cup ({"update"} \X {"cache", "point", "row"})
        \cup ({"end", "timeout"} \X {"row", "del", "emit"})
        \cup ({"open", "close", "declare"} \X {"row", "emit"})

Creating(w) == Running(w, {"start", "open"}, "row")

Shape ==
    \A w \in Workers : task[w] # None =>
        /\ <<task[w].op, task[w].at>> \in Stages
        /\ ~Creating(w) => task[w].trip \in Trips

TypeInv == TypeOK /\ Shape

\* What the invariant says of one running invocation.
LEMMA TaskShape ==
    ASSUME TypeInv, NEW w \in Workers, task[w] # None
    PROVE  /\ task[w] \in Task
           /\ task[w].count \in Nat
           /\ task[w].trip \in Trips \cup {None}
           /\ <<task[w].op, task[w].at>> \in Stages
           /\ ~Creating(w) => task[w].trip \in Trips
  BY DEF TypeInv, TypeOK, Shape, Task

\* An awaited call leads to the next one of the same invocation.
LEMMA ContinueShape ==
    ASSUME TypeInv, NEW w \in Workers, task[w] # None,
           NEW at \in {"row", "point", "cache", "del", "emit"}, Continue(w, at)
    PROVE  /\ task' \in [Workers -> Task \cup {None}]
           /\ task'[w] = [task[w] EXCEPT !.at = at]
           /\ task'[w].op = task[w].op
           /\ task'[w].at = at
           /\ task'[w].trip = task[w].trip
           /\ task'[w].count = task[w].count
           /\ \A v \in Workers \ {w} : task'[v] = task[v]
<1>1. task[w] \in Task /\ task \in [Workers -> Task \cup {None}]
  BY TaskShape DEF TypeInv, TypeOK
<1>2. task'[w] = [task[w] EXCEPT !.at = at] /\ \A v \in Workers \ {w} : task'[v] = task[v]
  BY <1>1 DEF Continue
<1>3. [task[w] EXCEPT !.at = at] \in Task
  BY <1>1 DEF Task
<1>4. task' \in [Workers -> Task \cup {None}]
  BY <1>1, <1>3 DEF Continue
<1>5. QED
  BY <1>1, <1>2, <1>4 DEF Task

\* An invocation that ends leaves the others alone.
LEMMA FinishShape ==
    ASSUME TypeInv, NEW w \in Workers, Finish(w)
    PROVE  /\ task' \in [Workers -> Task \cup {None}]
           /\ task'[w] = None
           /\ \A v \in Workers \ {w} : task'[v] = task[v]
  BY DEF TypeInv, TypeOK, Finish

\* A message or call that comes in only takes a worker.
LEMMA ReceiveStarts ==
    ASSUME NEW w \in Workers, Receive(w)
    PROVE  /\ \E op, at, t, n : Start(w, op, at, t, n)
           /\ UNCHANGED <<row, samples, stated, points, lost, cached, age, events>>
<1>1. \E op, at, t, n : Start(w, op, at, t, n)
  <2>1. ASSUME NEW ping \in Ping, NEW stamp \in Stamps, Message(w, ping, stamp)
        PROVE  \E op, at, t, n : Start(w, op, at, t, n)
    BY <2>1 DEF Message, BeginTrip, FinishTrip, FollowTrip
  <2>2. CASE OpenTrip(w) \/ \E t \in Trips : CloseTrip(w, t)
    BY <2>2 DEF OpenTrip, CloseTrip
  <2>3. QED
    BY <2>1, <2>2 DEF Receive
<1>2. QED
  BY <1>1 DEF Start

\* Every step keeps the types.
LEMMA TypeStep == TypeInv /\ [Next]_vars => TypeOK'
<1> SUFFICES ASSUME TypeInv, [Next]_vars PROVE TypeOK'
  OBVIOUS
<1> USE TripAssumption DEF TypeOK, TripStatus
<1>0. TypeOK
  BY DEF TypeInv
<1>1. ASSUME NEW w \in Workers, Receive(w) PROVE TypeOK'
  <2> USE <1>0 DEF Start, ActiveTripState, Task
  <2>1. ASSUME NEW ping \in Ping, NEW stamp \in Stamps, Message(w, ping, stamp)
        PROVE TypeOK'
    <3>1. /\ sent' \in [Workers -> Int] /\ \A v \in Workers : sent'[v] <= IdleTimeout
          /\ stopped' \in Int /\ stopped' <= IdleTimeout
      <4>1. /\ sent' = [sent EXCEPT ![w] = stamp]
            /\ stopped' = stopped \/ stopped' = stamp
            /\ stamp \in Int /\ stamp <= IdleTimeout
        BY <2>1 DEF Message, BeginTrip, FinishTrip, FollowTrip, Moves
      <4>2. QED
        BY <4>1
    <3>2. CASE BeginTrip(w, ping, stamp)
      BY <3>1, <3>2 DEF BeginTrip
    <3>3. CASE FinishTrip(w, ping, stamp)
      BY <3>1, <3>3 DEF FinishTrip
    <3>4. CASE FollowTrip(w, ping, stamp)
      BY <3>1, <3>4 DEF FollowTrip
    <3>5. QED
      BY <2>1, <3>2, <3>3, <3>4 DEF Message
  <2>2. CASE OpenTrip(w)
    BY <2>2 DEF OpenTrip
  <2>3. ASSUME NEW t \in Trips, CloseTrip(w, t) PROVE TypeOK'
    <3>1. PICK op \in {"close", "declare"}, n \in Nat : Start(w, op, "row", t, n)
      BY <2>3 DEF CloseTrip
    <3>2. UNCHANGED <<stopped, sent>>
      BY <2>3 DEF CloseTrip
    <3>3. QED
      BY <3>1, <3>2
  <2>4. QED
    BY <1>1, <2>1, <2>2, <2>3 DEF Receive
<1>2. ASSUME NEW w \in Workers, TaskStep(w) PROVE TypeOK'
  <2>1. ASSUME NEW t \in Trips, CreateRow(w, t) PROVE TypeOK'
    BY <2>1, <1>0 DEF CreateRow, AfterRow, Running, Task, clock
  <2>2. CASE RecordPoint(w)
    <3>1. task[w] # None /\ ~Creating(w)
      BY <2>2 DEF RecordPoint, Running, Creating
    <3>2. points' \in [Trips -> Nat]
      <4>1. task[w].trip \in Trips
        BY <3>1, TaskShape
      <4>2. points' = [points EXCEPT ![task[w].trip] = @ + 1]
        BY <2>2 DEF RecordPoint
      <4>3. QED
        BY <4>1, <4>2, <1>0
    <3>3. task' \in [Workers -> Task \cup {None}]
      BY <2>2, <3>1, ContinueShape DEF RecordPoint
    <3>4. QED
      BY <2>2, <3>2, <3>3, <1>0 DEF RecordPoint, clock
  <2>3. CASE CacheTrip(w)
    <3>1. task[w] # None /\ ~Creating(w)
      BY <2>3 DEF CacheTrip, Running, Creating
    <3>2. cached' \in ActiveTripState
      BY <2>3, <3>1, TaskShape DEF CacheTrip, ActiveTripState
    <3>3. task' \in [Workers -> Task \cup {None}]
      BY <2>3, <3>1, ContinueShape DEF CacheTrip
    <3>4. QED
      BY <2>3, <3>2, <3>3, <1>0 DEF CacheTrip, Touch
  <2>4. CASE UpdateRow(w)
    BY <2>4, <1>0, TaskShape, FinishShape
    DEF UpdateRow, Running, SampleRow, KeepStatus, clock
  <2>5. CASE CompleteRow(w)
    <3>1. task[w] # None /\ task[w].trip \in Trips
      BY <2>5, TaskShape DEF CompleteRow, Running, Creating
    <3>2. row' \in [Trips -> TripStatus] /\ samples' \in [Trips -> Nat] /\ stated' \subseteq Trips
      BY <2>5, <3>1, <1>0, TaskShape DEF CompleteRow, SampleRow
    <3>3. task' \in [Workers -> Task \cup {None}]
      BY <2>5, <3>1, ContinueShape DEF CompleteRow
    <3>4. QED
      BY <2>5, <3>2, <3>3, <1>0 DEF CompleteRow, clock
  <2>6. CASE DropCache(w)
    BY <2>6, <1>0, ContinueShape DEF DropCache, Drop, Running, clock
  <2>7. CASE EmitEvent(w)
    <3>1. task[w] # None /\ ~Creating(w)
      BY <2>7 DEF EmitEvent, Running, Creating
    <3>2. events' \subseteq Event
      <4>1. task[w].trip \in Trips
        BY <3>1, TaskShape
      <4>2. <<Announced(task[w].op), task[w].trip>> \in Event
        BY <4>1 DEF Announced, Event
      <4>3. QED
        BY <4>2, <2>7, <1>0 DEF EmitEvent
    <3>3. QED
      BY <2>7, <3>2, <1>0, FinishShape DEF EmitEvent, clock
  <2>8. QED
    BY <1>2, <2>1, <2>2, <2>3, <2>4, <2>5, <2>6, <2>7 DEF TaskStep
<1>3. ASSUME NEW w \in Workers, Abort(w) PROVE TypeOK'
  <2>1. lost' \in [Trips -> Nat]
    <3>1. CASE Running(w, {"start", "update"}, "point")
      <4>1. task[w].trip \in Trips
        BY <3>1, TaskShape DEF Running, Creating
      <4>2. lost' = [lost EXCEPT ![task[w].trip] = @ + 1]
        BY <1>3, <3>1 DEF Abort
      <4>3. QED
        BY <4>1, <4>2, <1>0
    <3>2. CASE ~Running(w, {"start", "update"}, "point")
      BY <1>3, <3>2, <1>0 DEF Abort
    <3>3. QED
      BY <3>1, <3>2
  <2>2. QED
    BY <1>3, <2>1, <1>0, FinishShape DEF Abort, clock
<1>4. CASE ExpireCache
  BY <1>4, <1>0 DEF ExpireCache, clock
<1>5. CASE Tick
  BY <1>5, <1>0 DEF Tick, Older
<1>6. CASE UNCHANGED vars
  BY <1>6, <1>0 DEF vars
<1>7. QED
  BY <1>1, <1>2, <1>3, <1>4, <1>5, <1>6 DEF Next

\* A step of a worker leaves the invocations of the other workers alone.
LEMMA OneMoves ==
    ASSUME TypeInv, NEW w \in Workers, Receive(w) \/ TaskStep(w) \/ Abort(w)
    PROVE  \A v \in Workers \ {w} : task'[v] = task[v]
<1>0. task \in [Workers -> Task \cup {None}]
  BY DEF TypeInv, TypeOK
<1>1. CASE Receive(w)
  BY <1>0, <1>1, ReceiveStarts DEF Start
<1>2. CASE TaskStep(w)
  BY <1>0, <1>2
  DEF TaskStep, CreateRow, RecordPoint, CacheTrip, UpdateRow, CompleteRow, DropCache,
      EmitEvent, Continue, Finish
<1>3. CASE Abort(w)
  BY <1>0, <1>3 DEF Abort, Finish
<1>4. QED
  BY <1>1, <1>2, <1>3

\* Every step keeps the stages of an invocation.
LEMMA ShapeStep == TypeInv /\ [Next]_vars => Shape'
<1> SUFFICES ASSUME TypeInv, [Next]_vars PROVE Shape'
  OBVIOUS
<1>0. TypeOK /\ Shape
  BY DEF TypeInv
<1>1. ASSUME NEW w \in Workers, Receive(w) \/ TaskStep(w) \/ Abort(w), task'[w] # None
      PROVE  /\ <<task'[w].op, task'[w].at>> \in Stages
             /\ ~Creating(w)' => task'[w].trip \in Trips
  <2>1. CASE Receive(w)
    <3>1. PICK op, at, t, n :
              /\ Start(w, op, at, t, n)
              /\ <<op, at>> \in Stages
              /\ op \notin {"start", "open"} => t \in Trips
              /\ op \in {"start", "open"} => at = "row"
      BY <2>1, <1>0
      DEF Receive, Message, BeginTrip, FinishTrip, FollowTrip, OpenTrip, CloseTrip, TypeOK,
          ActiveTripState, Stages
    <3>2. task'[w] = [op |-> op, at |-> at, trip |-> t, count |-> n]
      BY <3>1, <1>0 DEF Start, TypeOK
    <3>3. QED
      BY <3>1, <3>2, <1>1 DEF Creating, Running
  <2>2. ASSUME NEW t \in Trips, CreateRow(w, t)
        PROVE  <<task'[w].op, task'[w].at>> \in Stages /\ task'[w].trip \in Trips
    BY <2>2, <1>0 DEF CreateRow, AfterRow, Running, TypeOK, Task, Stages
  <2>3. CASE RecordPoint(w) \/ CacheTrip(w) \/ CompleteRow(w) \/ DropCache(w)
    <3>1. task[w] # None /\ ~Creating(w) /\ task[w].trip \in Trips
      BY <2>3, TaskShape
      DEF RecordPoint, CacheTrip, CompleteRow, DropCache, Running, Creating
    <3>2. PICK at \in {"row", "point", "cache", "del", "emit"} :
              Continue(w, at) /\ <<task[w].op, at>> \in Stages
      BY <2>3, <3>1, TaskShape
      DEF RecordPoint, CacheTrip, CompleteRow, DropCache, Running, Stages
    <3>3. QED
      BY <3>1, <3>2, ContinueShape
  <2>4. CASE UpdateRow(w) \/ EmitEvent(w) \/ Abort(w)
    BY <2>4, <1>1, FinishShape DEF UpdateRow, EmitEvent, Abort
  <2>5. QED
    BY <1>1, <2>1, <2>2, <2>3, <2>4 DEF TaskStep
<1>2. ASSUME NEW w \in Workers, Receive(w) \/ TaskStep(w) \/ Abort(w) PROVE Shape'
  BY <1>0, <1>1, <1>2, OneMoves DEF Shape, Creating, Running
<1>3. CASE ExpireCache \/ Tick \/ UNCHANGED vars
  BY <1>3, <1>0 DEF ExpireCache, Tick, vars, Shape, Creating, Running
<1>4. QED
  BY <1>2, <1>3 DEF Next

\* The types hold in every reachable state.
THEOREM TypeCorrect == Spec => []TypeOK
<1>1. Init => TypeInv
  BY TripAssumption DEF Init, TypeInv, TypeOK, Shape, TripStatus
<1>2. QED
  BY <1>1, TypeStep, ShapeStep, PTL DEF Spec, TypeInv

-----------------------------------------------------------------------------
(***************************************************************************)
(* The inductive invariant behind the safety properties: what an           *)
(* invocation that read the stores earlier may still rely on.  Rows only   *)
(* move from ABSENT to IN_PROGRESS to COMPLETED, and the samples of a trip *)
(* that are accounted for, as a route point, as a point still to be stored *)
(* or as one that failed, never become fewer, whatever the others do.      *)
(***************************************************************************)

RowInv ==
    \A w \in Workers : task[w] # None /\ ~Creating(w) =>
        /\ row[task[w].trip] # "ABSENT"
        /\ task[w].op = "update" \/ Running(w, {"start"}, "cache")
              => points[task[w].trip] >= 1
        /\ Running(w, {"end", "timeout"}, "del") => row[task[w].trip] = "COMPLETED"
        /\ Running(w, {"end", "timeout", "close", "declare"}, "emit")
              => row[task[w].trip] = "COMPLETED"

\* An update has counted its sample before it goes on to store the point.
Ahead(w) == IF Running(w, {"update"}, "cache") THEN 1 ELSE 0

KnownInv ==
    /\ cached # None => cached.count <= Covered(cached.trip)
    /\ \A w \in Workers : task[w] # None =>
          /\ Creating(w) => task[w].count = IF task[w].op = "start" THEN 1 ELSE 0
          /\ ~Creating(w) /\ task[w].op # "declare"
                => task[w].count <= Covered(task[w].trip) + Ahead(w)

\* A distance is stated as the trip is closed, and the row stays closed.
StatedIsClosed == \A t \in stated : row[t] = "COMPLETED"

IInv == /\ TypeInv /\ RowInv /\ KnownInv /\ StatedIsClosed
        /\ CachedIsRecorded
        /\ AnnouncedIsDone
        /\ SamplesCovered

\* The initial state satisfies the inductive invariant.
LEMMA InitIInv == Init => IInv
<1> SUFFICES ASSUME Init PROVE IInv
  OBVIOUS
<1>1. TypeInv
  BY TripAssumption DEF Init, TypeInv, TypeOK, Shape, TripStatus
<1>2. RowInv /\ KnownInv /\ StatedIsClosed /\ CachedIsRecorded /\ AnnouncedIsDone
  BY DEF Init, RowInv, KnownInv, StatedIsClosed, CachedIsRecorded, AnnouncedIsDone
<1>3. ASSUME NEW t \in Trips PROVE samples[t] <= Covered(t)
  <2>1. Unstored(t) = {}
    BY DEF Init, Unstored, Running
  <2>2. QED
    BY <2>1, <1>3, FS_EmptySet DEF Init, Covered
<1>4. QED
  BY <1>1, <1>2, <1>3 DEF IInv, SamplesCovered, Covered

\* A row moves from ABSENT to IN_PROGRESS to COMPLETED and never back.
LEMMA RowsAdvance ==
    ASSUME TypeInv, [Next]_vars, NEW t \in Trips
    PROVE  /\ row[t] # "ABSENT" => row'[t] # "ABSENT"
           /\ row[t] = "COMPLETED" => row'[t] = "COMPLETED"
<1>0. row \in [Trips -> TripStatus]
  BY DEF TypeInv, TypeOK
<1>1. \/ UNCHANGED row
      \/ \E u \in Trips : row[u] = "ABSENT" /\ row' = [row EXCEPT ![u] = "IN_PROGRESS"]
      \/ \E u : row' = [row EXCEPT ![u] = "COMPLETED"]
  BY ReceiveStarts
  DEF Next, TaskStep, CreateRow, RecordPoint, CacheTrip, UpdateRow, KeepStatus, CompleteRow,
         DropCache, EmitEvent, Abort, ExpireCache, Tick, vars
<1>2. QED
  BY <1>0, <1>1

\* A route point is never removed.
LEMMA PointsGrow ==
    ASSUME TypeInv, [Next]_vars, NEW t \in Trips
    PROVE  points[t] >= 1 => points'[t] >= 1
<1>0. points \in [Trips -> Nat]
  BY DEF TypeInv, TypeOK
<1>1. UNCHANGED points \/ \E u : points' = [points EXCEPT ![u] = @ + 1]
  BY ReceiveStarts
  DEF Next, TaskStep, CreateRow, RecordPoint, CacheTrip, UpdateRow, CompleteRow,
         DropCache, EmitEvent, Abort, ExpireCache, Tick, vars
<1>2. QED
  BY <1>0, <1>1

\* Finitely many invocations are about to store a route point.
LEMMA CoveredType ==
    ASSUME TypeInv, NEW t \in Trips
    PROVE  /\ IsFiniteSet(Unstored(t))
           /\ Cardinality(Unstored(t)) \in Nat
           /\ points[t] \in Nat /\ lost[t] \in Nat /\ samples[t] \in Nat
           /\ Covered(t) \in Nat
<1>1. IsFiniteSet(Unstored(t)) /\ Cardinality(Unstored(t)) \in Nat
  BY TripAssumption, FS_Subset, FS_CardinalityType DEF Unstored
<1>2. points[t] \in Nat /\ lost[t] \in Nat /\ samples[t] \in Nat
  BY DEF TypeInv, TypeOK
<1>3. QED
  BY <1>1, <1>2 DEF Covered

\* The samples accounted for when a worker comes to the route point of a trip.
LEMMA CoveredJoins ==
    ASSUME TypeInv, NEW t \in Trips, NEW w \in Workers, w \notin Unstored(t),
           \A v \in Workers \ {w} : task'[v] = task[v],
           points'[t] = points[t], lost'[t] = lost[t]
    PROVE  Covered(t)' = Covered(t) + IF w \in Unstored(t)' THEN 1 ELSE 0
<1>1. \A v \in Workers \ {w} : v \in Unstored(t)' <=> v \in Unstored(t)
  BY DEF Unstored, Running
<1>2. Unstored(t) \subseteq Workers /\ Unstored(t)' \subseteq Workers
  BY DEF Unstored
<1>3. CASE w \in Unstored(t)'
  <2>1. Unstored(t)' = Unstored(t) \cup {w}
    BY <1>1, <1>2, <1>3
  <2>2. Cardinality(Unstored(t)') = Cardinality(Unstored(t)) + 1
    BY <2>1, CoveredType, FS_AddElement
  <2>3. QED
    BY <1>3, <2>2, CoveredType DEF Covered
<1>4. CASE w \notin Unstored(t)'
  <2>1. Unstored(t)' = Unstored(t)
    BY <1>1, <1>2, <1>4
  <2>2. QED
    BY <1>4, <2>1, CoveredType DEF Covered
<1>5. QED
  BY <1>3, <1>4

\* The samples accounted for when a worker has stored the route point, or failed to.
LEMMA CoveredLeaves ==
    ASSUME TypeInv, NEW t \in Trips, NEW w \in Workers,
           w \in Unstored(t), w \notin Unstored(t)',
           \A v \in Workers \ {w} : task'[v] = task[v],
           points'[t] + lost'[t] = points[t] + lost[t] + 1,
           points'[t] \in Nat, lost'[t] \in Nat
    PROVE  Covered(t)' = Covered(t)
<1>1. \A v \in Workers \ {w} : v \in Unstored(t)' <=> v \in Unstored(t)
  BY DEF Unstored, Running
<1>2. Unstored(t)' = Unstored(t) \ {w}
  BY <1>1 DEF Unstored
<1>3. Cardinality(Unstored(t)') = Cardinality(Unstored(t)) - 1
  BY <1>2, CoveredType, FS_RemoveElement
<1>4. QED
  BY <1>3, CoveredType DEF Covered

\* Samples that are accounted for stay accounted for.
LEMMA CoveredGrows ==
    ASSUME TypeInv, TypeInv', [Next]_vars, NEW t \in Trips
    PROVE  Covered(t)' >= Covered(t)
<1>0. Covered(t) \in Nat
  BY CoveredType
<1> DEFINE Step(w) == Receive(w) \/ TaskStep(w) \/ Abort(w)
<1>1. ASSUME NEW w \in Workers, Step(w), w \notin Unstored(t) PROVE Covered(t)' >= Covered(t)
  <2>1. points'[t] = points[t] /\ lost'[t] = lost[t]
    <3>1. CASE UNCHANGED <<points, lost>>
      BY <3>1
    <3>2. CASE RecordPoint(w)
      <4>1. task[w].trip # t
        BY <3>2, <1>1 DEF RecordPoint, Unstored
      <4>2. QED
        BY <3>2, <4>1 DEF RecordPoint, TypeInv, TypeOK
    <3>3. CASE Abort(w)
      <4>1. ~Running(w, {"start", "update"}, "point") \/ task[w].trip # t
        BY <1>1 DEF Unstored
      <4>2. QED
        BY <3>3, <4>1 DEF Abort, TypeInv, TypeOK
    <3>4. QED
      BY <1>1, <3>1, <3>2, <3>3, ReceiveStarts
      DEF Start, TaskStep, CreateRow, CacheTrip, UpdateRow, CompleteRow, DropCache, EmitEvent
  <2>2. Covered(t)' = Covered(t) + IF w \in Unstored(t)' THEN 1 ELSE 0
    BY <1>1, <2>1, OneMoves, CoveredJoins
  <2>3. QED
    BY <1>0, <2>2
<1>2. ASSUME NEW w \in Workers, Step(w), w \in Unstored(t) PROVE Covered(t)' >= Covered(t)
  <2>1. Running(w, {"start", "update"}, "point") /\ task[w].trip = t /\ task[w] # None
    BY <1>2 DEF Unstored, Running
  <2>2. RecordPoint(w) \/ Abort(w)
    BY <1>2, <2>1, ReceiveStarts
    DEF Start, TaskStep, CreateRow, CacheTrip, UpdateRow, CompleteRow, DropCache, EmitEvent, Running
  <2>3. w \notin Unstored(t)'
    <3>1. CASE RecordPoint(w)
      BY <3>1, <2>1, ContinueShape DEF RecordPoint, Unstored, Running
    <3>2. CASE Abort(w)
      BY <3>2, FinishShape DEF Abort, Unstored, Running
    <3>3. QED
      BY <2>2, <3>1, <3>2
  <2>4. points'[t] + lost'[t] = points[t] + lost[t] + 1
    BY <2>1, <2>2, CoveredType DEF RecordPoint, Abort, TypeInv, TypeOK
  <2>5. points'[t] \in Nat /\ lost'[t] \in Nat
    BY DEF TypeInv, TypeOK
  <2>6. QED
    BY <1>0, <1>2, <2>3, <2>4, <2>5, OneMoves, CoveredLeaves
<1>3. CASE ExpireCache \/ Tick \/ UNCHANGED vars
  <2>1. UNCHANGED <<points, lost, task>>
    BY <1>3 DEF ExpireCache, Tick, vars
  <2>2. QED
    BY <1>0, <2>1 DEF Covered, Unstored, Running
<1>4. QED
  BY <1>1, <1>2, <1>3 DEF Next

\* What is known of the trip of an invocation stays true, and each awaited call
\* establishes what the next one needs.
LEMMA RowInvStep ==
    ASSUME TypeInv, TypeInv', RowInv, CachedIsRecorded, [Next]_vars
    PROVE  RowInv'
<1> DEFINE Good(w) ==
      task[w] # None /\ ~Creating(w) =>
        /\ row[task[w].trip] # "ABSENT"
        /\ task[w].op = "update" \/ Running(w, {"start"}, "cache")
              => points[task[w].trip] >= 1
        /\ Running(w, {"end", "timeout"}, "del") => row[task[w].trip] = "COMPLETED"
        /\ Running(w, {"end", "timeout", "close", "declare"}, "emit")
              => row[task[w].trip] = "COMPLETED"
<1>1. ASSUME NEW v \in Workers, task'[v] = task[v] PROVE Good(v)'
  <2>1. Good(v)
    BY DEF RowInv
  <2>2. CASE task[v] # None /\ ~Creating(v)
    <3>1. task[v].trip \in Trips
      BY <2>2, TaskShape
    <3>2. /\ row[task[v].trip] # "ABSENT" => row'[task[v].trip] # "ABSENT"
          /\ row[task[v].trip] = "COMPLETED" => row'[task[v].trip] = "COMPLETED"
          /\ points[task[v].trip] >= 1 => points'[task[v].trip] >= 1
      BY <3>1, RowsAdvance, PointsGrow
    <3>3. QED
      BY <1>1, <2>1, <2>2, <3>2 DEF Running, Creating
  <2>3. CASE task[v] = None \/ Creating(v)
    BY <1>1, <2>3 DEF Running, Creating
  <2>4. QED
    BY <2>2, <2>3
<1>2. ASSUME NEW w \in Workers, Receive(w) PROVE Good(w)'
  <2>1. PICK op, at, t, n :
            /\ Start(w, op, at, t, n)
            /\ op \in {"start", "open"} => at = "row"
            /\ op \notin {"start", "open"} => /\ at \in {"row", "cache"}
                                             /\ row[t] # "ABSENT"
            /\ op = "update" => points[t] >= 1
    BY <1>2
    DEF Receive, Message, BeginTrip, FinishTrip, FollowTrip, OpenTrip, CloseTrip, Endable,
        CachedIsRecorded
  <2>2. task'[w] = [op |-> op, at |-> at, trip |-> t, count |-> n]
        /\ UNCHANGED <<row, points>>
    BY <2>1 DEF Start, TypeInv, TypeOK
  <2>3. QED
    BY <2>1, <2>2 DEF Running, Creating
<1>3. ASSUME NEW w \in Workers, TaskStep(w) PROVE Good(w)'
  <2>0. Good(w)
    BY DEF RowInv
  <2>1. ASSUME NEW t \in Trips, CreateRow(w, t) PROVE Good(w)'
    <3>1. row'[t] = "IN_PROGRESS" /\ task[w] \in Task /\ task[w].op \in {"start", "open"}
      BY <2>1, TaskShape DEF CreateRow, Running, TypeInv, TypeOK
    <3>2. task'[w].trip = t /\ task'[w].op = task[w].op
          /\ task'[w].at = AfterRow(task[w].op)
      BY <2>1, <3>1 DEF CreateRow, Task, TypeInv, TypeOK
    <3>3. QED
      BY <3>1, <3>2 DEF Running, Creating, AfterRow
  <2>2. CASE RecordPoint(w) \/ CacheTrip(w) \/ CompleteRow(w) \/ DropCache(w)
    <3>1. task[w] # None /\ ~Creating(w) /\ task[w].trip \in Trips
      BY <2>2, TaskShape
      DEF RecordPoint, CacheTrip, CompleteRow, DropCache, Running, Creating
    <3>2. row'[task[w].trip] # "ABSENT"
      BY <2>0, <3>1, RowsAdvance
    <3>3. CASE RecordPoint(w)
      <4>1. points'[task[w].trip] >= 1
        BY <3>1, <3>3 DEF RecordPoint, TypeInv, TypeOK
      <4>2. QED
        BY <3>1, <3>2, <3>3, <4>1, ContinueShape DEF RecordPoint, Running
    <3>4. CASE CacheTrip(w)
      <4>1. points'[task[w].trip] >= 1
        BY <2>0, <3>1, <3>4, PointsGrow DEF CacheTrip, Running
      <4>2. QED
        BY <3>1, <3>2, <3>4, <4>1, ContinueShape DEF CacheTrip, Running
    <3>5. CASE CompleteRow(w)
      <4>1. row'[task[w].trip] = "COMPLETED"
        BY <3>1, <3>5 DEF CompleteRow, TypeInv, TypeOK
      <4>2. QED
        BY <3>1, <3>5, <4>1, ContinueShape DEF CompleteRow, Running
    <3>6. CASE DropCache(w)
      <4>1. Running(w, {"end", "timeout"}, "del")
        BY <3>6 DEF DropCache
      <4>2. row[task[w].trip] = "COMPLETED"
        BY <3>1, <4>1 DEF RowInv
      <4>3. row'[task[w].trip] = "COMPLETED"
        BY <3>1, <4>2, RowsAdvance
      <4>4. QED
        BY <3>1, <3>6, <4>1, <4>3, ContinueShape DEF DropCache, Running
    <3>7. QED
      BY <2>2, <3>3, <3>4, <3>5, <3>6
  <2>3. CASE UpdateRow(w) \/ EmitEvent(w)
    BY <2>3, FinishShape DEF UpdateRow, EmitEvent
  <2>4. QED
    BY <1>3, <2>1, <2>2, <2>3 DEF TaskStep
<1>4. ASSUME NEW w \in Workers, Abort(w) PROVE Good(w)'
  BY <1>4, FinishShape DEF Abort
<1>5. ASSUME NEW w \in Workers, Receive(w) \/ TaskStep(w) \/ Abort(w) PROVE RowInv'
  <2>1. ASSUME NEW v \in Workers PROVE Good(v)'
    <3>1. CASE v = w
      BY <1>2, <1>3, <1>4, <1>5, <3>1
    <3>2. CASE v # w
      BY <1>1, <1>5, <3>2, OneMoves
    <3>3. QED
      BY <3>1, <3>2
  <2>2. QED
    BY <2>1 DEF RowInv, Running, Creating
<1>6. CASE ExpireCache \/ Tick \/ UNCHANGED vars
  BY <1>6 DEF ExpireCache, Tick, vars, RowInv, Running, Creating
<1>7. QED
  BY <1>5, <1>6 DEF Next

\* The key is written by an invocation whose trip is recorded.
LEMMA CachedStep ==
    ASSUME TypeInv, RowInv, CachedIsRecorded, [Next]_vars PROVE CachedIsRecorded'
<1>1. CASE UNCHANGED cached
  <2> SUFFICES ASSUME cached # None
               PROVE  row'[cached.trip] # "ABSENT" /\ points'[cached.trip] >= 1
    BY <1>1 DEF CachedIsRecorded
  <2>1. cached.trip \in Trips
    BY DEF TypeInv, TypeOK, ActiveTripState
  <2>2. row[cached.trip] # "ABSENT" /\ points[cached.trip] >= 1
    BY DEF CachedIsRecorded
  <2>3. QED
    BY <2>1, <2>2, RowsAdvance, PointsGrow
<1>2. ASSUME NEW w \in Workers, CacheTrip(w) PROVE CachedIsRecorded'
  <2>1. task[w] # None /\ ~Creating(w)
    BY <1>2 DEF CacheTrip, Running, Creating
  <2>2. row[task[w].trip] # "ABSENT" /\ points[task[w].trip] >= 1
    BY <1>2, <2>1 DEF RowInv, CacheTrip, Running
  <2>3. cached'.trip = task[w].trip /\ UNCHANGED <<row, points>>
    BY <1>2 DEF CacheTrip
  <2>4. QED
    BY <2>2, <2>3 DEF CachedIsRecorded
<1>3. CASE cached' = None
  BY <1>3 DEF CachedIsRecorded
<1>4. QED
  BY <1>1, <1>2, <1>3, ReceiveStarts
  DEF Next, TaskStep, CreateRow, RecordPoint, UpdateRow, CompleteRow, DropCache, Drop,
      EmitEvent, Abort, ExpireCache, Tick, vars

\* An event is emitted after the row holds what it says, and rows do not go back.
LEMMA AnnouncedStep ==
    ASSUME TypeInv, RowInv, AnnouncedIsDone, [Next]_vars PROVE AnnouncedIsDone'
<1> SUFFICES ASSUME NEW t \in Trips
             PROVE  /\ <<"TRIP_STARTED", t>> \in events' => row'[t] # "ABSENT"
                    /\ <<"TRIP_COMPLETED", t>> \in events' => row'[t] = "COMPLETED"
  BY DEF AnnouncedIsDone
<1>1. CASE UNCHANGED events
  BY <1>1, RowsAdvance DEF AnnouncedIsDone
<1>2. ASSUME NEW w \in Workers, EmitEvent(w)
      PROVE  /\ <<"TRIP_STARTED", t>> \in events' => row'[t] # "ABSENT"
             /\ <<"TRIP_COMPLETED", t>> \in events' => row'[t] = "COMPLETED"
  <2>1. task[w] # None /\ ~Creating(w)
    BY <1>2 DEF EmitEvent, Running, Creating
  <2>2. row[task[w].trip] # "ABSENT"
        /\ (task[w].op \in {"end", "timeout", "close", "declare"} => row[task[w].trip] = "COMPLETED")
    BY <1>2, <2>1 DEF RowInv, EmitEvent, Running
  <2>3. task[w].op \in {"start", "open", "end", "timeout", "close", "declare"}
    BY <1>2, <2>1, TaskShape DEF EmitEvent, Stages
  <2>4. events' = events \cup {<<Announced(task[w].op), task[w].trip>>} /\ UNCHANGED row
    BY <1>2 DEF EmitEvent
  <2>5. QED
    BY <2>2, <2>3, <2>4 DEF Announced, AnnouncedIsDone
<1>3. QED
  BY <1>1, <1>2, ReceiveStarts
  DEF Next, TaskStep, CreateRow, RecordPoint, CacheTrip, UpdateRow, CompleteRow, DropCache,
      Abort, ExpireCache, Tick, vars

\* CoveredType in the next state.
LEMMA CoveredTypeNext ==
    ASSUME TypeInv', NEW t \in Trips
    PROVE  Covered(t)' \in Nat
<1>1. IsFiniteSet(Unstored(t)') /\ Cardinality(Unstored(t)') \in Nat
  BY TripAssumption, FS_Subset, FS_CardinalityType DEF Unstored
<1>2. points'[t] \in Nat /\ lost'[t] \in Nat
  BY DEF TypeInv, TypeOK
<1>3. QED
  BY <1>1, <1>2 DEF Covered

\* What an invocation claims to have counted is accounted for.
Claims(w) ==
    task[w] # None =>
        /\ Creating(w) => task[w].count = IF task[w].op = "start" THEN 1 ELSE 0
        /\ ~Creating(w) /\ task[w].op # "declare"
              => task[w].count <= Covered(task[w].trip) + Ahead(w)

\* A new invocation claims what it read, and one sample more if it is an update.
LEMMA ReceiveClaims ==
    ASSUME TypeInv, TypeInv', KnownInv, StatedIsClosed, SamplesCovered, [Next]_vars,
           NEW w \in Workers, Receive(w)
    PROVE  Claims(w)'
<1>1. ASSUME NEW u \in Trips
      PROVE  /\ Covered(u) \in Nat /\ Covered(u)' \in Nat /\ Covered(u)' >= Covered(u)
             /\ samples[u] \in Nat /\ (u \notin stated => samples[u] <= Covered(u))
  BY CoveredType, CoveredTypeNext, CoveredGrows DEF SamplesCovered, Covered
<1>2. cached # None => /\ cached.trip \in Trips /\ cached.count \in Nat
                       /\ cached.count <= Covered(cached.trip)
  BY DEF TypeInv, TypeOK, ActiveTripState, KnownInv
<1>3. PICK op, at, t, n :
          /\ Start(w, op, at, t, n)
          /\ \/ op = "start" /\ at = "row" /\ n = 1
             \/ op = "open" /\ at = "row" /\ n = 0
             \/ op \in {"end", "timeout", "close"} /\ t \in Trips /\ n \in Nat /\ n <= Covered(t)
             \/ op = "declare" /\ at = "row"
             \/ /\ op = "update" /\ at = "cache"
                /\ t \in Trips /\ n \in Nat /\ n <= Covered(t) + 1
  <2>1. ASSUME NEW ping \in Ping, NEW stamp \in Stamps, FollowTrip(w, ping, stamp)
        PROVE  /\ Start(w, "update", "cache", cached.trip, cached.count + 1)
               /\ cached.trip \in Trips /\ cached.count + 1 \in Nat
               /\ cached.count + 1 <= Covered(cached.trip) + 1
    BY <2>1, <1>1, <1>2 DEF FollowTrip
  <2>2. ASSUME NEW ping \in Ping, NEW stamp \in Stamps, FinishTrip(w, ping, stamp)
        PROVE  /\ \E op \in {"end", "timeout"} : Start(w, op, "row", cached.trip, cached.count)
               /\ cached # None
    BY <2>2 DEF FinishTrip
  <2>3. ASSUME NEW ping \in Ping, NEW stamp \in Stamps, BeginTrip(w, ping, stamp)
        PROVE  Start(w, "start", "row", None, 1)
    BY <2>3 DEF BeginTrip
  <2>4. ASSUME NEW u \in Trips, CloseTrip(w, u)
        PROVE  \/ Start(w, "close", "row", u, samples[u]) /\ samples[u] <= Covered(u)
               \/ \E n \in Distances : Start(w, "declare", "row", u, n)
    <3>1. u \notin stated
      BY <2>4 DEF CloseTrip, Endable, StatedIsClosed
    <3>2. QED
      BY <2>4, <3>1, <1>1 DEF CloseTrip
  <2>5. CASE \E u \in Trips : CloseTrip(w, u)
    BY <2>4, <2>5, <1>1
  <2>6. CASE OpenTrip(w)
    BY <2>6 DEF OpenTrip
  <2>7. ASSUME NEW ping \in Ping, NEW stamp \in Stamps, Message(w, ping, stamp)
        PROVE  \/ BeginTrip(w, ping, stamp) \/ FinishTrip(w, ping, stamp)
               \/ FollowTrip(w, ping, stamp)
    BY <2>7 DEF Message
  <2>8. CASE \E ping \in Ping, stamp \in Stamps : Message(w, ping, stamp)
    BY <1>2, <2>1, <2>2, <2>3, <2>7, <2>8
  <2>9. QED
    BY <2>5, <2>6, <2>8 DEF Receive
<1>4. task'[w] = [op |-> op, at |-> at, trip |-> t, count |-> n]
  BY <1>3 DEF Start, TypeInv, TypeOK
<1>5. CASE op \in {"start", "open"}
  BY <1>3, <1>4, <1>5 DEF Claims, Creating, Running
<1>6. CASE op \in {"end", "timeout", "close"}
  <2>1. n <= Covered(t)' + 0
    BY <1>1, <1>3, <1>6
  <2>2. QED
    BY <1>4, <1>6, <2>1 DEF Claims, Creating, Running, Ahead
<1>7. CASE op = "update"
  <2>1. n <= Covered(t)' + 1 /\ at = "cache"
    BY <1>1, <1>3, <1>7
  <2>2. CASE task'[w] # None
    BY <1>4, <1>7, <2>1, <2>2 DEF Claims, Creating, Running, Ahead
  <2>3. QED
    BY <2>2 DEF Claims
<1>8. CASE op = "declare"
  BY <1>3, <1>4, <1>8 DEF Claims, Creating, Running
<1>9. QED
  BY <1>3, <1>5, <1>6, <1>7, <1>8

\* The row of a new trip and its first sample.
LEMMA CreateClaims ==
    ASSUME TypeInv, TypeInv', KnownInv, [Next]_vars,
           NEW w \in Workers, NEW t \in Trips, CreateRow(w, t)
    PROVE  Claims(w)' /\ samples'[t] <= Covered(t)'
<1>1. Creating(w) /\ task[w] # None /\ task[w] \in Task /\ task[w].op \in {"start", "open"}
  BY TaskShape DEF CreateRow, Running, Creating
<1>2. task[w].count = IF task[w].op = "start" THEN 1 ELSE 0
  BY <1>1 DEF KnownInv
<1>3. /\ task'[w].trip = t /\ task'[w].op = task[w].op
      /\ task'[w].at = AfterRow(task[w].op) /\ task'[w].count = task[w].count
  BY <1>1 DEF CreateRow, Task, TypeInv, TypeOK
<1>4. samples'[t] = task[w].count
  BY DEF CreateRow, TypeInv, TypeOK
<1>5. task[w].count <= Covered(t)'
  <2>1. CASE task[w].op = "start" /\ task'[w] # None
    <3>1. w \notin Unstored(t) /\ w \in Unstored(t)'
      BY <1>1, <1>3, <2>1 DEF Unstored, Running, Creating, AfterRow
    <3>2. Covered(t)' = Covered(t) + 1
      BY <3>1, OneMoves, CoveredJoins DEF CreateRow, TaskStep
    <3>3. QED
      BY <1>2, <2>1, <3>2, CoveredType
  <2>2. CASE task[w].op = "open"
    BY <1>2, <2>2, CoveredTypeNext
  <2>3. task'[w] # None
    <3>1. task' = [task EXCEPT ![w].trip = t, ![w].at = AfterRow(task[w].op)]
      BY DEF CreateRow
    <3>2. task'[w] = [task[w] EXCEPT !.trip = t, !.at = AfterRow(task[w].op)]
      BY <3>1 DEF TypeInv, TypeOK
    <3>3. task'[w] \in Task
      BY <1>1, <3>2 DEF Task, AfterRow
    <3>4. QED
      BY <3>3, NoneAssumption
  <2>4. QED
    BY <1>1, <2>1, <2>2, <2>3
<1>6. QED
  BY <1>1, <1>3, <1>4, <1>5, CoveredTypeNext DEF Claims, Creating, Running, Ahead, AfterRow

\* An invocation that goes on claims what it claimed, now that an update has
\* come to its route point.
LEMMA ContinueClaims ==
    ASSUME TypeInv, TypeInv', KnownInv, [Next]_vars, NEW w \in Workers,
           NEW t \in Trips, task[w].trip = t,
           RecordPoint(w) \/ CacheTrip(w) \/ CompleteRow(w) \/ DropCache(w)
    PROVE  Claims(w)' /\ (task[w].op # "declare" => task[w].count <= Covered(t)')
<1>0. CASE task[w].op = "declare"
  <2>1. /\ task[w] # None /\ CompleteRow(w) /\ Continue(w, "emit")
    BY <1>0 DEF RecordPoint, CacheTrip, CompleteRow, DropCache, Running
  <2>2. task'[w].op = "declare"
    BY <1>0, <2>1, ContinueShape
  <2>3. QED
    BY <1>0, <2>2 DEF Claims, Creating, Running
<1> SUFFICES ASSUME task[w].op # "declare"
             PROVE  Claims(w)' /\ task[w].count <= Covered(t)'
  BY <1>0
<1>1. /\ task[w] # None /\ task[w].count \in Nat
      /\ ~Creating(w) /\ TaskStep(w)
  BY TaskShape
  DEF TaskStep, RecordPoint, CacheTrip, CompleteRow, DropCache, Running, Creating
<1>2. /\ Covered(t) \in Nat /\ Covered(t)' \in Nat
      /\ Covered(t)' >= Covered(t)
  BY <1>1, CoveredType, CoveredTypeNext, CoveredGrows
<1>3. task[w].count <= Covered(t) + Ahead(w)
  BY <1>1 DEF KnownInv
<1>4. PICK at \in {"row", "point", "cache", "del", "emit"} :
          Continue(w, at) /\ (task[w].op = "update" => at # "cache")
  BY DEF RecordPoint, CacheTrip, CompleteRow, DropCache, Running
<1>5. /\ task'[w].op = task[w].op /\ task'[w].at = at
      /\ task'[w].trip = t /\ task'[w].count = task[w].count
  BY <1>1, <1>4, ContinueShape
<1>6. task[w].count <= Covered(t)'
  <2>1. CASE Running(w, {"update"}, "cache")
    <3>1. CacheTrip(w)
      BY <2>1 DEF RecordPoint, CompleteRow, DropCache, Running
    <3>2. Continue(w, "point") /\ UNCHANGED <<points, lost>>
      BY <2>1, <3>1 DEF CacheTrip, Running
    <3>3. task'[w] # None
      <4>1. task' \in [Workers -> Task \cup {None}] /\ task[w] \in Task
        BY <1>1, TaskShape DEF TypeInv, TypeOK
      <4>2. task'[w] = [task[w] EXCEPT !.at = "point"]
        BY <1>1, <3>2, ContinueShape
      <4>3. task'[w] \in Task
        BY <4>1, <4>2 DEF Task
      <4>4. QED
        BY <4>3, NoneAssumption
    <3>4. task'[w].at = "point" /\ task'[w].op = "update" /\ task'[w].trip = t
      BY <1>1, <2>1, <3>2, ContinueShape DEF Running
    <3>5. w \notin Unstored(t) /\ w \in Unstored(t)'
      BY <2>1, <3>3, <3>4 DEF Unstored, Running
    <3>6. Covered(t)' = Covered(t) + 1
      BY <1>1, <3>2, <3>5, OneMoves, CoveredJoins
    <3>7. QED
      BY <1>3, <2>1, <3>6 DEF Ahead
  <2>2. CASE ~Running(w, {"update"}, "cache")
    BY <1>1, <1>2, <1>3, <2>2 DEF Ahead
  <2>3. QED
    BY <2>1, <2>2
<1>7. ~Creating(w)'
  BY <1>1, <1>5, TaskShape, ContinueShape
  DEF RecordPoint, CacheTrip, CompleteRow, DropCache, Running, Creating
<1>8. Ahead(w)' = 0
  BY <1>4, <1>5 DEF Ahead, Running
<1>9. (task[w].count <= Covered(task[w].trip) + Ahead(w))'
  BY <1>1, <1>2, <1>5, <1>6, <1>8
<1>10. QED
  BY <1>6, <1>7, <1>9 DEF Claims

\* No store and no invocation claims a sample that is not accounted for.
LEMMA KnownStep ==
    ASSUME TypeInv, TypeInv', KnownInv, StatedIsClosed, SamplesCovered, [Next]_vars
    PROVE  KnownInv' /\ SamplesCovered'
<1>1. ASSUME NEW u \in Trips
      PROVE  /\ Covered(u) \in Nat /\ Covered(u)' \in Nat /\ Covered(u)' >= Covered(u)
             /\ samples[u] \in Nat /\ (u \notin stated => samples[u] <= Covered(u))
  BY CoveredType, CoveredTypeNext, CoveredGrows DEF SamplesCovered, Covered
<1>2. ASSUME NEW v \in Workers, task'[v] = task[v] PROVE Claims(v)'
  <2>1. CASE task[v] # None /\ ~Creating(v) /\ task[v].op # "declare"
    <3>1. PICK t \in Trips : task[v].trip = t
      BY <2>1, TaskShape
    <3>2. /\ task[v].count \in Nat /\ Ahead(v) \in Nat
          /\ task[v].count <= Covered(t) + Ahead(v)
      BY <2>1, <3>1, TaskShape DEF KnownInv, Ahead
    <3>3. task[v].count <= Covered(t)' + Ahead(v)
      BY <1>1, <3>2
    <3>4. Ahead(v)' = Ahead(v) /\ ~Creating(v)'
      BY <1>2, <2>1 DEF Ahead, Running, Creating
    <3>5. QED
      BY <1>2, <3>1, <3>3, <3>4 DEF Claims
  <2>2. CASE task[v] = None \/ (~Creating(v) /\ task[v].op = "declare")
    BY <1>2, <2>2 DEF Claims, Running, Creating
  <2>3. CASE task[v] # None /\ Creating(v)
    BY <1>2, <2>3 DEF KnownInv, Claims, Running, Creating
  <2>4. QED
    BY <2>1, <2>2, <2>3
<1>3. ASSUME NEW w \in Workers, Receive(w) \/ TaskStep(w) \/ Abort(w) PROVE Claims(w)'
  <2>1. CASE \E t \in Trips : CreateRow(w, t)
    BY <2>1, CreateClaims
  <2>2. CASE RecordPoint(w) \/ CacheTrip(w) \/ CompleteRow(w) \/ DropCache(w)
    <3>1. PICK t \in Trips : task[w].trip = t
      BY <2>2, TaskShape
      DEF RecordPoint, CacheTrip, CompleteRow, DropCache, Running, Creating
    <3>2. QED
      BY <2>2, <3>1, ContinueClaims
  <2>3. CASE UpdateRow(w) \/ EmitEvent(w) \/ Abort(w)
    BY <2>3, FinishShape DEF UpdateRow, EmitEvent, Abort, Claims
  <2>4. QED
    BY <1>3, <2>1, <2>2, <2>3, ReceiveClaims DEF TaskStep
<1>4. \A v \in Workers : Claims(v)'
  <2>1. ASSUME NEW w \in Workers, Receive(w) \/ TaskStep(w) \/ Abort(w)
        PROVE  \A v \in Workers : Claims(v)'
    BY <1>2, <1>3, <2>1, OneMoves
  <2>2. CASE ExpireCache \/ Tick \/ UNCHANGED vars
    BY <1>2, <2>2 DEF ExpireCache, Tick, vars
  <2>3. QED
    BY <2>1, <2>2 DEF Next
<1>5. (cached # None => cached.count <= Covered(cached.trip))'
  <2>1. CASE UNCHANGED cached /\ cached # None
    <3>1. PICK t \in Trips : cached.trip = t
      BY <2>1 DEF TypeInv, TypeOK, ActiveTripState
    <3>2. cached.count \in Nat /\ cached.count <= Covered(t)
      BY <2>1, <3>1 DEF TypeInv, TypeOK, ActiveTripState, KnownInv
    <3>3. cached.count <= Covered(t)'
      BY <1>1, <3>2
    <3>4. QED
      BY <2>1, <3>1, <3>3
  <2>2. ASSUME NEW w \in Workers, CacheTrip(w)
        PROVE  (cached.count <= Covered(cached.trip))'
    <3>1. PICK t \in Trips : task[w].trip = t
      BY <2>2, TaskShape DEF CacheTrip, Running, Creating
    <3>2. task[w].count <= Covered(t)'
      BY <2>2, <3>1, ContinueClaims DEF CacheTrip, Running
    <3>3. cached'.count = task[w].count /\ cached'.trip = t
      BY <2>2, <3>1 DEF CacheTrip
    <3>4. QED
      BY <3>2, <3>3
  <2>3. UNCHANGED cached \/ cached' = None \/ \E w \in Workers : CacheTrip(w)
    BY ReceiveStarts
           DEF Next, TaskStep, CreateRow, RecordPoint, UpdateRow, CompleteRow, DropCache, Drop,
           EmitEvent, Abort, ExpireCache, Tick, vars
  <2>4. QED
    BY <2>1, <2>2, <2>3
<1>6. ASSUME NEW t \in Trips, t \notin stated' PROVE samples'[t] <= Covered(t)'
  <2>1. CASE samples'[t] = samples[t] /\ t \notin stated
    BY <1>1, <2>1
  <2>2. ASSUME NEW w \in Workers, CreateRow(w, t) PROVE samples'[t] <= Covered(t)'
    BY <2>2, CreateClaims
  <2>3. ASSUME NEW w \in Workers, UpdateRow(w) \/ CompleteRow(w), task[w].trip = t
        PROVE  samples'[t] <= Covered(t)'
    <3>1. samples'[t] = task[w].count
      BY <2>3 DEF UpdateRow, CompleteRow, SampleRow, TypeInv, TypeOK
    <3>2. /\ task[w] # None /\ ~Creating(w) /\ ~Running(w, {"update"}, "cache")
          /\ task[w].op # "declare"
      BY <1>6, <2>3 DEF UpdateRow, CompleteRow, Running, Creating
    <3>3. task[w].count <= Covered(t) + 0 /\ task[w].count \in Nat
      BY <2>3, <3>2, TaskShape DEF KnownInv, Ahead
    <3>4. QED
      BY <1>1, <3>1, <3>3
  <2>4. \/ samples'[t] = samples[t] /\ t \notin stated
        \/ \E w \in Workers :
              CreateRow(w, t) \/ ((UpdateRow(w) \/ CompleteRow(w)) /\ task[w].trip = t)
    <3>1. \/ UNCHANGED <<samples, stated>>
          \/ \E w \in Workers :
                \/ \E u \in Trips : CreateRow(w, u)
                \/ UpdateRow(w) \/ CompleteRow(w)
      BY ReceiveStarts
      DEF Next, TaskStep, RecordPoint, CacheTrip, DropCache, EmitEvent, Abort, ExpireCache,
          Tick, vars
    <3>2. ASSUME NEW w \in Workers, NEW u \in Trips, CreateRow(w, u), u # t
          PROVE  samples'[t] = samples[t] /\ t \notin stated
      BY <1>6, <3>2 DEF CreateRow, TypeInv, TypeOK
    <3>3. ASSUME NEW w \in Workers, UpdateRow(w) \/ CompleteRow(w), task[w].trip # t
          PROVE  samples'[t] = samples[t] /\ t \notin stated
      BY <1>6, <3>3 DEF UpdateRow, CompleteRow, SampleRow, TypeInv, TypeOK
    <3>4. CASE UNCHANGED <<samples, stated>>
      BY <1>6, <3>4
    <3>5. QED
      BY <3>1, <3>2, <3>3, <3>4
  <2>5. QED
    BY <2>1, <2>2, <2>3, <2>4
<1>7. QED
  BY <1>4, <1>5, <1>6 DEF KnownInv, Claims, SamplesCovered, Covered

\* A stated distance belongs to a trip that its statement closes.
LEMMA StatedStep ==
    ASSUME TypeInv, StatedIsClosed, [Next]_vars PROVE StatedIsClosed'
<1> SUFFICES ASSUME NEW t \in stated' PROVE row'[t] = "COMPLETED"
  BY DEF StatedIsClosed
<1>1. CASE t \in stated
  <2>1. t \in Trips /\ row[t] = "COMPLETED"
    BY <1>1 DEF TypeInv, TypeOK, StatedIsClosed
  <2>2. QED
    BY <2>1, RowsAdvance
<1>2. CASE t \notin stated
  <2>1. PICK w \in Workers : CompleteRow(w) /\ task[w].trip = t
    BY <1>2, ReceiveStarts
    DEF Next, TaskStep, CreateRow, RecordPoint, CacheTrip, UpdateRow, CompleteRow, DropCache,
        EmitEvent, Abort, ExpireCache, Tick, vars
  <2>2. t \in Trips
    BY <2>1, TaskShape DEF CompleteRow, Running, Creating
  <2>3. QED
    BY <2>1, <2>2 DEF CompleteRow, TypeInv, TypeOK
<1>3. QED
  BY <1>1, <1>2

\* Every reachable state satisfies the inductive invariant.
THEOREM Inductive == Spec => []IInv
<1>1. IInv /\ [Next]_vars => IInv'
  <2> SUFFICES ASSUME IInv, [Next]_vars PROVE IInv'
    OBVIOUS
  <2> USE DEF IInv
  <2>1. TypeInv'
    BY TypeStep, ShapeStep DEF TypeInv
  <2>2. RowInv'
    BY <2>1, RowInvStep
  <2>3. CachedIsRecorded' /\ AnnouncedIsDone' /\ StatedIsClosed'
    BY CachedStep, AnnouncedStep, StatedStep
  <2>4. KnownInv' /\ SamplesCovered'
    BY <2>1, KnownStep
  <2>5. QED
    BY <2>1, <2>2, <2>3, <2>4
<1>2. QED
  BY <1>1, InitIInv, PTL DEF Spec

\* CachedIsRecorded: the key in Redis names a trip with a row and a route point.
THEOREM CachedCorrect == Spec => []CachedIsRecorded
<1>1. IInv => CachedIsRecorded
  BY DEF IInv
<1>2. QED
  BY <1>1, Inductive, PTL

\* AnnouncedIsDone: what the topics were told of a trip, its row still says.
THEOREM AnnouncedCorrect == Spec => []AnnouncedIsDone
<1>1. IInv => AnnouncedIsDone
  BY DEF IInv
<1>2. QED
  BY <1>1, Inductive, PTL

\* SamplesCovered: no overlap of invocations, no failed call and no expired key
\* makes a row count a sample twice, and no invocation writes on a distance that a
\* client stated.
THEOREM SamplesCorrect == Spec => []SamplesCovered
<1>1. IInv => SamplesCovered
  BY DEF IInv
<1>2. QED
  BY <1>1, Inductive, PTL

\* CompletedStays: no invocation, however old what it read, reopens a trip.
THEOREM CompletedCorrect == Spec => CompletedStays
<1>1. TypeInv /\ [Next]_vars
          => [\A t \in Trips : row[t] = "COMPLETED" => row'[t] = "COMPLETED"]_vars
  BY RowsAdvance
<1>2. IInv => TypeInv
  BY DEF IInv
<1>3. QED
  BY <1>1, <1>2, Inductive, PTL DEF Spec, CompletedStays

-----------------------------------------------------------------------------
\* The ledger

\* The row of a trip is written with a count for which there is evidence.
LEMMA LedgerWrites ==
    ASSUME TypeInv, IInv', NEW t \in Trips, NEW n, samples' = [samples EXCEPT ![t] = n],
           NEW st, row' = [row EXCEPT ![t] = st], UNCHANGED events
    PROVE  Ledger!Write(t, st)
<1>1. samples'[t] = n
  BY DEF TypeInv, TypeOK
<1>2. TypeInv' /\ SamplesCovered'
  BY DEF IInv
<1>3. samples'[t] \in Nat /\ Covered(t)' \in Nat
  BY <1>2, CoveredTypeNext DEF TypeInv, TypeOK
<1>4. t \in stated' \/ samples'[t] \in 0 .. Covered(t)'
  BY <1>2, <1>3 DEF SamplesCovered
<1>5. QED
  BY <1>1, <1>4 DEF Ledger!Write

\* An awaited call that writes the row or tells of the trip is a step of the ledger.
LEMMA LedgerActs ==
    ASSUME IInv, IInv', NEW w \in Workers, TaskStep(w)
    PROVE  \/ UNCHANGED <<row, samples, stated, events>>
           \/ \E t \in Trips :
                 \/ Ledger!Open(t) \/ Ledger!Update(t) \/ Ledger!Close(t)
                 \/ Ledger!Announce(t, "TRIP_STARTED") \/ Ledger!Announce(t, "TRIP_COMPLETED")
<1>0. TypeInv /\ TypeOK /\ RowInv
  BY DEF IInv, TypeInv
<1>1. ASSUME NEW t \in Trips, CreateRow(w, t) PROVE Ledger!Open(t)
  <2>1. t \notin stated /\ UNCHANGED stated
    BY <1>1 DEF CreateRow, IInv, StatedIsClosed
  <2>2. QED
    BY <1>0, <1>1, <2>1, LedgerWrites
    DEF CreateRow, Ledger!Open, Ledger!Recorded, Ledger!Measure
<1>2. ASSUME task[w] # None, ~Creating(w)
      PROVE  task[w].trip \in Trips /\ Ledger!Recorded(task[w].trip)
  BY <1>0, <1>2, TaskShape DEF RowInv, Ledger!Recorded
<1>3. CASE UpdateRow(w)
  <2>1. task[w].trip \in Trips /\ Ledger!Recorded(task[w].trip)
    BY <1>2, <1>3 DEF UpdateRow, Running, Creating
  <2>2. row' = [row EXCEPT ![task[w].trip] = row[task[w].trip]]
    BY <1>0, <1>3, <2>1 DEF UpdateRow, KeepStatus, TypeOK
  <2>3. Ledger!Write(task[w].trip, row[task[w].trip])
    BY <1>0, <1>3, <2>1, <2>2, LedgerWrites DEF UpdateRow, SampleRow
  <2>4. QED
    BY <1>3, <2>1, <2>3 DEF Ledger!Update, Ledger!Measure, UpdateRow
<1>4. CASE CompleteRow(w)
  <2>1. task[w].trip \in Trips /\ Ledger!Recorded(task[w].trip)
    BY <1>2, <1>4 DEF CompleteRow, Running, Creating
  <2>2. Ledger!Write(task[w].trip, "COMPLETED")
    BY <1>0, <1>4, <2>1, LedgerWrites DEF CompleteRow, SampleRow
  <2>3. QED
    BY <1>4, <2>1, <2>2 DEF Ledger!Close, Ledger!Measure, Ledger!State, CompleteRow
<1>5. CASE EmitEvent(w)
  <2>1. task[w].trip \in Trips /\ Ledger!Recorded(task[w].trip)
    BY <1>2, <1>5 DEF EmitEvent, Running, Creating
  <2>2. task[w].op \in {"start", "open"} \/ row[task[w].trip] = "COMPLETED"
    <3>1. <<task[w].op, "emit">> \in Stages
      BY <1>0, <1>5, TaskShape DEF EmitEvent
    <3>2. task[w].op \in {"start", "open", "end", "timeout", "close", "declare"}
      BY <3>1 DEF Stages
    <3>3. QED
      BY <1>0, <1>5, <3>2 DEF EmitEvent, RowInv, Running, Creating
  <2>3. Ledger!Announce(task[w].trip, Announced(task[w].op))
    BY <1>5, <2>1, <2>2 DEF EmitEvent, Announced, Ledger!Announce
  <2>4. QED
    BY <2>1, <2>3 DEF Announced
<1>6. CASE RecordPoint(w) \/ CacheTrip(w) \/ DropCache(w)
  BY <1>6 DEF RecordPoint, CacheTrip, DropCache
<1>7. QED
  BY <1>1, <1>3, <1>4, <1>5, <1>6 DEF TaskStep

\* The service implements TripLedger, whichever calls overlap or fail: a row is the
\* trip's status and samples, Covered is the evidence there is, and the topics are what is
\* announced.
THEOREM Refinement == Spec => ImplementsLedger
<1>1. Init => Ledger!Init
  <2> SUFFICES ASSUME Init PROVE Ledger!Init
    OBVIOUS
  <2>1. ASSUME NEW t \in Trips PROVE Covered(t) = 0
    <3>1. Unstored(t) = {}
      BY DEF Init, Unstored, Running
    <3>2. QED
      BY <2>1, <3>1, FS_EmptySet DEF Init, Covered
  <2>2. QED
    BY <2>1 DEF Init, Ledger!Init
<1>2. IInv /\ IInv' /\ [Next]_vars => [Ledger!Next]_(Ledger!vars)
  <2> SUFFICES ASSUME IInv, IInv', [Next]_vars PROVE Ledger!Next
    OBVIOUS
  <2>1. Ledger!Gather
    <3>1. TypeInv /\ TypeInv'
      BY DEF IInv
    <3>2. QED
      BY <3>1, CoveredGrows DEF Ledger!Gather
  <2>2. ASSUME NEW w \in Workers, Receive(w) \/ Abort(w) PROVE UNCHANGED <<row, samples, stated, events>>
    BY <2>2, ReceiveStarts DEF Abort
  <2>3. CASE ExpireCache \/ Tick \/ UNCHANGED vars
    BY <2>1, <2>3 DEF ExpireCache, Tick, vars, Ledger!Next
  <2>4. QED
    BY <2>1, <2>2, <2>3, LedgerActs DEF Next, Ledger!Next
<1>3. QED
  BY <1>1, <1>2, Inductive, PTL DEF Spec, ImplementsLedger, Ledger!Spec

-----------------------------------------------------------------------------
\* A replica that nothing disturbs

OneTask == \A w, x \in Workers : task[w] # None /\ task[x] # None => w = x

Live == {t \in Trips : row[t] = "IN_PROGRESS"}

\* The stores between two messages
Settled ==
    /\ Live = IF cached = None THEN {} ELSE {cached.trip}
    /\ \A t \in Trips : samples[t] = points[t]
    /\ cached # None => cached.count = points[cached.trip]

\* How far each store is with the sample of message w, of trip u: the last to learn of
\* it is Redis when the trip starts, the row when it goes on.
InTurn(w, u, n) ==
    /\ task[w].op \in {"start", "update", "end", "timeout"}
    /\ \A t \in Trips : t # u => samples[t] = points[t]
    /\ task[w].op = "start" =>
          /\ cached = IF task[w].at = "emit" THEN [trip |-> u, count |-> n] ELSE None
          /\ Live = IF task[w].at = "row" THEN {} ELSE {u}
          /\ n = 1
          /\ task[w].at = "row" => u = None
          /\ task[w].at # "row" => /\ samples[u] = 1
                                  /\ points[u] = IF task[w].at = "point" THEN 0 ELSE 1
    /\ task[w].op = "update" =>
          /\ Live = {u} /\ samples[u] = n - 1
          /\ cached = [trip |-> u, count |-> IF task[w].at = "cache" THEN n - 1 ELSE n]
          /\ points[u] = IF task[w].at = "row" THEN n ELSE n - 1
    /\ task[w].op \in {"end", "timeout"} =>
          /\ cached = IF task[w].at = "emit" THEN None ELSE [trip |-> u, count |-> n]
          /\ Live = IF task[w].at = "row" THEN {u} ELSE {}
          /\ samples[u] = n /\ points[u] = n

\* The vehicle has moved neither after the last message of its trip nor after the one
\* that is folded in; until the key is written for that one, the key may be older.
Aged ==
    /\ cached # None => stopped >= age \/ \E w \in Workers : Running(w, {"update"}, "cache")
    /\ \A w \in Workers : task[w] # None /\ task[w].op \in {"start", "update"}
                               => stopped >= sent[w]

Fresh == \A t \in Trips : row[t] = "ABSENT" => samples[t] = 0 /\ points[t] = 0

SerialInv ==
    /\ OneTask
    /\ Quiet => Settled
    /\ \A w \in Workers : task[w] # None => InTurn(w, task[w].trip, task[w].count)
    /\ Aged
    /\ Fresh

LEMMA SerialInit == Init => SerialInv
  BY DEF Init, SerialInv, OneTask, Settled, Live, Aged, Fresh

\* The message that is processed is the only one; it goes on, or it has ended.
LEMMA SerialGoesOn ==
    ASSUME NEW w \in Workers, task'[w] # None, OneBusy,
           InTurn(w, task[w].trip, task[w].count)', Aged', Fresh'
    PROVE  SerialInv'
<1>1. OneTask' /\ \A x \in Workers : task'[x] # None => x = w
  BY DEF OneBusy, OneTask
<1>2. ~Quiet'
  BY DEF Quiet
<1>3. QED
  BY <1>1, <1>2 DEF SerialInv

LEMMA SerialEnds ==
    ASSUME TypeInv, OneTask, NEW w \in Workers, task[w] # None, Finish(w),
           Settled', Aged', Fresh'
    PROVE  SerialInv'
<1>1. \A x \in Workers : task'[x] = None
  BY FinishShape DEF OneTask
<1>2. QED
  BY <1>1 DEF SerialInv, OneTask

LEMMA AgedStays ==
    ASSUME OneTask, Aged, NEW w \in Workers, task[w] # None,
           ~Running(w, {"update"}, "cache"), UNCHANGED <<cached, age, stopped, sent>>,
           \A x \in Workers : task'[x] # None => task[x] # None /\ task'[x].op = task[x].op
    PROVE  Aged'
<1>1. \A x \in Workers : ~Running(x, {"update"}, "cache")
  BY DEF OneTask, Quiet, Running
<1>2. QED
  BY <1>1 DEF Aged

\* A message in turn moves the clock of the vehicle's movement to its timestamp at most.
LEMMA MovesInOrder ==
    ASSUME TypeOK, NEW w \in Workers, NEW ping \in Ping, NEW s \in Stamps, InOrder(s),
           Moves(w, ping, s)
    PROVE  /\ sent'[w] = s /\ s \in Int /\ stopped' \in Int /\ stopped' >= s
           /\ \A x \in Workers : x # w => sent'[x] = sent[x]
           /\ cached # None => age >= s
<1>1. s \in Int /\ stopped \in Int /\ age \in Int /\ sent \in [Workers -> Int]
  BY TripAssumption DEF TypeOK
<1>2. s <= stopped /\ (cached # None => s <= age)
  BY DEF InOrder
<1>3. stopped' = stopped \/ stopped' = s
  BY DEF Moves
<1>4. QED
  BY <1>1, <1>2, <1>3 DEF Moves

\* What a message finds that arrives where nothing else is going on
LEMMA SerialReceives ==
    ASSUME TypeInv, SerialInv, OneBusy, NEW w \in Workers,
           NEW ping \in Ping, NEW s \in Stamps, InOrder(s), Message(w, ping, s)
    PROVE  SerialInv'
<1>0. TypeOK
  BY DEF TypeInv
<1>1. PICK op, at, t, n :
          /\ Start(w, op, at, t, n)
          /\ \/ cached = None /\ op = "start" /\ at = "row" /\ t = None /\ n = 1
             \/ /\ cached # None /\ op \in {"end", "timeout"} /\ at = "row" /\ UNCHANGED stopped
                /\ t = cached.trip /\ n = cached.count
             \/ /\ cached # None /\ op = "update" /\ at = "cache"
                /\ t = cached.trip /\ n = cached.count + 1
  <2>1. CASE BeginTrip(w, ping, s)
    BY <2>1 DEF BeginTrip
  <2>2. CASE FinishTrip(w, ping, s)
    <3>1. cached # None /\ UNCHANGED stopped
      BY <2>2 DEF FinishTrip, IdleTimedOut, Moves
    <3>2. \E op \in {"end", "timeout"} : Start(w, op, "row", cached.trip, cached.count)
      BY <2>2 DEF FinishTrip
    <3>3. QED
      BY <3>1, <3>2
  <2>3. CASE FollowTrip(w, ping, s)
    BY <2>3 DEF FollowTrip
  <2>4. QED
    BY <2>1, <2>2, <2>3 DEF Message
<1>2. /\ task'[w] = [op |-> op, at |-> at, trip |-> t, count |-> n]
      /\ task[w] = None /\ \A x \in Workers : x # w => task'[x] = task[x]
      /\ UNCHANGED <<row, samples, points, cached, age>>
  BY <1>0, <1>1 DEF Start, TypeOK
<1>3. /\ task'[w].op = op /\ task'[w].at = at /\ task'[w].trip = t /\ task'[w].count = n
  BY <1>2
<1>4. task'[w] # None
  <2>1. /\ op \in {"start", "update", "end", "timeout"} /\ at \in {"row", "cache"}
        /\ t \in Trips \cup {None} /\ n \in Nat
    BY <1>0, <1>1 DEF TypeOK, ActiveTripState
  <2>2. task'[w] \in Task
    BY <1>2, <2>1 DEF Task
  <2>3. QED
    BY <2>2, NoneAssumption
<1>5. Quiet
  BY <1>2, <1>4 DEF OneBusy, Quiet
<1>6. Settled /\ Aged /\ Fresh /\ OneTask
  BY <1>5 DEF SerialInv
<1>7. Live' = Live
  BY <1>2 DEF Live
<1>8. InTurn(w, t, n)'
  <2>1. CASE op = "start"
    BY <1>1, <1>2, <1>3, <1>6, <1>7, <2>1 DEF InTurn, Settled
  <2>2. ASSUME cached # None
        PROVE  /\ cached = [trip |-> cached.trip, count |-> cached.count]
               /\ cached.trip \in Trips /\ cached.count \in Nat
    BY <1>0, <2>2 DEF TypeOK, ActiveTripState
  <2>3. CASE op \in {"end", "timeout"}
    BY <1>1, <1>2, <1>3, <1>6, <1>7, <2>2, <2>3 DEF InTurn, Settled
  <2>4. CASE op = "update"
    <3>1. n - 1 = cached.count /\ t = cached.trip /\ t \in Trips /\ cached # None
      BY <1>1, <2>2, <2>4
    <3>2. cached = [trip |-> t, count |-> n - 1]
      BY <2>2, <3>1
    <3>3. samples[t] = n - 1 /\ points[t] = n - 1 /\ Live = {t}
      BY <1>6, <3>1 DEF Settled
    <3>4. QED
      BY <1>1, <1>2, <1>3, <1>6, <1>7, <2>4, <3>2, <3>3 DEF InTurn, Settled
  <2>5. QED
    BY <1>1, <2>1, <2>3, <2>4
<1>9. Aged'
  <2>1. sent'[w] = s /\ s \in Int /\ stopped' \in Int /\ stopped' >= s
    BY <1>0, MovesInOrder DEF Message, BeginTrip, FinishTrip, FollowTrip
  <2>2. \A x \in Workers : task'[x] # None => x = w
    BY <1>4 DEF OneBusy
  <2>3. CASE op = "update"
    BY <1>1, <1>3, <1>4, <2>1, <2>2, <2>3 DEF Aged, Running
  <2>4. CASE cached = None
    BY <1>2, <2>1, <2>2, <2>4 DEF Aged
  <2>5. CASE op \in {"end", "timeout"}
    <3>1. cached # None /\ UNCHANGED stopped
      BY <1>1, <2>5
    <3>2. stopped >= age
      BY <1>5, <1>6, <3>1 DEF Aged, Quiet, Running
    <3>3. QED
      BY <1>2, <1>3, <2>2, <2>5, <3>1, <3>2 DEF Aged
  <2>6. QED
    BY <1>1, <2>3, <2>4, <2>5
<1>10. Fresh'
  BY <1>2, <1>6 DEF Fresh
<1>11. QED
  BY <1>3, <1>4, <1>8, <1>9, <1>10, SerialGoesOn

\* What an awaited call finds: the stores as the one before it has left them.
LEMMA SerialFinds ==
    ASSUME TypeInv, SerialInv, NEW w \in Workers, task[w] # None
    PROVE  /\ TypeOK /\ task[w] \in Task /\ <<task[w].op, task[w].at>> \in Stages
           /\ task[w].op \in {"start", "update", "end", "timeout"}
           /\ task[w].at \in {"row", "point", "cache", "del", "emit"}
           /\ task[w].count \in Nat
           /\ ~Creating(w) => task[w].trip \in Trips
           /\ InTurn(w, task[w].trip, task[w].count)
           /\ OneTask /\ Aged /\ Fresh
<1>1. TypeOK /\ InTurn(w, task[w].trip, task[w].count) /\ OneTask /\ Aged /\ Fresh
  BY DEF TypeInv, SerialInv
<1>2. task[w] \in Task /\ <<task[w].op, task[w].at>> \in Stages /\ task[w].count \in Nat
      /\ (~Creating(w) => task[w].trip \in Trips)
  BY TaskShape
<1>3. task[w].at \in {"row", "point", "cache", "del", "emit"}
  BY <1>2 DEF Task
<1>4. QED
  BY <1>1, <1>2, <1>3 DEF InTurn

\* A task that goes on is no None.
LEMMA GoesOn ==
    ASSUME TypeInv, NEW w \in Workers, task[w] # None,
           NEW at \in {"row", "point", "cache", "del", "emit"}, Continue(w, at)
    PROVE  /\ task'[w] # None
           /\ task'[w].op = task[w].op /\ task'[w].at = at
           /\ task'[w].trip = task[w].trip /\ task'[w].count = task[w].count
<1>1. task'[w] = [task[w] EXCEPT !.at = at] /\ task[w] \in Task
  BY ContinueShape, TaskShape
<1>2. task'[w] \in Task
  BY <1>1 DEF Task
<1>3. QED
  BY <1>2, ContinueShape, NoneAssumption

\* The row of a new trip holds the sample it starts with.
LEMMA SerialCreates ==
    ASSUME TypeInv, SerialInv, OneBusy, NEW w \in Workers, NEW t \in Trips, CreateRow(w, t)
    PROVE  SerialInv'
<1>1. /\ TypeOK /\ task[w] \in Task /\ task[w] # None /\ task[w].at = "row"
      /\ task[w].op = "start" /\ InTurn(w, task[w].trip, task[w].count)
      /\ OneTask /\ Aged /\ Fresh
  BY SerialFinds DEF CreateRow, Running
<1>2. /\ cached = None /\ Live = {} /\ task[w].count = 1
      /\ \A x \in Trips : samples[x] = points[x]
  <2>1. task[w].trip = None /\ cached = None /\ Live = {} /\ task[w].count = 1
    BY <1>1 DEF InTurn
  <2>2. QED
    BY <1>1, <2>1, TripAssumption DEF InTurn
<1>3. /\ row[t] = "ABSENT" /\ row' = [row EXCEPT ![t] = "IN_PROGRESS"]
      /\ samples' = [samples EXCEPT ![t] = 1]
      /\ task' = [task EXCEPT ![w].trip = t, ![w].at = "point"]
      /\ UNCHANGED <<points, cached, age, stopped, sent>>
  BY <1>1, <1>2 DEF CreateRow, AfterRow, clock
<1>4. task'[w] = [task[w] EXCEPT !.trip = t, !.at = "point"]
  BY <1>1, <1>3 DEF TypeOK
<1>5. /\ task'[w].op = "start" /\ task'[w].at = "point"
      /\ task'[w].trip = t /\ task'[w].count = 1
  BY <1>1, <1>2, <1>4 DEF Task
<1>6. task'[w] # None
  <2>1. task'[w] \in Task
    BY <1>1, <1>4 DEF Task
  <2>2. QED
    BY <2>1, NoneAssumption
<1>7. Live' = {t}
  BY <1>1, <1>2, <1>3 DEF Live, TypeOK
<1>8. points[t] = 0
  BY <1>1, <1>3 DEF Fresh
<1>9. InTurn(w, t, 1)'
  BY <1>1, <1>2, <1>3, <1>5, <1>7, <1>8 DEF InTurn, TypeOK
<1>10. Aged' /\ Fresh'
  <2>1. \A x \in Workers : task'[x] # None => x = w
    BY <1>6 DEF OneBusy
  <2>2. Aged'
    BY <1>1, <1>2, <1>3, <1>5, <1>6, <2>1 DEF Aged
  <2>3. QED
    BY <1>1, <1>2, <1>3, <2>2 DEF Fresh, TypeOK
<1>11. QED
  BY <1>5, <1>6, <1>9, <1>10, SerialGoesOn

\* The route point of the message
LEMMA SerialRecords ==
    ASSUME TypeInv, SerialInv, OneBusy, NEW w \in Workers, RecordPoint(w)
    PROVE  SerialInv'
<1>1. PICK u \in Trips, n \in Nat : task[w].trip = u /\ task[w].count = n
  BY SerialFinds DEF RecordPoint, Running, Creating
<1>2. /\ TypeOK /\ task[w] # None /\ task[w].at = "point"
      /\ task[w].op \in {"start", "update"} /\ InTurn(w, u, n)
      /\ OneTask /\ Aged /\ Fresh
  BY <1>1, SerialFinds DEF RecordPoint, Running
<1>3. /\ points' = [points EXCEPT ![u] = @ + 1]
      /\ Continue(w, IF task[w].op = "start" THEN "cache" ELSE "row")
      /\ UNCHANGED <<row, samples, cached, age, stopped, sent>>
  BY <1>1 DEF RecordPoint, clock
<1>4. /\ task'[w] # None /\ task'[w].op = task[w].op
      /\ task'[w].at = IF task[w].op = "start" THEN "cache" ELSE "row"
      /\ task'[w].trip = u /\ task'[w].count = n
  BY <1>1, <1>2, <1>3, GoesOn
<1>5. Live' = Live /\ row[u] = "IN_PROGRESS"
  BY <1>2, <1>3 DEF Live, InTurn
<1>6. /\ points'[u] = points[u] + 1
      /\ \A x \in Trips : x # u => points'[x] = points[x]
  BY <1>2, <1>3 DEF TypeOK
<1>7. InTurn(w, u, n)'
  <2>1. \A x \in Trips : x # u => samples'[x] = points'[x]
    BY <1>2, <1>3, <1>6 DEF InTurn
  <2>2. CASE task[w].op = "start"
    <3>1. cached = None /\ Live = {u} /\ n = 1 /\ samples[u] = 1 /\ points[u] = 0
      BY <1>2, <2>2 DEF InTurn
    <3>2. points'[u] = 1
      BY <1>6, <3>1
    <3>3. QED
      BY <1>1, <1>3, <1>4, <1>5, <2>1, <2>2, <3>1, <3>2, TripAssumption DEF InTurn
  <2>3. CASE task[w].op = "update"
    <3>1. /\ cached = [trip |-> u, count |-> n] /\ Live = {u}
          /\ samples[u] = n - 1 /\ points[u] = n - 1
      BY <1>2, <2>3 DEF InTurn
    <3>2. points'[u] = n
      BY <1>2, <1>6, <3>1
    <3>3. QED
      BY <1>3, <1>4, <1>5, <2>1, <2>3, <3>1, <3>2 DEF InTurn
  <2>4. QED
    BY <1>2, <2>2, <2>3
<1>8. Fresh'
  BY <1>2, <1>3, <1>5, <1>6 DEF Fresh
<1>9. Aged'
  <2>1. \A x \in Workers : task'[x] # None => task[x] # None /\ task'[x].op = task[x].op
    BY <1>4, <1>2 DEF OneBusy
  <2>2. QED
    BY <1>2, <1>3, <2>1, AgedStays DEF Running
<1>10. QED
  BY <1>4, <1>7, <1>8, <1>9, SerialGoesOn

\* The key, which is then as old as the message
LEMMA SerialCaches ==
    ASSUME TypeInv, SerialInv, OneBusy, NEW w \in Workers, CacheTrip(w)
    PROVE  SerialInv'
<1>1. PICK u \in Trips, n \in Nat : task[w].trip = u /\ task[w].count = n
  BY SerialFinds DEF CacheTrip, Running, Creating
<1>2. /\ TypeOK /\ task[w] # None /\ task[w].at = "cache"
      /\ task[w].op \in {"start", "update"} /\ InTurn(w, u, n)
      /\ OneTask /\ Aged /\ Fresh
  BY <1>1, SerialFinds DEF CacheTrip, Running
<1>3. /\ cached' = [trip |-> u, count |-> n]
      /\ Continue(w, IF task[w].op = "start" THEN "emit" ELSE "point")
      /\ age' = sent[w]
      /\ UNCHANGED <<row, samples, points, stopped, sent>>
  BY <1>1 DEF CacheTrip, Touch
<1>4. /\ task'[w] # None /\ task'[w].op = task[w].op
      /\ task'[w].at = IF task[w].op = "start" THEN "emit" ELSE "point"
      /\ task'[w].trip = u /\ task'[w].count = n
  BY <1>1, <1>2, <1>3, GoesOn
<1>5. Live' = Live
  BY <1>3 DEF Live
<1>6. InTurn(w, u, n)'
  <2>1. \A x \in Trips : x # u => samples'[x] = points'[x]
    BY <1>2, <1>3 DEF InTurn
  <2>2. CASE task[w].op = "start"
    <3>1. Live = {u} /\ n = 1 /\ samples[u] = 1 /\ points[u] = 1
      BY <1>2, <2>2 DEF InTurn
    <3>2. QED
      BY <1>1, <1>3, <1>4, <1>5, <2>1, <2>2, <3>1, TripAssumption DEF InTurn
  <2>3. CASE task[w].op = "update"
    <3>1. Live = {u} /\ samples[u] = n - 1 /\ points[u] = n - 1
      BY <1>2, <2>3 DEF InTurn
    <3>2. QED
      BY <1>3, <1>4, <1>5, <2>1, <2>3, <3>1 DEF InTurn
  <2>4. QED
    BY <1>2, <2>2, <2>3
<1>7. Aged'
  <2>1. stopped' >= age' /\ stopped' >= sent'[w]
    BY <1>2, <1>3 DEF Aged
  <2>2. \A x \in Workers : task'[x] # None => x = w
    BY <1>4 DEF OneBusy
  <2>3. QED
    BY <2>1, <2>2 DEF Aged
<1>8. Fresh'
  BY <1>2, <1>3 DEF Fresh
<1>9. QED
  BY <1>4, <1>6, <1>7, <1>8, SerialGoesOn

\* The row of the trip, last of all when it goes on
LEMMA SerialUpdates ==
    ASSUME TypeInv, SerialInv, NEW w \in Workers, UpdateRow(w)
    PROVE  SerialInv'
<1>1. PICK u \in Trips, n \in Nat : task[w].trip = u /\ task[w].count = n
  BY SerialFinds DEF UpdateRow, Running, Creating
<1>2. /\ TypeOK /\ task[w] # None /\ task[w].at = "row"
      /\ task[w].op = "update" /\ InTurn(w, u, n)
      /\ OneTask /\ Aged /\ Fresh
  BY <1>1, SerialFinds DEF UpdateRow, Running
<1>3. /\ samples' = [samples EXCEPT ![u] = n] /\ Finish(w)
      /\ UNCHANGED <<row, points, cached, age, stopped, sent>>
  BY <1>1 DEF UpdateRow, SampleRow, KeepStatus, clock
<1>4. cached = [trip |-> u, count |-> n] /\ Live = {u} /\ points[u] = n
  BY <1>2 DEF InTurn
<1>5. /\ samples'[u] = n
      /\ \A x \in Trips : x # u => samples'[x] = samples[x]
  BY <1>2, <1>3 DEF TypeOK
<1>6. Settled'
  <2>1. Live' = {u}
    BY <1>3, <1>4 DEF Live
  <2>2. \A x \in Trips : samples'[x] = points'[x]
    BY <1>2, <1>3, <1>4, <1>5 DEF InTurn
  <2>3. cached # None
    BY <1>2, <1>4, NoneAssumption DEF ActiveTripState
  <2>4. QED
    BY <1>3, <1>4, <2>1, <2>2, <2>3 DEF Settled
<1>7. Fresh'
  BY <1>2, <1>3, <1>4, <1>5 DEF Fresh, Live
<1>8. Aged'
  BY <1>2, <1>3, FinishShape, AgedStays DEF Running
<1>9. QED
  BY <1>2, <1>3, <1>6, <1>7, <1>8, SerialEnds

\* The row of the trip that ends
LEMMA SerialCompletes ==
    ASSUME TypeInv, SerialInv, OneBusy, NEW w \in Workers, CompleteRow(w)
    PROVE  SerialInv'
<1>1. PICK u \in Trips, n \in Nat : task[w].trip = u /\ task[w].count = n
  BY SerialFinds DEF CompleteRow, Running, Creating
<1>2. /\ TypeOK /\ task[w] # None /\ task[w].at = "row"
      /\ task[w].op \in {"end", "timeout"} /\ InTurn(w, u, n)
      /\ OneTask /\ Aged /\ Fresh
  BY <1>1, SerialFinds DEF CompleteRow, Running
<1>3. /\ row' = [row EXCEPT ![u] = "COMPLETED"] /\ samples' = [samples EXCEPT ![u] = n]
      /\ Continue(w, "del") /\ UNCHANGED <<points, cached, age, stopped, sent>>
  BY <1>1, <1>2 DEF CompleteRow, SampleRow, clock
<1>4. /\ task'[w] # None /\ task'[w].op = task[w].op /\ task'[w].at = "del"
      /\ task'[w].trip = u /\ task'[w].count = n
  BY <1>1, <1>2, <1>3, GoesOn
<1>5. /\ cached = [trip |-> u, count |-> n] /\ Live = {u}
      /\ samples[u] = n /\ points[u] = n
  BY <1>2 DEF InTurn
<1>6. samples' = samples
  BY <1>2, <1>3, <1>5 DEF TypeOK
<1>7. Live' = {}
  BY <1>2, <1>3, <1>5 DEF Live, TypeOK
<1>8. InTurn(w, u, n)'
  BY <1>2, <1>3, <1>4, <1>5, <1>6, <1>7 DEF InTurn
<1>9. Fresh'
  BY <1>2, <1>3, <1>6 DEF Fresh, TypeOK
<1>10. Aged'
  <2>1. \A x \in Workers : task'[x] # None => task[x] # None /\ task'[x].op = task[x].op
    BY <1>4, <1>2 DEF OneBusy
  <2>2. QED
    BY <1>2, <1>3, <2>1, AgedStays DEF Running
<1>11. QED
  BY <1>4, <1>8, <1>9, <1>10, SerialGoesOn

\* The key of the trip that ends
LEMMA SerialDrops ==
    ASSUME TypeInv, SerialInv, OneBusy, NEW w \in Workers, DropCache(w)
    PROVE  SerialInv'
<1>1. PICK u \in Trips, n \in Nat : task[w].trip = u /\ task[w].count = n
  BY SerialFinds DEF DropCache, Running, Creating
<1>2. /\ TypeOK /\ task[w] # None /\ task[w].at = "del"
      /\ task[w].op \in {"end", "timeout"} /\ InTurn(w, u, n)
      /\ OneTask /\ Aged /\ Fresh
  BY <1>1, SerialFinds DEF DropCache, Running
<1>3. /\ cached' = None /\ Continue(w, "emit")
      /\ UNCHANGED <<row, samples, points, age, stopped, sent>>
  BY DEF DropCache, Drop, clock
<1>4. /\ task'[w] # None /\ task'[w].op = task[w].op /\ task'[w].at = "emit"
      /\ task'[w].trip = u /\ task'[w].count = n
  BY <1>1, <1>2, <1>3, GoesOn
<1>5. Live' = Live
  BY <1>3 DEF Live
<1>6. InTurn(w, u, n)'
  BY <1>2, <1>3, <1>4, <1>5 DEF InTurn
<1>7. Fresh' /\ Aged'
  <2>1. \A x \in Workers : task'[x] # None => x = w
    BY <1>4 DEF OneBusy
  <2>2. QED
    BY <1>2, <1>3, <1>4, <2>1 DEF Fresh, Aged
<1>8. QED
  BY <1>4, <1>6, <1>7, SerialGoesOn

\* The announcement, after which all is as the next message expects it
LEMMA SerialEmits ==
    ASSUME TypeInv, SerialInv, NEW w \in Workers, EmitEvent(w)
    PROVE  SerialInv'
<1>1. /\ TypeOK /\ task[w] # None /\ task[w].at = "emit"
      /\ <<task[w].op, task[w].at>> \in Stages
      /\ task[w].op \in {"start", "update", "end", "timeout"}
      /\ InTurn(w, task[w].trip, task[w].count) /\ OneTask /\ Aged /\ Fresh
  BY SerialFinds DEF EmitEvent
<1>2. PICK u \in Trips : task[w].trip = u
  BY <1>1, SerialFinds DEF EmitEvent, Creating, Running
<1>3. Finish(w) /\ UNCHANGED <<row, samples, points, cached, age, stopped, sent>>
  BY DEF EmitEvent, clock
<1>4. Live' = Live
  BY <1>3 DEF Live
<1>5. Settled
  <2>1. task[w].op # "update"
    BY <1>1 DEF Stages
  <2>2. CASE task[w].op = "start"
    <3>1. /\ cached = [trip |-> u, count |-> 1] /\ Live = {u}
          /\ samples[u] = 1 /\ points[u] = 1
      BY <1>1, <1>2, <2>2 DEF InTurn
    <3>2. cached # None
      BY <1>1, <3>1, NoneAssumption DEF ActiveTripState
    <3>3. QED
      BY <1>1, <1>2, <3>1, <3>2 DEF InTurn, Settled
  <2>3. CASE task[w].op \in {"end", "timeout"}
    BY <1>1, <1>2, <2>3 DEF InTurn, Settled
  <2>4. QED
    BY <1>1, <2>1, <2>2, <2>3
<1>6. Settled' /\ Fresh'
  BY <1>1, <1>3, <1>4, <1>5 DEF Settled, Fresh
<1>7. Aged'
  BY <1>1, <1>3, FinishShape, AgedStays DEF Running
<1>8. QED
  BY <1>1, <1>3, <1>6, <1>7, SerialEnds

\* Time passes for the key as for the vehicle.
LEMMA SerialTicks ==
    ASSUME TypeInv, SerialInv, Tick
    PROVE  SerialInv'
<1>1. TypeOK /\ OneTask /\ Aged /\ Fresh
  BY DEF TypeInv, SerialInv
<1>2. UNCHANGED <<row, samples, points, cached, task>>
  BY DEF Tick
<1>3. Aged'
  <2>1. \A m, n \in Int : m >= n => Older(m) >= Older(n)
    BY TripAssumption DEF Older
  <2>2. age \in Int /\ stopped \in Int /\ sent \in [Workers -> Int]
    BY <1>1 DEF TypeOK
  <2>3. stopped >= age => stopped' >= age'
    BY <2>1, <2>2 DEF Tick
  <2>4. \A w \in Workers : stopped >= sent[w] => stopped' >= sent'[w]
    BY <2>1, <2>2 DEF Tick
  <2>5. QED
    BY <1>1, <1>2, <2>3, <2>4 DEF Aged, Running
<1>4. QED
  BY <1>1, <1>2, <1>3 DEF SerialInv, OneTask, Quiet, Settled, Live, InTurn, Fresh

LEMMA SerialStep == TypeInv /\ SerialInv /\ Undisturbed => SerialInv'
<1> SUFFICES ASSUME TypeInv, SerialInv, Undisturbed PROVE SerialInv'
  OBVIOUS
<1>1. OneBusy
  BY DEF Undisturbed
<1>2. ASSUME NEW w \in Workers, NEW ping \in Ping, NEW s \in Stamps,
             InOrder(s) /\ Message(w, ping, s)
      PROVE  SerialInv'
  BY <1>1, <1>2, SerialReceives
<1>3. ASSUME NEW w \in Workers, TaskStep(w) PROVE SerialInv'
  BY <1>1, <1>3, SerialCreates, SerialRecords, SerialCaches, SerialUpdates, SerialCompletes,
     SerialDrops, SerialEmits DEF TaskStep
<1>4. QED
  BY <1>2, <1>3, SerialTicks DEF Undisturbed

\* A message arrives where nothing else is going on.
LEMMA Arrives ==
    ASSUME TypeInv, Undisturbed, NEW w \in Workers, task[w] = None, task'[w] # None
    PROVE  Quiet /\ \E ping \in Ping, s \in Stamps : Message(w, ping, s)
<1>1. PICK x \in Workers :
          \/ \E ping \in Ping, s \in Stamps : Message(x, ping, s)
          \/ TaskStep(x)
  BY DEF Undisturbed, Tick
<1>2. \A y \in Workers : y # x => task'[y] = task[y]
  BY <1>1, OneMoves DEF Receive
<1>3. x = w
  BY <1>2
<1>4. Quiet
  BY <1>2, <1>3 DEF Undisturbed, OneBusy, Quiet
<1>5. ~TaskStep(w)
  BY DEF TaskStep, CreateRow, RecordPoint, CacheTrip, UpdateRow, CompleteRow, DropCache,
         EmitEvent, Running
<1>6. QED
  BY <1>1, <1>3, <1>4, <1>5

\* What the message then finds in Redis is not older than the vehicle has stood, and
\* is the trip in progress.
LEMMA SerialArrives ==
    ASSUME TypeInv, SerialInv, Undisturbed
    PROVE  TimeoutIsIdle /\ FollowsLiveTrip
<1>1. ASSUME NEW w \in Workers, task[w] = None, task'[w] # None
      PROVE  /\ task'[w].op = "timeout" => stopped >= IdleTimeout
             /\ task'[w].op = "update" => row[task'[w].trip] = "IN_PROGRESS"
  <2>1. TypeOK /\ Quiet /\ Settled /\ Aged
    BY <1>1, Arrives DEF TypeInv, SerialInv
  <2>2. PICK ping \in Ping, s \in Stamps : Message(w, ping, s)
    BY <1>1, Arrives
  <2>3. CASE BeginTrip(w, ping, s)
    BY <2>1, <2>3 DEF BeginTrip, Start, TypeOK
  <2>4. CASE FinishTrip(w, ping, s)
    <3>1. /\ cached # None
          /\ ping = "off" \/ IdleTimedOut(ping)
          /\ task'[w].op = IF ping = "off" THEN "end" ELSE "timeout"
      BY <2>1, <2>4 DEF FinishTrip, Start, TypeOK
    <3>2. stopped >= age
      BY <2>1, <3>1 DEF Aged, Quiet, Running
    <3>3. age \in Int /\ stopped \in Int
      BY <2>1 DEF TypeOK
    <3>4. QED
      BY <3>1, <3>2, <3>3, TripAssumption DEF IdleTimedOut
  <2>5. CASE FollowTrip(w, ping, s)
    <3>1. /\ cached # None /\ task'[w].op = "update" /\ task'[w].trip = cached.trip
      BY <2>1, <2>5 DEF FollowTrip, Start, TypeOK
    <3>2. cached.trip \in Live
      BY <2>1, <3>1 DEF Settled
    <3>3. QED
      BY <3>1, <3>2 DEF Live
  <2>6. QED
    BY <2>2, <2>3, <2>4, <2>5 DEF Message
<1>2. QED
  BY <1>1 DEF TimeoutIsIdle, FollowsLiveTrip, Quiet

\* AloneAgrees: where messages of the vehicle do not overlap and come in the order of
\* their timestamps, however old, no call fails and nobody ends trips by hand,
\* PostgreSQL, MongoDB and Redis agree after each message, a trip is timed out only
\* when the vehicle stood that long, and a message is folded into the trip in progress.  What the runs find violated is owed to the overlaps
\* and failures alone.
THEOREM AloneCorrect == ServiceSpec => AloneAgrees
<1> DEFINE AloneInv == TypeInv /\ (alone => SerialInv)
<1>1. Init => AloneInv
  BY InitIInv, SerialInit DEF IInv
<1>2. [ServiceNext]_<<vars, alone>> => [Next]_vars /\ alone' = alone
  BY DEF ServiceNext, Undisturbed, Next, Receive
<1>3. AloneInv /\ [ServiceNext]_<<vars, alone>> => AloneInv'
  <2> SUFFICES ASSUME AloneInv, [ServiceNext]_<<vars, alone>> PROVE AloneInv'
    OBVIOUS
  <2>1. TypeInv'
    BY <1>2, TypeStep, ShapeStep DEF TypeInv
  <2>2. CASE alone /\ Undisturbed
    BY <2>1, <2>2, SerialStep
  <2>3. CASE UNCHANGED <<vars, alone>>
    BY <2>1, <2>3
       DEF vars, SerialInv, OneTask, Quiet, Settled, Live, InTurn, Aged, Fresh, Running
  <2>4. QED
    BY <1>2, <2>1, <2>2, <2>3 DEF ServiceNext
<1>4. SerialInv => StoresAgree
  BY DEF SerialInv, Settled, Live, StoresAgree
<1>5. (SerialInv => StoresAgree)'
  BY <1>4, PTL
<1>6. AloneInv /\ AloneInv' /\ [ServiceNext]_<<vars, alone>> =>
        [alone => StoresAgree' /\ TimeoutIsIdle /\ FollowsLiveTrip]_vars
  BY <1>2, <1>5, SerialArrives DEF ServiceNext
<1> HIDE DEF AloneInv
<1>7. QED
  BY <1>1, <1>3, <1>6, PTL DEF ServiceSpec, AloneAgrees
=============================================================================
