--------------------------- MODULE LocationProofs ---------------------------
(***************************************************************************)
(* Theorems about LocationTracking, for every set of messages and fences   *)
(* and every set of replicas; and, in the last part, about the geometry of *)
(* the fences, which LocationTracking leaves open.                         *)
(***************************************************************************)
EXTENDS LocationTracking, FiniteSetTheorems, TLAPS

Stages == {"store", "cache", "fences", "get", "flag", "cross", "announce", "fill"}

\* A message is on its topic, and once past the first statement its point is in
\* MongoDB; the fence whose flag was read is known until the crossing is told.
TaskInv ==
    \A w \in Workers : task[w] # None =>
        /\ task[w].at = "store" => \E i \in DOMAIN inbox : inbox[i] = task[w].pos
        /\ task[w].at # "store" => task[w].pos \in points
        /\ task[w].at \in {"flag", "cross"} => task[w].on \in Fences

IInv == TypeOK /\ TaskInv /\ LocationIsStored

Alone(w) == \A x \in Workers \ {w} : task'[x] = task[x]

LEMMA TaskType ==
    ASSUME TypeOK, NEW w \in Workers, task[w] # None
    PROVE  task[w] \in Task
  BY DEF TypeOK

LEMMA ContinueShape ==
    ASSUME TypeOK, NEW w \in Workers, task[w] # None, NEW at \in Stages, Continue(w, at)
    PROVE  /\ task' \in [Workers -> Task \cup {None}] /\ task'[w] # None
           /\ task'[w].at = at /\ task'[w].pos = task[w].pos /\ task'[w].on = task[w].on
           /\ Alone(w)
<1>1. task[w] \in Task /\ task \in [Workers -> Task \cup {None}]
  BY TaskType DEF TypeOK
<1>2. task'[w] = [task[w] EXCEPT !.at = at] /\ Alone(w)
  BY <1>1 DEF Continue, Alone
<1>3. [task[w] EXCEPT !.at = at] \in Task
  BY <1>1 DEF Task, Stages
<1>4. task' \in [Workers -> Task \cup {None}]
  BY <1>1, <1>3 DEF Continue
<1>5. QED
  BY <1>1, <1>2, <1>3, <1>4, NoneAssumption DEF Task

LEMMA FinishShape ==
    ASSUME TypeOK, NEW w \in Workers, Finish(w)
    PROVE  task' \in [Workers -> Task \cup {None}] /\ task'[w] = None /\ Alone(w)
  BY DEF TypeOK, Finish, Alone

LEMMA LookAtShape ==
    ASSUME TypeOK, NEW w \in Workers, task[w] # None, NEW left \in SUBSET Fences,
           LookAt(w, left)
    PROVE  /\ task' \in [Workers -> Task \cup {None}]
           /\ task'[w].at \in {"get", "announce"} /\ task'[w].pos = task[w].pos
           /\ Alone(w)
<1> DEFINE at == IF left = {} THEN "announce" ELSE "get"
           t == [task[w] EXCEPT !.left = left, !.on = None, !.at = at]
<1>1. task[w] \in Task /\ task \in [Workers -> Task \cup {None}]
  BY TaskType DEF TypeOK
<1>2. at \in {"get", "announce"}
  OBVIOUS
<1>3. task' = [task EXCEPT ![w] = t]
  BY <1>1 DEF LookAt
<1>4. t \in Task /\ t.at = at /\ t.pos = task[w].pos
  <2> HIDE DEF at
  <2>1. QED
    BY <1>1, <1>2 DEF Task
<1>5. QED
  <2> HIDE DEF at, t
  <2>1. QED
    BY <1>1, <1>2, <1>3, <1>4 DEF Alone
-----------------------------------------------------------------------------
\* The inductive invariant, with and without failures

LEMMA InvInit == Init => IInv
<1> SUFFICES ASSUME Init PROVE IInv
  OBVIOUS
<1>1. inbox \in Seq(Messages) /\ crossings \in [Fences -> Seq({"ENTERED", "EXITED"})]
  BY DEF Init
<1>2. TypeOK
  BY <1>1 DEF Init, DeliveryInit, TypeOK, FenceState
<1>3. TaskInv /\ LocationIsStored
  BY DEF Init, DeliveryInit, TaskInv, LocationIsStored
<1>4. QED
  BY <1>2, <1>3 DEF IInv

\* Nothing that is stored or sent is ever taken back.
Grows ==
    /\ points \subseteq points'
    /\ \A i \in DOMAIN inbox : i \in DOMAIN inbox' /\ inbox'[i] = inbox[i]

\* What the other replicas rely on stays.
LEMMA OthersKeep ==
    ASSUME IInv, Grows, NEW w \in Workers, Alone(w),
           task'[w] # None =>
               /\ task'[w].at = "store" => \E i \in DOMAIN inbox' : inbox'[i] = task'[w].pos
               /\ task'[w].at # "store" => task'[w].pos \in points'
               /\ task'[w].at \in {"flag", "cross"} => task'[w].on \in Fences
    PROVE  TaskInv'
  BY DEF IInv, TaskInv, Grows, Alone

LEMMA HandleStep ==
    ASSUME IInv, NEW w \in Workers, Handle(w)
    PROVE  IInv'
<1> USE LocationAssumption DEF IInv
<1>1. ASSUME NEW i \in DOMAIN inbox, Receive(w, i) PROVE IInv'
  <2> DEFINE t == [at |-> "store", msg |-> i, pos |-> inbox[i], left |-> {}, on |-> None]
  <2>1. t \in Task /\ t.at = "store" /\ t.pos = inbox[i]
    BY DEF TypeOK, Task
  <2>2. task' = [task EXCEPT ![w] = t] /\ taken' = taken \cup {i}
        /\ UNCHANGED <<inbox, again, store, crossings, updated>>
    BY <1>1 DEF Receive, Deliver
  <2> HIDE DEF t
  <2>3. TypeOK'
    BY <2>1, <2>2 DEF TypeOK, store
  <2>4. TaskInv'
    BY <2>1, <2>2, OthersKeep DEF Grows, store, Alone, TypeOK
  <2>5. QED
    BY <2>2, <2>3, <2>4 DEF LocationIsStored, store
<1>2. ASSUME StorePoint(w) PROVE IInv'
  <2>1. task[w].pos \in Messages /\ \E i \in DOMAIN inbox : inbox[i] = task[w].pos
    BY <1>2, TaskType DEF StorePoint, Running, TaskInv, Task
  <2>2. /\ task' \in [Workers -> Task \cup {None}] /\ Alone(w)
        /\ task'[w].at = "cache" /\ task'[w].pos = task[w].pos
    BY <1>2, ContinueShape DEF StorePoint, Running, Stages
  <2>3. TypeOK'
    BY <1>2, <2>1, <2>2 DEF StorePoint, TypeOK
  <2>4. TaskInv'
    BY <1>2, <2>1, <2>2, OthersKeep DEF StorePoint, Grows
  <2>5. LocationIsStored'
    BY <1>2, <2>1 DEF StorePoint, LocationIsStored
  <2>6. QED
    BY <2>3, <2>4, <2>5
<1>3. ASSUME CacheLocation(w) PROVE IInv'
  <2>1. task[w].pos \in points
    BY <1>3 DEF CacheLocation, Running, TaskInv
  <2>2. PICK at \in {"fences", "announce"} : Continue(w, at)
    BY <1>3 DEF CacheLocation
  <2>3. /\ task' \in [Workers -> Task \cup {None}] /\ Alone(w)
        /\ task'[w].at = at /\ task'[w].pos = task[w].pos
    BY <1>3, <2>2, ContinueShape DEF CacheLocation, Running, Stages
  <2>4. TypeOK'
    BY <1>3, <2>1, <2>3 DEF CacheLocation, TypeOK
  <2>5. TaskInv'
    BY <1>3, <2>1, <2>3, OthersKeep DEF CacheLocation, Grows
  <2>6. QED
    BY <1>3, <2>1, <2>4, <2>5 DEF CacheLocation, LocationIsStored
<1>4. ASSUME ReadFences(w) PROVE IInv'
  <2>1. task[w] # None /\ task[w].pos \in points
    BY <1>4 DEF ReadFences, Running, TaskInv
  <2>2. /\ task' \in [Workers -> Task \cup {None}] /\ Alone(w)
        /\ task'[w].at \in {"get", "announce"} /\ task'[w].pos = task[w].pos
    BY <1>4, <2>1, LookAtShape DEF ReadFences
  <2>3. TypeOK'
    BY <1>4, <2>2 DEF ReadFences, TypeOK, store
  <2>4. TaskInv'
    BY <1>4, <2>1, <2>2, OthersKeep DEF ReadFences, Grows, store
  <2>5. QED
    BY <1>4, <2>3, <2>4 DEF ReadFences, LocationIsStored, store
<1>5. ASSUME NEW f \in Fences, ReadFlag(w, f) PROVE IInv'
  <2>1. task[w] # None /\ task[w].pos \in points /\ task[w].left \ {f} \in SUBSET Fences
    BY <1>5, TaskType DEF ReadFlag, Running, TaskInv, Task
  <2>2. /\ task' \in [Workers -> Task \cup {None}] /\ Alone(w)
        /\ task'[w].at # "store" /\ task'[w].pos = task[w].pos
        /\ task'[w].at \in {"flag", "cross"} => task'[w].on \in Fences
    <3>1. CASE Crossed(w, f)
      <4>1. task[w] \in Task
        BY <2>1, TaskType
      <4>2. [task[w] EXCEPT !.at = "flag", !.on = f] \in Task
        BY <4>1 DEF Task
      <4>3. task' = [task EXCEPT ![w] = [task[w] EXCEPT !.at = "flag", !.on = f]]
        BY <1>5, <3>1 DEF ReadFlag, TypeOK
      <4>4. QED
        BY <4>1, <4>2, <4>3 DEF TypeOK, Alone, Task
    <3>2. CASE ~Crossed(w, f)
      BY <1>5, <2>1, <3>2, LookAtShape DEF ReadFlag
    <3>3. QED
      BY <3>1, <3>2
  <2>3. TypeOK'
    BY <1>5, <2>2 DEF ReadFlag, TypeOK, store
  <2>4. TaskInv'
    BY <1>5, <2>1, <2>2, OthersKeep DEF ReadFlag, Grows, store
  <2>5. QED
    BY <1>5, <2>3, <2>4 DEF ReadFlag, LocationIsStored, store
<1>6. ASSUME WriteFlag(w) PROVE IInv'
  <2>1. task[w] # None /\ task[w].pos \in points /\ task[w].on \in Fences
    BY <1>6 DEF WriteFlag, Running, TaskInv
  <2>2. /\ task' \in [Workers -> Task \cup {None}] /\ Alone(w)
        /\ task'[w].at = "cross" /\ task'[w].pos = task[w].pos /\ task'[w].on = task[w].on
    BY <1>6, <2>1, ContinueShape DEF WriteFlag, Stages
  <2>3. TypeOK'
    BY <1>6, <2>1, <2>2 DEF WriteFlag, TypeOK
  <2>4. TaskInv'
    BY <1>6, <2>1, <2>2, OthersKeep DEF WriteFlag, Grows
  <2>5. QED
    BY <1>6, <2>3, <2>4 DEF WriteFlag, LocationIsStored
<1>7. ASSUME EmitCrossing(w) PROVE IInv'
  <2>1. /\ task[w] # None /\ task[w].pos \in points /\ task[w].on \in Fences
        /\ task[w].left \ {task[w].on} \in SUBSET Fences
    BY <1>7, TaskType DEF EmitCrossing, Running, TaskInv, Task
  <2>2. /\ task' \in [Workers -> Task \cup {None}] /\ Alone(w)
        /\ task'[w].at \in {"get", "announce"} /\ task'[w].pos = task[w].pos
    BY <1>7, <2>1, LookAtShape DEF EmitCrossing
  <2>3. crossings' \in [Fences -> Seq({"ENTERED", "EXITED"})]
    BY <1>7, <2>1 DEF EmitCrossing, TypeOK
  <2>4. TypeOK'
    BY <1>7, <2>2, <2>3 DEF EmitCrossing, TypeOK, store
  <2>5. TaskInv'
    BY <1>7, <2>1, <2>2, OthersKeep DEF EmitCrossing, Grows, store
  <2>6. QED
    BY <1>7, <2>4, <2>5 DEF EmitCrossing, LocationIsStored, store
<1>8. ASSUME AnnounceLocation(w) PROVE IInv'
  <2>1. task[w].pos \in points
    BY <1>8 DEF AnnounceLocation, Running, TaskInv
  <2>2. task' \in [Workers -> Task \cup {None}] /\ task'[w] = None /\ Alone(w)
    BY <1>8, FinishShape DEF AnnounceLocation
  <2>3. TypeOK'
    BY <1>8, <2>1, <2>2 DEF AnnounceLocation, TypeOK, store
  <2>4. TaskInv'
    BY <1>8, <2>2, OthersKeep DEF AnnounceLocation, Grows, store
  <2>5. QED
    BY <1>8, <2>1, <2>3, <2>4 DEF AnnounceLocation, LocationIsStored, store
<1>9. QED
  BY <1>1, <1>2, <1>3, <1>4, <1>5, <1>6, <1>7, <1>8 DEF Handle

LEMMA ServeStep ==
    ASSUME IInv, NEW w \in Workers, Serve(w)
    PROVE  IInv'
<1> USE LocationAssumption DEF IInv
<1>1. ASSUME StartLatest(w) PROVE IInv'
  <2>1. PICK m \in points :
           Call(w, [at |-> "fill", msg |-> 0, pos |-> m, left |-> {}, on |-> None])
    BY <1>1 DEF StartLatest
  <2> DEFINE t == [at |-> "fill", msg |-> 0, pos |-> m, left |-> {}, on |-> None]
  <2>2. t \in Task /\ t.at = "fill" /\ t.pos \in points
    BY DEF TypeOK, Task
  <2>3. task' = [task EXCEPT ![w] = t] /\ UNCHANGED <<taken, again>>
        /\ UNCHANGED <<inbox, store, crossings, updated>>
    BY <1>1, <2>1 DEF StartLatest, Call
  <2> HIDE DEF t
  <2>4. TypeOK'
    BY <2>2, <2>3 DEF TypeOK, store
  <2>5. TaskInv'
    BY <2>2, <2>3, OthersKeep DEF Grows, store, Alone, TypeOK
  <2>6. QED
    BY <2>3, <2>4, <2>5 DEF LocationIsStored, store
<1>2. ASSUME FillLatest(w) PROVE IInv'
  <2>1. task[w].pos \in points
    BY <1>2 DEF FillLatest, Running, TaskInv
  <2>2. task' \in [Workers -> Task \cup {None}] /\ task'[w] = None /\ Alone(w)
    BY <1>2, FinishShape DEF FillLatest
  <2>3. TypeOK'
    BY <1>2, <2>1, <2>2 DEF FillLatest, TypeOK
  <2>4. TaskInv'
    BY <1>2, <2>2, OthersKeep DEF FillLatest, Grows
  <2>5. QED
    BY <1>2, <2>1, <2>3, <2>4 DEF FillLatest, LocationIsStored
<1>3. QED
  BY <1>1, <1>2 DEF Serve

LEMMA FailStep ==
    ASSUME IInv, NEW w \in Workers, Fail(w)
    PROVE  IInv'
<1> USE DEF IInv
<1>1. Finish(w) /\ UNCHANGED <<inbox, store, crossings, updated, taken, again>>
  BY DEF Fail, Reject
<1>2. task' \in [Workers -> Task \cup {None}] /\ task'[w] = None /\ Alone(w)
  BY <1>1, FinishShape
<1>3. TypeOK'
  BY <1>1, <1>2 DEF TypeOK, store
<1>4. TaskInv'
  BY <1>1, <1>2, OthersKeep DEF Grows, store
<1>5. QED
  BY <1>1, <1>3, <1>4 DEF LocationIsStored, store

\* What is delivered once more is still on its topic.
LEMMA RecommitStep ==
    ASSUME IInv, NEW i \in taken, Recommit(i)
    PROVE  IInv'
  BY DEF Recommit, Redeliver, IInv, TypeOK, TaskInv, LocationIsStored, store

LEMMA InvStep == IInv /\ [Next]_vars => IInv'
<1> SUFFICES ASSUME IInv, [Next]_vars PROVE IInv'
  OBVIOUS
<1> USE DEF IInv
<1>1. ASSUME NEW f \in Fences, NEW st \in FenceState \ {"NEW"}, SetFence(f, st) PROVE IInv'
  BY <1>1 DEF SetFence, delivery, TypeOK, TaskInv, LocationIsStored
<1>2. ASSUME ExpireLocation PROVE IInv'
  BY <1>2 DEF ExpireLocation, delivery, TypeOK, TaskInv, LocationIsStored
<1>3. ASSUME NEW f \in Fences, ExpireFlag(f) PROVE IInv'
  BY <1>3 DEF ExpireFlag, delivery, TypeOK, TaskInv, LocationIsStored
<1>4. ASSUME NEW m \in Messages, Arrive(m) PROVE IInv'
  <2>1. inbox' \in Seq(Messages) /\ inbox' = Append(inbox, m)
        /\ UNCHANGED <<delivery, store, crossings, updated>>
    BY <1>4 DEF Arrive, TypeOK
  <2>2. \A i \in DOMAIN inbox : i \in DOMAIN inbox' /\ inbox'[i] = inbox[i]
    BY <1>4 DEF Arrive, TypeOK
  <2>3. TypeOK'
    BY <2>1, <2>2 DEF TypeOK, delivery, store
  <2>4. TaskInv'
    BY <2>1, <2>2 DEF TaskInv, delivery, store
  <2>5. LocationIsStored'
    BY <2>1, <2>2 DEF LocationIsStored, delivery, store
  <2>6. QED
    BY <2>3, <2>4, <2>5
<1>5. CASE UNCHANGED vars
  BY <1>5 DEF vars, delivery, store, TypeOK, TaskInv, LocationIsStored
<1>6. QED
  BY <1>1, <1>2, <1>3, <1>4, <1>5, HandleStep, ServeStep, FailStep, RecommitStep
     DEF Next, Own, Manage, Lapse

\* The types of the location service, whatever overlaps, fails or expires.
THEOREM TypeCorrect == Spec => []TypeOK
<1>1. IInv => TypeOK
  BY DEF IInv
<1>2. QED
  BY InvInit, InvStep, <1>1, PTL DEF Spec

\* However many replicas handle messages, and whatever fails, is redelivered or
\* expires: a location that Redis or vis.location.updated tells is in MongoDB, and
\* every point there was on vis.telemetry.processed.
THEOREM StoredCorrect == Spec => []LocationIsStored
<1>1. IInv => LocationIsStored
  BY DEF IInv
<1>2. QED
  BY InvInit, InvStep, <1>1, PTL DEF Spec
-----------------------------------------------------------------------------
\* One call at a time and no failures: the crossings alternate between expiries

OthersIdle(w) == \A x \in Workers \ {w} : task[x] = None

\* A step of w is a step of no other.
LEMMA StepsApart ==
    ASSUME TypeOK, NEW w \in Workers, Handle(w) \/ Serve(w)
    PROVE  Alone(w)
  BY DEF TypeOK, Alone, Handle, Serve, Receive, Deliver, StorePoint, CacheLocation, ReadFences,
         ReadFlag, WriteFlag, EmitCrossing, AnnounceLocation, StartLatest, FillLatest, LookAt,
         Call, Continue, Finish

\* Where the message under way stands with the fence it is looking at: an entry was
\* not told, or was forgotten; an exit follows an entry, also one forgotten since.
Due(w) ==
    IF Inside(w, task[w].on)
    THEN Crossing!Entered(task[w].on) => task[w].on \in lapsed
    ELSE Crossing!Entered(task[w].on)

CrossInv(w) ==
    /\ Running(w, "flag") => (Inside(w, task[w].on) => task[w].on \notin flag) /\ Due(w)
    /\ Running(w, "cross") => (Inside(w, task[w].on) <=> task[w].on \in flag) /\ Due(w)

SteadyInv(w) == IInv /\ CrossInv(w) /\ FlagIsTold

LEMMA SteadyInit == ASSUME NEW w \in Workers PROVE Init => SteadyInv(w)
<1> SUFFICES ASSUME Init PROVE SteadyInv(w)
  OBVIOUS
<1>1. task[w] = None
  BY DEF Init, DeliveryInit
<1>2. CrossInv(w)
  BY <1>1 DEF CrossInv, Running
<1>3. \A f \in Fences : ~Crossing!Entered(f)
  BY DEF Init, Crossing!Entered
<1>4. FlagIsTold
  BY <1>3 DEF FlagIsTold, Init
<1>5. QED
  BY InvInit, <1>2, <1>4 DEF SteadyInv

\* What was told last
LEMMA ToldLast ==
    ASSUME NEW s \in Seq({"ENTERED", "EXITED"}), NEW e \in {"ENTERED", "EXITED"}
    PROVE  /\ Append(s, e) # <<>>
           /\ Append(s, e)[Len(Append(s, e))] = e
  OBVIOUS

\* A step between two crossings
LEMMA BetweenStep ==
    ASSUME NEW w \in Workers, OthersIdle(w), SteadyInv(w), ~Running(w, "cross"),
           UNCHANGED <<flag, lapsed, crossings>>,
           ~Running(w, "cross")',
           Running(w, "flag")' => (Crossed(w, task[w].on)' /\ task'[w].on \in Fences)
    PROVE  CrossInv(w)' /\ FlagIsTold'
<1>1. \A x \in Workers : ~Running(x, "cross")
  BY DEF OthersIdle, Running
<1>2. \A f \in Fences : f \in flag <=> Crossing!Entered(f) /\ f \notin lapsed
  BY <1>1 DEF SteadyInv, FlagIsTold
<1>3. \A f : Crossing!Entered(f)' <=> Crossing!Entered(f)
  BY DEF Crossing!Entered
<1>4. FlagIsTold'
  BY <1>2, <1>3 DEF FlagIsTold
<1>5. ASSUME Running(w, "flag")'
      PROVE  (Inside(w, task[w].on)' => task'[w].on \notin flag') /\ Due(w)'
  <2>1. PICK f \in Fences : f = task'[w].on
    BY <1>5
  <2>2. Inside(w, task[w].on)' <=> ~(f \in flag)
    BY <1>5, <2>1 DEF Crossed, Inside
  <2>3. Crossing!Entered(task[w].on)' <=> Crossing!Entered(f)
    BY <2>1 DEF Crossing!Entered
  <2>4. QED
    BY <1>2, <2>1, <2>2, <2>3 DEF Due
<1>6. QED
  BY <1>4, <1>5 DEF CrossInv

LEMMA CrossingStep ==
    ASSUME NEW w \in Workers, OthersIdle(w), SteadyInv(w), Handle(w)
    PROVE  CrossInv(w)' /\ FlagIsTold' /\ [Crossing!Next]_<<crossings, lapsed>>
<1> USE LocationAssumption DEF SteadyInv
<1>0. TypeOK /\ TaskInv /\ \A x \in Workers \ {w} : ~Running(x, "cross")
  BY DEF IInv, OthersIdle, Running
<1>1. ASSUME NEW i \in DOMAIN inbox, Receive(w, i)
      PROVE  CrossInv(w)' /\ FlagIsTold' /\ UNCHANGED <<crossings, lapsed>>
  BY <1>0, <1>1, BetweenStep DEF Receive, Deliver, store, Running, TypeOK
<1>2. ASSUME StorePoint(w) \/ CacheLocation(w)
      PROVE  CrossInv(w)' /\ FlagIsTold' /\ UNCHANGED <<crossings, lapsed>>
  <2>1. PICK at \in {"cache", "fences", "announce"} : Continue(w, at)
    BY <1>2 DEF StorePoint, CacheLocation
  <2>2. task[w] # None /\ task[w].at \in {"store", "cache"}
    BY <1>2 DEF StorePoint, CacheLocation, Running
  <2>3. task'[w].at = at
    BY <1>0, <2>1, <2>2, ContinueShape DEF Stages
  <2>4. UNCHANGED <<flag, lapsed, crossings>>
    BY <1>2 DEF StorePoint, CacheLocation
  <2>5. ~Running(w, "cross") /\ ~Running(w, "cross")' /\ ~Running(w, "flag")'
    BY <2>2, <2>3 DEF Running
  <2>6. QED
    BY <2>4, <2>5, BetweenStep
<1>3. ASSUME ReadFences(w) PROVE CrossInv(w)' /\ FlagIsTold' /\ UNCHANGED <<crossings, lapsed>>
  <2>1. task'[w].at \in {"get", "announce"}
    BY <1>0, <1>3, LookAtShape DEF ReadFences, Running
  <2>2. ~Running(w, "cross") /\ ~Running(w, "cross")' /\ ~Running(w, "flag")'
    BY <1>3, <2>1 DEF ReadFences, Running
  <2>3. QED
    BY <1>3, <2>2, BetweenStep DEF ReadFences, store
<1>4. ASSUME NEW f \in Fences, ReadFlag(w, f)
      PROVE  CrossInv(w)' /\ FlagIsTold' /\ UNCHANGED <<crossings, lapsed>>
  <2>1. task[w] # None /\ task[w] \in Task /\ task[w].left \ {f} \in SUBSET Fences
    BY <1>0, <1>4, TaskType DEF ReadFlag, Running, Task
  <2>2. UNCHANGED <<flag, lapsed, crossings>> /\ ~Running(w, "cross")
    BY <1>4 DEF ReadFlag, Running, store
  <2>3. CASE Crossed(w, f)
    <3>1. task'[w] = [task[w] EXCEPT !.at = "flag", !.on = f]
      BY <1>0, <1>4, <2>3 DEF ReadFlag, TypeOK
    <3>2. task'[w].at = "flag" /\ task'[w].on = f /\ task'[w].pos = task[w].pos
      BY <2>1, <3>1 DEF Task
    <3>3. Crossed(w, task[w].on)' /\ ~Running(w, "cross")'
      BY <2>2, <2>3, <3>2 DEF Crossed, Inside, Running
    <3>4. QED
      BY <2>2, <3>2, <3>3, BetweenStep
  <2>4. CASE ~Crossed(w, f)
    <3>1. task'[w].at \in {"get", "announce"}
      BY <1>0, <1>4, <2>1, <2>4, LookAtShape DEF ReadFlag
    <3>2. ~Running(w, "cross")' /\ ~Running(w, "flag")'
      BY <3>1 DEF Running
    <3>3. QED
      BY <2>2, <3>2, BetweenStep
  <2>5. QED
    BY <2>3, <2>4
<1>5. ASSUME WriteFlag(w) PROVE CrossInv(w)' /\ FlagIsTold' /\ UNCHANGED <<crossings, lapsed>>
  <2> DEFINE on == task[w].on
  <2>1. task[w] # None /\ on \in Fences /\ ~Running(w, "cross") /\ Due(w)
    BY <1>0, <1>5 DEF WriteFlag, Running, TaskInv, CrossInv
  <2>2. Running(w, "cross")' /\ task'[w].pos = task[w].pos /\ task'[w].on = on
    BY <1>0, <1>5, <2>1, ContinueShape DEF WriteFlag, Stages, Running
  <2>3. /\ flag' = IF Inside(w, on) THEN flag \cup {on} ELSE flag \ {on}
        /\ UNCHANGED <<crossings, lapsed>>
    BY <1>5 DEF WriteFlag
  <2>4. (Inside(w, on) <=> on \in flag') /\ (Inside(w, on)' <=> Inside(w, on))
    BY <2>1, <2>2, <2>3 DEF Inside
  <2>5. \A f : Crossing!Entered(f)' <=> Crossing!Entered(f)
    BY <2>3 DEF Crossing!Entered
  <2>6. Due(w)'
    BY <2>1, <2>2, <2>3, <2>4, <2>5 DEF Due
  <2>7. CrossInv(w)'
    BY <2>2, <2>4, <2>6 DEF CrossInv, Running
  <2>8. ASSUME NEW f \in Fences, f # on
        PROVE  f \in flag' <=> Crossing!Entered(f)' /\ f \notin lapsed'
    BY <1>0, <2>1, <2>3, <2>5, <2>8 DEF FlagIsTold
  <2>9. FlagIsTold'
    BY <2>2, <2>8 DEF FlagIsTold
  <2>10. QED
    BY <2>3, <2>7, <2>9
<1>6. ASSUME EmitCrossing(w) PROVE CrossInv(w)' /\ FlagIsTold' /\ Crossing!Next
  <2>0. PICK on \in Fences : on = task[w].on
    BY <1>0, <1>6 DEF EmitCrossing, Running, TaskInv
  <2> DEFINE e == IF Inside(w, on) THEN "ENTERED" ELSE "EXITED"
  <2>1. /\ task[w] # None /\ on \in Fences /\ Running(w, "cross")
        /\ task[w].left \ {on} \in SUBSET Fences
    BY <1>0, <1>6, TaskType DEF EmitCrossing, Running, TaskInv, Task
  <2>2. task'[w].at \in {"get", "announce"}
    BY <1>0, <1>6, <2>0, <2>1, LookAtShape DEF EmitCrossing
  <2>3. /\ crossings' = [crossings EXCEPT ![on] = Append(@, e)] /\ flag' = flag
        /\ lapsed' = lapsed \ {on}
    BY <1>6, <2>0 DEF EmitCrossing
  <2>4. crossings[on] \in Seq({"ENTERED", "EXITED"}) /\ e \in {"ENTERED", "EXITED"}
    BY <1>0, <2>1 DEF TypeOK
  <2>5. (Inside(w, on) <=> on \in flag) /\ Due(w)
    BY <2>0, <2>1 DEF CrossInv
  <2>6. Crossing!Tell(on, e)
    BY <2>3 DEF Crossing!Tell
  <2>7. Crossing!Next
    <3>1. CASE Inside(w, on)
      BY <2>0, <2>5, <2>6, <3>1 DEF Due, Crossing!Next, Crossing!Enter
    <3>2. CASE ~Inside(w, on)
      BY <2>0, <2>5, <2>6, <3>2 DEF Due, Crossing!Next, Crossing!Leave
    <3>3. QED
      BY <3>1, <3>2
  <2>8. ~Running(w, "cross")' /\ ~Running(w, "flag")'
    BY <2>2 DEF Running
  <2>9. crossings'[on] = Append(crossings[on], e)
    BY <1>0, <2>1, <2>3 DEF TypeOK
  <2>10. Crossing!Entered(on)' <=> e = "ENTERED"
    <3>1. PICK s \in Seq({"ENTERED", "EXITED"}), x \in {"ENTERED", "EXITED"} :
             s = crossings[on] /\ x = e
      BY <2>4
    <3>2. crossings'[on] = Append(s, x) /\ Append(s, x) # <<>>
          /\ Append(s, x)[Len(Append(s, x))] = x
      BY <2>9, <3>1, ToldLast
    <3>3. QED
      BY <3>1, <3>2 DEF Crossing!Entered
  <2>11. ASSUME NEW f \in Fences, f # on
         PROVE  f \in flag' <=> Crossing!Entered(f)' /\ f \notin lapsed'
    <3>1. crossings'[f] = crossings[f]
      BY <1>0, <2>3, <2>11 DEF TypeOK
    <3>2. f \in flag <=> Crossing!Entered(f) /\ f \notin lapsed
      BY <1>0, <2>0, <2>11 DEF FlagIsTold
    <3>3. QED
      BY <2>3, <2>11, <3>1, <3>2 DEF Crossing!Entered
  <2>12. on \in flag' <=> Crossing!Entered(on)' /\ on \notin lapsed'
    BY <2>3, <2>5, <2>10
  <2>13. FlagIsTold'
    <3>1. ASSUME NEW f \in Fences PROVE f \in flag' <=> Crossing!Entered(f)' /\ f \notin lapsed'
      <4>1. CASE f = on
        BY <2>12, <4>1
      <4>2. CASE f # on
        BY <2>11, <4>2
      <4>3. QED
        BY <4>1, <4>2
    <3>2. QED
      BY <3>1 DEF FlagIsTold
  <2>14. QED
    BY <2>7, <2>8, <2>13 DEF CrossInv
<1>7. ASSUME AnnounceLocation(w) PROVE CrossInv(w)' /\ FlagIsTold' /\ UNCHANGED <<crossings, lapsed>>
  <2>1. task'[w] = None
    BY <1>0, <1>7, FinishShape DEF AnnounceLocation
  <2>2. ~Running(w, "cross") /\ ~Running(w, "cross")' /\ ~Running(w, "flag")'
    BY <1>7, <2>1 DEF AnnounceLocation, Running
  <2>3. QED
    BY <1>7, <2>2, BetweenStep DEF AnnounceLocation, store
<1>8. QED
  BY <1>1, <1>2, <1>3, <1>4, <1>5, <1>6, <1>7 DEF Handle

\* A call of getLatest has nothing to do with geofences.
LEMMA ServingStep ==
    ASSUME NEW w \in Workers, OthersIdle(w), SteadyInv(w), Serve(w)
    PROVE  CrossInv(w)' /\ FlagIsTold' /\ UNCHANGED <<crossings, lapsed>>
<1>0. TypeOK
  BY DEF SteadyInv, IInv
<1>1. task'[w] = None \/ task'[w].at = "fill"
  <2>1. CASE StartLatest(w)
    BY <1>0, <2>1 DEF StartLatest, Call, TypeOK
  <2>2. CASE FillLatest(w)
    BY <1>0, <2>2, FinishShape DEF FillLatest
  <2>3. QED
    BY <2>1, <2>2 DEF Serve
<1>2. ~Running(w, "cross") /\ ~Running(w, "cross")' /\ ~Running(w, "flag")'
  BY <1>1 DEF Serve, StartLatest, Call, FillLatest, Running
<1>3. UNCHANGED <<flag, lapsed, crossings>>
  BY DEF Serve, StartLatest, FillLatest, store
<1>4. QED
  BY <1>2, <1>3, BetweenStep

\* An expiry between two crossings, or of another fence
LEMMA OutliveStep ==
    ASSUME FlagIsTold, NEW f \in Fences, Outlive(f)
    PROVE  FlagIsTold' /\ Crossing!Next /\ \A w \in Workers : CrossInv(w) => CrossInv(w)'
<1>1. /\ f \in flag /\ flag' = flag \ {f} /\ lapsed' = lapsed \cup {f}
      /\ UNCHANGED <<task, crossings>>
      /\ \A x \in Workers : ~(Running(x, "cross") /\ task[x].on = f)
  BY DEF Outlive, ExpireFlag, delivery
<1>2. Crossing!Entered(f) /\ f \notin lapsed
  BY <1>1 DEF FlagIsTold
<1>3. \A g : Crossing!Entered(g)' <=> Crossing!Entered(g)
  BY <1>1 DEF Crossing!Entered
<1>4. Crossing!Next
  BY <1>1, <1>2 DEF Crossing!Next, Crossing!Forget
<1>5. ASSUME NEW w \in Workers, CrossInv(w) PROVE CrossInv(w)'
  <2>1. Due(w) => Due(w)'
    BY <1>1, <1>3 DEF Due, Inside
  <2>2. QED
    BY <1>1, <1>5, <2>1 DEF CrossInv, Running, Inside
<1>6. FlagIsTold'
  BY <1>1, <1>3 DEF FlagIsTold, Running
<1>7. QED
  BY <1>4, <1>5, <1>6

LEMMA SteadyStep ==
    ASSUME NEW w, Workers = {w}
    PROVE  SteadyInv(w) /\ [Steady]_vars => SteadyInv(w)' /\ [Crossing!Next]_<<crossings, lapsed>>
<1> SUFFICES ASSUME SteadyInv(w), [Steady]_vars
             PROVE  SteadyInv(w)' /\ [Crossing!Next]_<<crossings, lapsed>>
  OBVIOUS
<1>0. IInv' /\ OthersIdle(w) /\ w \in Workers
  BY InvStep DEF SteadyInv, IInv, Steady, Next, Own, OthersIdle, Lapse, Outlive
<1>1. CASE Handle(w) \/ Serve(w)
  BY <1>0, <1>1, CrossingStep, ServingStep DEF SteadyInv
<1>2. CASE Manage \/ ExpireLocation \/ (\E m \in Messages : Arrive(m)) \/ UNCHANGED vars
  <2>1. UNCHANGED <<task, flag, lapsed, crossings>>
    BY <1>2 DEF Manage, SetFence, ExpireLocation, Arrive, vars, delivery, store
  <2>2. CrossInv(w)' /\ FlagIsTold'
    BY <2>1 DEF SteadyInv, CrossInv, Due, FlagIsTold, Running, Inside, Crossing!Entered
  <2>3. QED
    BY <1>0, <2>1, <2>2 DEF SteadyInv
<1>3. CASE \E f \in Fences : Outlive(f)
  BY <1>0, <1>3, OutliveStep DEF SteadyInv
<1>4. QED
  BY <1>1, <1>2, <1>3 DEF Steady

\* Where one replica handles all messages and nothing fails, the service implements
\* GeofenceCrossing: whatever the way of the vehicle, however geofences come, change
\* and go and whenever keys expire, the announcements of each fence alternate, but for
\* an entry that is told again once its flag has expired.
THEOREM CrossingsCorrect ==
    ASSUME NEW w, Workers = {w}
    PROVE  SteadySpec => Crossing!Spec
<1>1. Init => Crossing!Init
  BY DEF Init, Crossing!Init
<1>2. Init => SteadyInv(w)
  BY SteadyInit DEF SteadyInv
<1>3. SteadyInv(w) /\ [Steady]_vars => SteadyInv(w)' /\ [Crossing!Next]_<<crossings, lapsed>>
  BY SteadyStep
<1>4. QED
  BY <1>1, <1>2, <1>3, PTL DEF SteadySpec, Crossing!Spec

-----------------------------------------------------------------------------
\* Points in polygons

Calc == INSTANCE Calculations

Point == Int \X Int
Odd(S) == Cardinality(S) % 2 = 1

\* Whether a set is odd, one element at a time
LEMMA OddWithout ==
    ASSUME NEW S, IsFiniteSet(S), NEW x
    PROVE  Odd(S) <=> ~((x \in S) <=> Odd(S \ {x}))
<1>1. CASE x \in S
  <2>1. Cardinality(S \ {x}) = Cardinality(S) - 1 /\ Cardinality(S) \in Nat
    BY <1>1, FS_RemoveElement, FS_CardinalityType
  <2>2. QED
    BY <1>1, <2>1, Z3 DEF Odd
<1>2. CASE x \notin S
  <2>1. S \ {x} = S
    BY <1>2
  <2>2. QED
    BY <1>2, <2>1 DEF Odd
<1>3. QED
  BY <1>1, <1>2

LEMMA OddOfFour ==
    ASSUME NEW S \in SUBSET {1, 2, 3, 4}
    PROVE  Odd(S) <=> ~((1 \in S) <=> ((2 \in S) <=> ((3 \in S) <=> (4 \in S))))
<1>1. IsFiniteSet(S) /\ IsFiniteSet(S \ {1}) /\ IsFiniteSet((S \ {1}) \ {2})
  <2>1. IsFiniteSet({1, 2, 3, 4})
    <3>1. 1 \in Int /\ 4 \in Int /\ {1, 2, 3, 4} = 1 .. 4
      OBVIOUS
    <3>2. QED
      BY <3>1, FS_Interval
  <2>2. S \ {1} \in SUBSET {1, 2, 3, 4} /\ (S \ {1}) \ {2} \in SUBSET {1, 2, 3, 4}
    OBVIOUS
  <2>3. QED
    BY <2>1, <2>2, FS_Subset
<1>2. Odd(S) <=> ~((1 \in S) <=> Odd(S \ {1}))
  BY <1>1, OddWithout
<1>3. Odd(S \ {1}) <=> ~((2 \in S) <=> Odd((S \ {1}) \ {2}))
  BY <1>1, OddWithout
<1>4. Odd((S \ {1}) \ {2}) <=> ~((3 \in S) <=> Odd(((S \ {1}) \ {2}) \ {3}))
  BY <1>1, OddWithout
<1>5. Odd(((S \ {1}) \ {2}) \ {3}) <=> (4 \in S)
  <2>1. ((S \ {1}) \ {2}) \ {3} = IF 4 \in S THEN {4} ELSE {}
    <3>1. CASE 4 \in S
      <4>1. \A x \in S : x \notin {1, 2, 3} <=> x = 4
        OBVIOUS
      <4>2. QED
        BY <3>1, <4>1
    <3>2. CASE 4 \notin S
      <4>1. \A x : x \notin ((S \ {1}) \ {2}) \ {3}
        BY <3>2
      <4>2. QED
        BY <3>2, <4>1
    <3>3. QED
      BY <3>1, <3>2
  <2>2. Cardinality({4}) = 1 /\ Cardinality({}) = 0
    BY FS_Singleton, FS_EmptySet
  <2>3. QED
    BY <2>1, <2>2, Z3 DEF Odd
<1>6. QED
  BY <1>2, <1>3, <1>4, <1>5

\* An edge crosses the ray of a point when its ends lie above and below the point and
\* the point lies on the left of the upward edge, the right of the downward one: which
\* end comes first makes no difference.
LEMMA EdgeHasSide ==
    ASSUME NEW a \in Point, NEW b \in Point, NEW p \in Point
    PROVE  /\ Calc!Side(a, b, p) \in Int
           /\ Calc!Side(b, a, p) = 0 - Calc!Side(a, b, p)
           /\ Calc!Crosses(a, b, p) <=>
                /\ (a[2] > p[2]) # (b[2] > p[2])
                /\ IF b[2] > a[2] THEN Calc!Side(a, b, p) > 0 ELSE Calc!Side(a, b, p) < 0
           /\ Calc!Crosses(b, a, p) <=> Calc!Crosses(a, b, p)
           /\ ~Calc!Crosses(a, a, p)
<1>1. PICK a1 \in Int, a2 \in Int, b1 \in Int, b2 \in Int, p1 \in Int, p2 \in Int :
        a = <<a1, a2>> /\ b = <<b1, b2>> /\ p = <<p1, p2>>
  BY DEF Point
<1>2. /\ Calc!Side(a, b, p) \in Int
      /\ Calc!Side(b, a, p) = 0 - Calc!Side(a, b, p)
  BY <1>1, Z3 DEF Calc!Side
<1>3. ASSUME NEW x \in Point, NEW y \in Point
      PROVE  Calc!Crosses(x, y, p) <=>
                /\ (x[2] > p[2]) # (y[2] > p[2])
                /\ IF y[2] > x[2] THEN Calc!Side(x, y, p) > 0 ELSE Calc!Side(x, y, p) < 0
  BY <1>1, Z3 DEF Calc!Side, Calc!Crosses, Point
<1>4. Calc!Crosses(b, a, p) <=> Calc!Crosses(a, b, p)
  BY <1>1, <1>2, <1>3
<1>5. ~Calc!Crosses(a, a, p)
  BY <1>3
<1>6. QED
  BY <1>2, <1>3, <1>4, <1>5

\* Weighted by the sides on which the point lies, the heights of the corners above it
\* cancel out.
LEMMA Balance ==
    ASSUME NEW a \in Point, NEW b \in Point, NEW c \in Point, NEW p \in Point
    PROVE  Calc!Side(b, c, p) * (a[2] - p[2]) + Calc!Side(c, a, p) * (b[2] - p[2])
             + Calc!Side(a, b, p) * (c[2] - p[2]) = 0
<1>1. \A q \in Point : q = <<q[1], q[2]>> /\ q[1] \in Int /\ q[2] \in Int
  BY DEF Point
<1>2. QED
  BY <1>1, Z3 DEF Calc!Side

LEMMA Signs ==
    ASSUME NEW m \in Int, NEW n \in Int
    PROVE  /\ m * n \in Int
           /\ m > 0 /\ n > 0 => m * n > 0
           /\ m > 0 /\ n < 0 => m * n < 0
           /\ m < 0 /\ n > 0 => m * n < 0
           /\ m < 0 /\ n < 0 => m * n > 0
           /\ m = 0 \/ n = 0 => m * n = 0
  BY Z3

\* The instance counts as FiniteSets does.
LEMMA CountsAlike == \A S : Calc!Cardinality(S) = Cardinality(S)
  BY DEF Calc!Cardinality, Cardinality

\* A point is in a ring when an odd number of its edges cross the ray.
LEMMA RingOfThree ==
    ASSUME NEW a \in Point, NEW b \in Point, NEW c \in Point, NEW p \in Point
    PROVE  Calc!isPointInPolygon(p, <<a, b, c>>) <=>
             (Calc!Crosses(a, b, p) <=> (Calc!Crosses(b, c, p) <=> Calc!Crosses(c, a, p)))
<1> DEFINE ring == <<a, b, c>>
           S == {i \in DOMAIN ring : Calc!Crosses(ring[i], ring[Calc!Before(ring, i)], p)}
<1>1. /\ DOMAIN ring = {1, 2, 3} /\ ring[1] = a /\ ring[2] = b /\ ring[3] = c
      /\ Calc!Before(ring, 1) = 3 /\ Calc!Before(ring, 2) = 1 /\ Calc!Before(ring, 3) = 2
  BY DEF Calc!Before
<1>2. Calc!isPointInPolygon(p, ring) <=> Odd(S)
  BY CountsAlike DEF Odd, Calc!isPointInPolygon
<1> HIDE DEF ring
<1>3. /\ 1 \in S <=> Calc!Crosses(a, c, p)
      /\ 2 \in S <=> Calc!Crosses(b, a, p)
      /\ 3 \in S <=> Calc!Crosses(c, b, p)
      /\ 4 \notin S
  BY <1>1
<1>4. S \in SUBSET {1, 2, 3, 4}
  BY <1>1
<1> HIDE DEF S
<1>5. Odd(S) <=> ~((1 \in S) <=> ((2 \in S) <=> ((3 \in S) <=> (4 \in S))))
  BY <1>4, OddOfFour
<1>6. /\ Calc!Crosses(a, c, p) <=> Calc!Crosses(c, a, p)
      /\ Calc!Crosses(b, a, p) <=> Calc!Crosses(a, b, p)
      /\ Calc!Crosses(c, b, p) <=> Calc!Crosses(b, c, p)
  BY EdgeHasSide
<1>7. QED
  BY <1>2, <1>3, <1>5, <1>6 DEF ring

LEMMA RingOfFour ==
    ASSUME NEW a \in Point, NEW b \in Point, NEW c \in Point, NEW d \in Point,
           NEW p \in Point
    PROVE  Calc!isPointInPolygon(p, <<a, b, c, d>>) <=>
             ~(Calc!Crosses(a, b, p) <=> (Calc!Crosses(b, c, p) <=>
                 (Calc!Crosses(c, d, p) <=> Calc!Crosses(d, a, p))))
<1> DEFINE ring == <<a, b, c, d>>
           S == {i \in DOMAIN ring : Calc!Crosses(ring[i], ring[Calc!Before(ring, i)], p)}
<1>1. /\ DOMAIN ring = {1, 2, 3, 4}
      /\ ring[1] = a /\ ring[2] = b /\ ring[3] = c /\ ring[4] = d
      /\ Calc!Before(ring, 1) = 4 /\ Calc!Before(ring, 2) = 1
      /\ Calc!Before(ring, 3) = 2 /\ Calc!Before(ring, 4) = 3
  BY DEF Calc!Before
<1>2. Calc!isPointInPolygon(p, ring) <=> Odd(S)
  BY CountsAlike DEF Odd, Calc!isPointInPolygon
<1> HIDE DEF ring
<1>3. /\ 1 \in S <=> Calc!Crosses(a, d, p)
      /\ 2 \in S <=> Calc!Crosses(b, a, p)
      /\ 3 \in S <=> Calc!Crosses(c, b, p)
      /\ 4 \in S <=> Calc!Crosses(d, c, p)
  BY <1>1
<1>4. S \in SUBSET {1, 2, 3, 4}
  BY <1>1
<1> HIDE DEF S
<1>5. Odd(S) <=> ~((1 \in S) <=> ((2 \in S) <=> ((3 \in S) <=> (4 \in S))))
  BY <1>4, OddOfFour
<1>6. /\ Calc!Crosses(a, d, p) <=> Calc!Crosses(d, a, p)
      /\ Calc!Crosses(b, a, p) <=> Calc!Crosses(a, b, p)
      /\ Calc!Crosses(c, b, p) <=> Calc!Crosses(b, c, p)
      /\ Calc!Crosses(d, c, p) <=> Calc!Crosses(c, d, p)
  BY EdgeHasSide
<1>7. QED
  BY <1>2, <1>3, <1>5, <1>6 DEF ring

\* On one side of all edges, the point has corners above and below it and is crossed
\* by one edge; on different sides of two, by none or two: both by Balance.
LEMMA InTriangle ==
    ASSUME NEW a \in Point, NEW b \in Point, NEW c \in Point, NEW p \in Point,
           NEW x \in Int, NEW y \in Int, NEW z \in Int,
           x = Calc!Side(b, c, p), y = Calc!Side(c, a, p), z = Calc!Side(a, b, p)
    PROVE  /\ x > 0 /\ y > 0 /\ z > 0 => Calc!isPointInPolygon(p, <<a, b, c>>)
           /\ x < 0 /\ y < 0 /\ z < 0 => Calc!isPointInPolygon(p, <<a, b, c>>)
           /\ (x > 0 \/ y > 0 \/ z > 0) /\ (x < 0 \/ y < 0 \/ z < 0)
                  => ~Calc!isPointInPolygon(p, <<a, b, c>>)
<1>1. PICK u \in Int, v \in Int, w \in Int :
          /\ u = a[2] - p[2] /\ v = b[2] - p[2] /\ w = c[2] - p[2]
  BY DEF Point
<1>2. PICK l \in Int, m \in Int, n \in Int : l = x * u /\ m = y * v /\ n = z * w
  BY Signs
<1>3. l + m + n = 0
  BY <1>1, <1>2, Balance
<1>4. /\ Calc!Crosses(a, b, p) <=> (u > 0) # (v > 0) /\ IF v > u THEN z > 0 ELSE z < 0
      /\ Calc!Crosses(b, c, p) <=> (v > 0) # (w > 0) /\ IF w > v THEN x > 0 ELSE x < 0
      /\ Calc!Crosses(c, a, p) <=> (w > 0) # (u > 0) /\ IF u > w THEN y > 0 ELSE y < 0
  <2>1. \A q \in Point : q[2] \in Int
    BY DEF Point
  <2>2. /\ Calc!Crosses(a, b, p) <=>
              (a[2] > p[2]) # (b[2] > p[2]) /\ IF b[2] > a[2] THEN z > 0 ELSE z < 0
        /\ Calc!Crosses(b, c, p) <=>
              (b[2] > p[2]) # (c[2] > p[2]) /\ IF c[2] > b[2] THEN x > 0 ELSE x < 0
        /\ Calc!Crosses(c, a, p) <=>
              (c[2] > p[2]) # (a[2] > p[2]) /\ IF a[2] > c[2] THEN y > 0 ELSE y < 0
    BY EdgeHasSide
  <2>3. /\ a[2] > p[2] <=> u > 0
        /\ b[2] > p[2] <=> v > 0
        /\ c[2] > p[2] <=> w > 0
        /\ b[2] > a[2] <=> v > u
        /\ c[2] > b[2] <=> w > v
        /\ a[2] > c[2] <=> u > w
    BY <1>1, <2>1
  <2>4. QED
    BY <2>2, <2>3
<1>5. /\ x > 0 /\ u > 0 => l > 0
      /\ x > 0 /\ u < 0 => l < 0
      /\ x < 0 /\ u > 0 => l < 0
      /\ x < 0 /\ u < 0 => l > 0
      /\ x = 0 \/ u = 0 => l = 0
  BY <1>2, Signs
<1>6. /\ y > 0 /\ v > 0 => m > 0
      /\ y > 0 /\ v < 0 => m < 0
      /\ y < 0 /\ v > 0 => m < 0
      /\ y < 0 /\ v < 0 => m > 0
      /\ y = 0 \/ v = 0 => m = 0
  BY <1>2, Signs
<1>7. /\ z > 0 /\ w > 0 => n > 0
      /\ z > 0 /\ w < 0 => n < 0
      /\ z < 0 /\ w > 0 => n < 0
      /\ z < 0 /\ w < 0 => n > 0
      /\ z = 0 \/ w = 0 => n = 0
  BY <1>2, Signs
<1>8. ~((x > 0 /\ y > 0 /\ z > 0) \/ (x < 0 /\ y < 0 /\ z < 0))
         \/ u # 0 \/ v # 0 \/ w # 0
  BY <1>1 DEF Calc!Side, Point
<1>9. QED
  BY <1>3, <1>4, <1>5, <1>6, <1>7, <1>8, RingOfThree

\* isPointInPolygon, for all points with integer coordinates: a point off the edges of
\* a triangle is in it exactly when it is on one side of all of them; where the ring
\* starts, which way it runs and whether it is closed makes no difference; and a
\* quadrilateral is two triangles.
THEOREM PolygonCorrect ==
    ASSUME NEW p \in Point, NEW a \in Point, NEW b \in Point, NEW c \in Point, NEW d \in Point
    PROVE  Calc!PolygonIsRight(p, a, b, c, d)
<1> DEFINE In(ring) == Calc!isPointInPolygon(p, ring)
           ab == Calc!Side(a, b, p)
           bc == Calc!Side(b, c, p)
           ca == Calc!Side(c, a, p)
<1>1. ab \in Int /\ bc \in Int /\ ca \in Int
  BY EdgeHasSide
<1>2. /\ ab > 0 /\ bc > 0 /\ ca > 0 => In(<<a, b, c>>)
      /\ ab < 0 /\ bc < 0 /\ ca < 0 => In(<<a, b, c>>)
      /\ (ab > 0 \/ bc > 0 \/ ca > 0) /\ (ab < 0 \/ bc < 0 \/ ca < 0) => ~In(<<a, b, c>>)
  BY <1>1, InTriangle
<1>3. \A x, y \in Point : Calc!Crosses(y, x, p) <=> Calc!Crosses(x, y, p)
  BY EdgeHasSide
<1>4. ~Calc!Crosses(a, a, p)
  BY EdgeHasSide
<1>5. /\ In(<<b, c, a>>) <=> In(<<a, b, c>>)
      /\ In(<<c, b, a>>) <=> In(<<a, b, c>>)
  BY <1>3, RingOfThree
<1>6. In(<<a, b, c, a>>) <=> In(<<a, b, c>>)
  BY <1>4, RingOfThree, RingOfFour
<1>7. In(<<a, b, c, d>>) <=> ~(In(<<a, b, c>>) <=> In(<<a, c, d>>))
  BY <1>3, RingOfThree, RingOfFour
<1>8. \A ring : In(ring) \in BOOLEAN
  BY DEF Calc!isPointInPolygon
<1> HIDE DEF In, ab, bc, ca
<1>9. Calc!PolygonIsRight(p, a, b, c, d) <=>
        LET sides == {ab, bc, ca} IN
        /\ (\A s \in sides : s > 0) \/ (\A s \in sides : s < 0) => In(<<a, b, c>>)
        /\ (\E s, t \in sides : s > 0 /\ t < 0) => ~In(<<a, b, c>>)
        /\ In(<<b, c, a>>) = In(<<a, b, c>>)
        /\ In(<<c, b, a>>) = In(<<a, b, c>>)
        /\ In(<<a, b, c, a>>) = In(<<a, b, c>>)
        /\ In(<<a, b, c, d>>) = (In(<<a, b, c>>) # In(<<a, c, d>>))
  BY DEF Calc!PolygonIsRight, In, ab, bc, ca
<1>10. QED
  BY <1>1, <1>2, <1>5, <1>6, <1>7, <1>8, <1>9
=============================================================================
