--------------------------- MODULE TripDetection ---------------------------
(***************************************************************************)
(* The trip service for one vehicle: apps/trip-service/src/trips.          *)
(*                                                                         *)
(* Each telemetry message reads the active trip from Redis and starts,     *)
(* updates or ends it by awaited writes to PostgreSQL, MongoDB, Redis and  *)
(* Kafka, in an order that differs from case to case.  Messages carry no   *)
(* Kafka key, so those of one vehicle lie on several partitions and the    *)
(* replicas of the service may process them at the same time and in any    *)
(* order.  Clients may also start and end trips by hand.                   *)
(*                                                                         *)
(* A position, speed or consumption folded into a trip is one sample: how  *)
(* many samples each store holds stands for the data it holds, the         *)
(* distance above all.  A message carries the timestamp its client gave    *)
(* it, at any distance from the clock of the service.                      *)
(***************************************************************************)
EXTENDS Integers, FiniteSets

CONSTANTS
    Trips,        \* bound: the trips that can be created
    Workers,      \* replicas of the service, and HTTP calls in flight
    IdleTimeout,  \* TRIP_CONSTANTS.IDLE_TIMEOUT_MINUTES, in ticks of the clock
    MaxSamples,   \* bound: a trip with that many samples is only ended
    Manual,       \* whether clients start and end trips by hand
    Distances,    \* distances that clients state, as samples that would bear them out
    Stamps,       \* how many ticks before its processing a message may be stamped
    MayFail,      \* whether awaited calls reject and the Redis key may expire
    None          \* no trip, no task

ASSUME TripAssumption ==
    /\ IdleTimeout \in Nat \ {0}
    /\ MaxSamples \in Nat
    /\ Distances \subseteq Nat
    /\ Stamps \subseteq {s \in Int : s <= IdleTimeout}
    /\ {Manual, MayFail} \subseteq BOOLEAN
    /\ IsFiniteSet(Workers)
    /\ None \notin Trips

VARIABLES
    row,      \* PostgreSQL: trips.tripStatus
    samples,  \* PostgreSQL: the samples behind trips.distance
    stated,   \* history: the trips whose distance is what a client stated
    points,   \* MongoDB: the route points of the trip
    lost,     \* history: the route points not stored because an invocation failed
    cached,   \* Redis: vehicle:<id>:active_trip
    age,      \* ticks since lastTimestamp of the cached trip, up to IdleTimeout
    stopped,  \* ticks since the latest movement that a message told of, likewise
    task,     \* the message or HTTP call each worker is processing
    sent,     \* ticks since the timestamp of each worker's message, likewise
    events    \* messages on the Kafka topics

vars == <<row, samples, stated, points, lost, cached, age, stopped, task, sent, events>>

clock == <<age, stopped, sent>>

TripStatus == {"ABSENT", "IN_PROGRESS", "COMPLETED"}

\* What processTelemetry distinguishes: ignition on and moving; moving slowly, or with
\* an engine of unknown status; standing; ignition off.
Ping == {"drive", "creep", "idle", "off"}

ActiveTripState == [trip : Trips, count : Nat]

\* timeout: the trip is ended because it idles.  open, close: by hand.  declare: by
\* hand, stating the distance.
\* at: the next awaited call.  count: the samples known to this invocation.
Task == [op : {"start", "update", "end", "timeout", "open", "close", "declare"},
         at : {"row", "point", "cache", "del", "emit"},
         trip : Trips \cup {None}, count : Nat]

ASSUME NoneAssumption == None \notin Task /\ None \notin ActiveTripState

Event == {"TRIP_STARTED", "TRIP_COMPLETED"} \X Trips

TypeOK ==
    /\ row \in [Trips -> TripStatus]
    /\ samples \in [Trips -> Nat]
    /\ stated \subseteq Trips
    /\ points \in [Trips -> Nat]
    /\ lost \in [Trips -> Nat]
    /\ cached \in ActiveTripState \cup {None}
    /\ age \in Int /\ age <= IdleTimeout
    /\ stopped \in Int /\ stopped <= IdleTimeout
    /\ task \in [Workers -> Task \cup {None}]
    /\ sent \in [Workers -> Int] /\ \A w \in Workers : sent[w] <= IdleTimeout
    /\ events \subseteq Event

Init ==
    /\ row = [t \in Trips |-> "ABSENT"]
    /\ samples = [t \in Trips |-> 0]
    /\ stated = {}
    /\ points = [t \in Trips |-> 0]
    /\ lost = [t \in Trips |-> 0]
    /\ cached = None
    /\ age = IdleTimeout
    /\ stopped = IdleTimeout
    /\ task = [w \in Workers |-> None]
    /\ sent = [w \in Workers |-> IdleTimeout]
    /\ events = {}

-----------------------------------------------------------------------------
\* processTelemetry: the decision, by what Redis holds

Start(w, op, at, t, n) ==
    /\ task[w] = None
    /\ task' = [task EXCEPT ![w] = [op |-> op, at |-> at, trip |-> t, count |-> n]]
    /\ UNCHANGED <<row, samples, stated, points, lost, cached, age, events>>

\* The timestamp of the message, which stays with its invocation, and whether the
\* vehicle moved then
Moves(w, ping, s) ==
    /\ sent' = [sent EXCEPT ![w] = s]
    /\ stopped' = IF ping \in {"drive", "creep"} /\ s < stopped THEN s ELSE stopped

\* No active trip: only a moving vehicle starts one
BeginTrip(w, ping, s) ==
    /\ cached = None
    /\ ping = "drive"
    /\ Start(w, "start", "row", None, 1)
    /\ Moves(w, ping, s)

\* Mutant: any standing vehicle is timed out
IdleTimedOut_Standing(ping) == ping = "idle"
IdleTimedOut(ping) == ping = "idle" /\ age >= IdleTimeout

FinishTrip(w, ping, s) ==
    /\ cached # None
    /\ ping = "off" \/ IdleTimedOut(ping)
    /\ Start(w, IF ping = "off" THEN "end" ELSE "timeout", "row", cached.trip, cached.count)
    /\ Moves(w, ping, s)

FollowTrip(w, ping, s) ==
    /\ cached # None
    /\ ping # "off" /\ ~IdleTimedOut(ping)
    /\ cached.count < MaxSamples
    /\ Start(w, "update", "cache", cached.trip, cached.count + 1)
    /\ Moves(w, ping, s)

Message(w, ping, s) ==
    BeginTrip(w, ping, s) \/ FinishTrip(w, ping, s) \/ FollowTrip(w, ping, s)

\* trips.service.ts: startTrip; endTrip reads the row, refuses a trip that is not in
\* progress, and writes the distance it has read or the one the client states
OpenTrip(w) ==
    /\ Manual
    /\ Start(w, "open", "row", None, 0)
    /\ UNCHANGED <<stopped, sent>>

Endable(t) == row[t] = "IN_PROGRESS"

CloseTrip(w, t) ==
    /\ Manual
    /\ Endable(t)
    /\ \/ Start(w, "close", "row", t, samples[t])
       \/ \E n \in Distances : Start(w, "declare", "row", t, n)
    /\ UNCHANGED <<stopped, sent>>

-----------------------------------------------------------------------------
\* The awaited calls

Running(w, ops, at) == task[w] # None /\ task[w].at = at /\ task[w].op \in ops
Continue(w, at) == task' = [task EXCEPT ![w].at = at]
Finish(w) == task' = [task EXCEPT ![w] = None]

\* Mutant: the first route point is forgotten
AfterRow_NoPoint(op) == IF op = "start" THEN "cache" ELSE "emit"
AfterRow(op) == IF op = "start" THEN "point" ELSE "emit"

\* prisma.trip.create
CreateRow(w, t) ==
    /\ Running(w, {"start", "open"}, "row")
    /\ row[t] = "ABSENT"
    /\ row' = [row EXCEPT ![t] = "IN_PROGRESS"]
    /\ samples' = [samples EXCEPT ![t] = task[w].count]
    /\ task' = [task EXCEPT ![w].trip = t, ![w].at = AfterRow(task[w].op)]
    /\ UNCHANGED <<stated, points, lost, cached, clock, events>>

\* tripRouteRepository.create
RecordPoint(w) ==
    /\ Running(w, {"start", "update"}, "point")
    /\ points' = [points EXCEPT ![task[w].trip] = @ + 1]
    /\ Continue(w, IF task[w].op = "start" THEN "cache" ELSE "row")
    /\ UNCHANGED <<row, samples, stated, lost, cached, clock, events>>

\* lastTimestamp becomes the timestamp of the message
Touch(w) == age' = sent[w]

\* redis.set of the state this invocation has computed from the one it read
CacheTrip(w) ==
    /\ Running(w, {"start", "update"}, "cache")
    /\ cached' = [trip |-> task[w].trip, count |-> task[w].count]
    /\ Touch(w)
    /\ Continue(w, IF task[w].op = "start" THEN "emit" ELSE "point")
    /\ UNCHANGED <<row, samples, stated, points, lost, stopped, sent, events>>

\* Mutant: the update says that the trip is in progress
KeepStatus_InProgress(t) == row' = [row EXCEPT ![t] = "IN_PROGRESS"]
KeepStatus(t) == UNCHANGED row

\* Mutant: the sample is counted twice
SampleRow_Twice(w) == samples' = [samples EXCEPT ![task[w].trip] = task[w].count + 1]
SampleRow(w) == samples' = [samples EXCEPT ![task[w].trip] = task[w].count]

UpdateRow(w) ==
    /\ Running(w, {"update"}, "row")
    /\ SampleRow(w)
    /\ stated' = stated \ {task[w].trip}
    /\ KeepStatus(task[w].trip)
    /\ Finish(w)
    /\ UNCHANGED <<points, lost, cached, clock, events>>

\* prisma.trip.update with COMPLETED, by the trip's id only
CompleteRow(w) ==
    /\ Running(w, {"end", "timeout", "close", "declare"}, "row")
    /\ row' = [row EXCEPT ![task[w].trip] = "COMPLETED"]
    /\ SampleRow(w)
    /\ stated' = IF task[w].op = "declare" THEN stated \cup {task[w].trip}
                                          ELSE stated \ {task[w].trip}
    /\ Continue(w, IF task[w].op \in {"close", "declare"} THEN "emit" ELSE "del")
    /\ UNCHANGED <<points, lost, cached, clock, events>>

Drop == cached' = None

\* redis.del, whichever trip the key holds by now
DropCache(w) ==
    /\ Running(w, {"end", "timeout"}, "del")
    /\ Drop
    /\ Continue(w, "emit")
    /\ UNCHANGED <<row, samples, stated, points, lost, clock, events>>

\* Mutants: the wrong topic; every trip is announced as completed
Announced_Status(op) == "IN_PROGRESS"
Announced_Completed(op) == "TRIP_COMPLETED"
Announced(op) == IF op \in {"start", "open"} THEN "TRIP_STARTED" ELSE "TRIP_COMPLETED"

EmitEvent(w) ==
    /\ task[w] # None
    /\ task[w].at = "emit"
    /\ events' = events \cup {<<Announced(task[w].op), task[w].trip>>}
    /\ Finish(w)
    /\ UNCHANGED <<row, samples, stated, points, lost, cached, clock>>

\* The next awaited call rejects: the consumer logs the error and goes on to the
\* next message, the HTTP call fails.
Abort(w) ==
    /\ MayFail
    /\ task[w] # None
    /\ lost' = IF Running(w, {"start", "update"}, "point")
                 THEN [lost EXCEPT ![task[w].trip] = @ + 1] ELSE lost
    /\ Finish(w)
    /\ UNCHANGED <<row, samples, stated, points, cached, clock, events>>

\* The key's time to live runs out.
ExpireCache ==
    /\ MayFail
    /\ cached # None
    /\ cached' = None
    /\ UNCHANGED <<row, samples, stated, points, lost, clock, task, events>>

Older(n) == IF n < IdleTimeout THEN n + 1 ELSE n

Tick ==
    /\ age' = Older(age)
    /\ stopped' = Older(stopped)
    /\ sent' = [w \in Workers |-> Older(sent[w])]
    /\ UNCHANGED <<row, samples, stated, points, lost, cached, task, events>>

-----------------------------------------------------------------------------
Receive(w) ==
    \/ \E ping \in Ping, s \in Stamps : Message(w, ping, s)
    \/ OpenTrip(w)
    \/ \E t \in Trips : CloseTrip(w, t)

TaskStep(w) ==
    \/ \E t \in Trips : CreateRow(w, t)
    \/ RecordPoint(w) \/ CacheTrip(w) \/ UpdateRow(w) \/ CompleteRow(w)
    \/ DropCache(w) \/ EmitEvent(w)

Next ==
    \/ \E w \in Workers : Receive(w) \/ TaskStep(w) \/ Abort(w)
    \/ ExpireCache
    \/ Tick

Spec == Init /\ [][Next]_vars
-----------------------------------------------------------------------------
\* Properties of all interleavings

\* Redis never holds a trip that the other stores do not know: the row and the
\* first route point are written before the key.
CachedIsRecorded ==
    cached # None => row[cached.trip] # "ABSENT" /\ points[cached.trip] >= 1

\* A completed trip is not reopened, by whatever was read while it was running.
CompletedStays ==
    [][\A t \in Trips : row[t] = "COMPLETED" => row'[t] = "COMPLETED"]_vars

\* TRIP_STARTED is told of trips with a row, TRIP_COMPLETED of completed ones.
AnnouncedIsDone ==
    \A t \in Trips :
        /\ <<"TRIP_STARTED", t>> \in events => row[t] # "ABSENT"
        /\ <<"TRIP_COMPLETED", t>> \in events => row[t] = "COMPLETED"

\* Invocations that have counted a sample of t and not yet stored its route point.
Unstored(t) ==
    {w \in Workers : Running(w, {"start", "update"}, "point") /\ task[w].trip = t}

\* The samples of t that are accounted for: route points, those still to be stored and
\* those that failed.
Covered(t) == points[t] + Cardinality(Unstored(t)) + lost[t]

\* No trip row claims more samples than its route shows, counting the points still
\* to be stored and those that failed, unless a client stated its distance:
\* invocations that overlap lose samples, for each starts from the state it read,
\* but none is counted twice, and none picks up a distance that was stated.
SamplesCovered == \A t \in Trips : t \notin stated => samples[t] <= Covered(t)

\* The service as its clients may rely on it: every step is a step of the ledger or
\* changes nothing the ledger speaks of.
Ledger == INSTANCE TripLedger WITH
             status <- row, samples <- samples, stated <- stated, announced <- events,
             evidence <- [t \in Trips |-> Covered(t)]

ImplementsLedger == Ledger!Spec

-----------------------------------------------------------------------------
\* One replica that nothing disturbs: no failures and no manual trips, and the messages
\* come in the order of their timestamps, however late

VARIABLE alone  \* whether that is the replica of this behaviour

OneBusy == \A w, x \in Workers : task'[w] # None /\ task'[x] # None => w = x

\* Stamped after the last message of the trip, and after the latest movement
InOrder(s) == s <= stopped /\ (cached # None => s <= age)

\* What is left of Next when the replica is alone
Undisturbed ==
    /\ \/ \E w \in Workers :
              \/ \E ping \in Ping, s \in Stamps : InOrder(s) /\ Message(w, ping, s)
              \/ TaskStep(w)
       \/ Tick
    /\ OneBusy

ServiceNext ==
    /\ IF alone THEN Undisturbed ELSE Next
    /\ UNCHANGED alone

ServiceSpec == Init /\ alone \in BOOLEAN /\ [][ServiceNext]_<<vars, alone>>

Quiet == \A w \in Workers : task[w] = None

\* Between two messages the three stores agree: the cached trip is the only one in
\* progress, and all have folded in the same samples.
StoresAgree ==
    Quiet => /\ {t \in Trips : row[t] = "IN_PROGRESS"}
                    = IF cached = None THEN {} ELSE {cached.trip}
             /\ \A t \in Trips : samples[t] = points[t]
             /\ cached # None => cached.count = points[cached.trip]

\* Of each step: a trip is timed out only when no message told of a movement within the
\* last IDLE_TIMEOUT_MINUTES, by the timestamps of the messages.
TimeoutIsIdle ==
    \A w \in Workers : task[w] = None /\ task'[w] # None /\ task'[w].op = "timeout"
                           => stopped >= IdleTimeout

\* Of each step: a message that arrives while nothing else is going on is folded into a trip in
\* progress.  "start on ignition ON & speed > 5 km/h", docs/ARCHITECTURE.md:14:
\* if there is none, a moving vehicle starts one.
FollowsLiveTrip ==
    \A w \in Workers : Quiet /\ task'[w] # None /\ task'[w].op = "update"
                           => row[task'[w].trip] = "IN_PROGRESS"

\* Where nothing disturbs the replica and messages come in the order of their
\* timestamps, the stores agree between two messages, a trip is timed out only when
\* the vehicle stood still, and each message is folded into a trip in progress.
AloneAgrees == [][alone => StoresAgree' /\ TimeoutIsIdle /\ FollowsLiveTrip]_vars

\* "end on ignition OFF or idle > 15 mins", docs/ARCHITECTURE.md:14: a message
\* that finds the vehicle standing that long does not prolong the trip.
IdleEndsTrip ==
    [][\A w \in Workers : task[w] = None /\ task'[w] # None /\ task'[w].op = "update"
                              => stopped' < IdleTimeout]_vars
=============================================================================
