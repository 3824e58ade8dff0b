--------------------------- MODULE DriverBehaviour ---------------------------
(***************************************************************************)
(* The driver behaviour service, for one vehicle: apps/driver-behaviour-   *)
(* service.  It takes each message of vis.telemetry.processed, and those   *)
(* of vis.trip.completed, which carry no speed.  The driver is looked up   *)
(* twice: for the event, and for the score.                                *)
(***************************************************************************)
EXTENDS KafkaConsumer, FiniteSets

CONSTANTS
    Messages,
    Drivers,
    Speeding,  \* the messages whose speed is over OVERSPEED_THRESHOLD_KMH
    Window     \* how many events of a driver are scored: 100

BehaviourAssumption ==
    /\ Speeding \subseteq Messages
    /\ Window \in Nat
    /\ MayFail \in BOOLEAN
    /\ None \notin Drivers
    /\ IsFiniteSet(Workers)

VARIABLES
    driver,    \* driver_assignments: the ACTIVE driver of the vehicle
    recorded,  \* MongoDB: how many behaviour events of a driver (or of nobody)
    detected,  \* how many vis.driver.behaviour_detected
    risks,     \* how many vis.driver.risk_detected
    score,     \* driver_scores.safetyEventsCount, None without a row
    cached,    \* Redis driver:<id>:score, the same column
    scored     \* the counts announced on vis.driver.score_updated

store == <<driver, recorded, detected, risks, score, cached, scored>>
vars == <<inbox, delivery, store>>

Anyone == Drivers \cup {None}

Task == [at : {"driver", "record", "detect", "risk", "again", "count", "upsert",
               "cache", "emit", "fill"},
         msg : Nat, who : Anyone, count : Nat]

TypeOK ==
    /\ inbox \in Seq(Messages)
    /\ taken \subseteq DOMAIN inbox /\ again \subseteq DOMAIN inbox
    /\ task \in [Workers -> Task \cup {None}]
    /\ driver \in Anyone
    /\ recorded \in [Anyone -> Nat] /\ detected \in [Anyone -> Nat]
    /\ risks \in [Anyone -> Nat]
    /\ score \in [Drivers -> Nat \cup {None}]
    /\ cached \in [Drivers -> Nat \cup {None}]
    /\ scored \in [Drivers -> SUBSET Nat]

Init ==
    /\ inbox = <<>>
    /\ DeliveryInit
    /\ driver \in Anyone
    /\ recorded = [d \in Anyone |-> 0] /\ detected = [d \in Anyone |-> 0]
    /\ risks = [d \in Anyone |-> 0]
    /\ score = [d \in Drivers |-> None] /\ cached = [d \in Drivers |-> None]
    /\ scored = [d \in Drivers |-> {}]

-----------------------------------------------------------------------------
Receive(w, i) ==
    /\ Deliver(w, i, [at |-> "driver", msg |-> i, who |-> None, count |-> 0])
    /\ UNCHANGED <<inbox, store>>

\* evaluateTelemetry: of its rules only OVERSPEED has its field in the event
FindDriver(w) ==
    /\ Running(w, "driver")
    /\ task' = [task EXCEPT ![w].who = driver,
                            ![w].at = IF inbox[task[w].msg] \in Speeding
                                      THEN "record" ELSE "again"]
    /\ UNCHANGED <<inbox, taken, again, store>>

Record(w) ==
    /\ Running(w, "record")
    /\ recorded' = [recorded EXCEPT ![task[w].who] = @ + 1]
    /\ Continue(w, "detect")
    /\ UNCHANGED <<inbox, taken, again, driver, detected, risks, score, cached, scored>>

EmitDetected(w) ==
    /\ Running(w, "detect")
    /\ detected' = [detected EXCEPT ![task[w].who] = @ + 1]
    /\ Continue(w, "risk")
    /\ UNCHANGED <<inbox, taken, again, driver, recorded, risks, score, cached, scored>>

EmitRisk(w) ==
    /\ Running(w, "risk")
    /\ risks' = [risks EXCEPT ![task[w].who] = @ + 1]
    /\ Continue(w, "again")
    /\ UNCHANGED <<inbox, taken, again, driver, recorded, detected, score, cached, scored>>

\* processDriverTelemetry looks the driver up again: it may be another by now.
FindDriverAgain(w) ==
    /\ Running(w, "again")
    /\ IF driver = None
       THEN Finish(w)
       ELSE task' = [task EXCEPT ![w].who = driver, ![w].at = "count"]
    /\ UNCHANGED <<inbox, taken, again, store>>

\* recalculateDriverScore: findByDriverId(driverId, 100)
Found(d) == IF recorded[d] > Window THEN Window ELSE recorded[d]

CountEvents(w) ==
    /\ Running(w, "count")
    /\ task' = [task EXCEPT ![w].count = Found(task[w].who), ![w].at = "upsert"]
    /\ UNCHANGED <<inbox, taken, again, store>>

UpsertScore(w) ==
    /\ Running(w, "upsert")
    /\ score' = [score EXCEPT ![task[w].who] = task[w].count]
    /\ Continue(w, "cache")
    /\ UNCHANGED <<inbox, taken, again, driver, recorded, detected, risks, cached, scored>>

\* Also the last step of getDriverScore, when Redis had no entry
CacheScore(w) ==
    /\ Running(w, "cache") \/ Running(w, "fill")
    /\ cached' = [cached EXCEPT ![task[w].who] = task[w].count]
    /\ IF task[w].at = "cache" THEN Continue(w, "emit") ELSE Finish(w)
    /\ UNCHANGED <<inbox, taken, again, driver, recorded, detected, risks, score, scored>>

EmitScore(w) ==
    /\ Running(w, "emit")
    /\ scored' = [scored EXCEPT ![task[w].who] = @ \cup {task[w].count}]
    /\ Finish(w)
    /\ UNCHANGED <<inbox, taken, again, driver, recorded, detected, risks, score, cached>>

\* getDriverScore, when Redis has no entry and there is a row
StartScore(w, d) ==
    /\ cached[d] = None /\ score[d] # None
    /\ Call(w, [at |-> "fill", msg |-> 0, who |-> d, count |-> score[d]])
    /\ UNCHANGED <<inbox, store>>

\* The key lives a day.
ExpireScore(d) ==
    /\ cached[d] # None
    /\ cached' = [cached EXCEPT ![d] = None]
    /\ UNCHANGED <<inbox, delivery, driver, recorded, detected, risks, score, scored>>

\* The vehicle service assigns or removes the driver.
Reassign(d) ==
    /\ driver' = d
    /\ UNCHANGED <<inbox, delivery, recorded, detected, risks, score, cached, scored>>

Fail(w) == Reject(w) /\ UNCHANGED <<inbox, store>>
Recommit(i) == Redeliver(i) /\ UNCHANGED <<inbox, store>>

Handle(w) ==
    \/ \E i \in DOMAIN inbox : Receive(w, i)
    \/ FindDriver(w) \/ Record(w) \/ EmitDetected(w) \/ EmitRisk(w)
    \/ FindDriverAgain(w) \/ CountEvents(w) \/ UpsertScore(w)
    \/ CacheScore(w) \/ EmitScore(w)

Serve(w) == \E d \in Drivers : StartScore(w, d)

Own ==
    \/ \E w \in Workers : Handle(w) \/ Serve(w) \/ Fail(w)
    \/ \E i \in taken : Recommit(i)
    \/ \E d \in Drivers : ExpireScore(d)
    \/ \E d \in Anyone : Reassign(d)

\* The telemetry service, or the trip service, announces a message.
Arrive(m) ==
    /\ inbox' = Append(inbox, m)
    /\ UNCHANGED <<delivery, store>>

Next == Own \/ \E m \in Messages : Arrive(m)

Spec == Init /\ [][Next]_vars
-----------------------------------------------------------------------------
\* However replicas, failures, redeliveries and reassignments interleave: a score
\* counts no event that is not recorded, in Postgres, Redis and Kafka, and a risk
\* announced is an event recorded.
ScoreIsGrounded ==
    /\ \A d \in Anyone : risks[d] <= detected[d] /\ detected[d] <= recorded[d]
    /\ \A d \in Drivers :
          /\ score[d] # None => score[d] <= recorded[d]
          /\ cached[d] # None => score[d] # None /\ cached[d] <= recorded[d]
          /\ \A n \in scored[d] : n <= recorded[d]

\* Messages handled one at a time, without a failure and while the driver stays:
\* Redis and Postgres agree, on all events of the driver.
ScoreIsCurrent ==
    Quiet => \A d \in Drivers :
                 /\ cached[d] # None => cached[d] = score[d]
                 /\ driver = d /\ recorded[d] > 0 => score[d] = Found(d)
=============================================================================
