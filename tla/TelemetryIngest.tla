-------------------------- MODULE TelemetryIngest --------------------------
(***************************************************************************)
(* The telemetry service, for one vehicle: apps/telemetry-service.         *)
(* Messages come by HTTP and by MQTT; the MQTT handler is not awaited, so  *)
(* they overlap.  A message is the time it was measured at.  One action is *)
(* one awaited statement.                                                  *)
(***************************************************************************)
EXTENDS Integers, Sequences

CONSTANTS
    Messages,  \* bound: each is ingested at most once
    OdoOf,     \* the odometer a message reports, 0 when it reports none
    Odometers, \* the odometers entered with the vehicle, or later by hand
    Workers,   \* bound: how many messages or calls may be in flight
    MayFail,   \* whether an awaited statement may reject after the first one
    None

TelemetryAssumption ==
    /\ Messages \subseteq Nat
    /\ OdoOf \in [Messages -> Nat]
    /\ Odometers \subseteq Nat
    /\ MayFail \in BOOLEAN
    /\ None \notin Messages

VARIABLES
    alive,     \* the vehicle is in vehicles and not deleted
    odometer,  \* vehicles.odometer
    claims,    \* history: what was last entered by hand, and what messages stored since report
    doc,       \* MongoDB: what has become of the document of each message
    latest,    \* Redis vehicle:<id>:latest
    processed, \* the messages of vis.telemetry.processed
    task       \* what each worker is doing

vars == <<alive, odometer, claims, doc, latest, processed, task>>

\* read: the odometer the vehicle had when the call read it
Task == [at : {"store", "odometer", "cache", "emit", "fill"}, msg : Messages, read : Nat]

TypeOK ==
    /\ alive \in BOOLEAN
    /\ odometer \in Nat
    /\ claims \subseteq Nat
    /\ doc \in [Messages -> {"ABSENT", "STORED", "DELETED"}]
    /\ latest \in Messages \cup {None}
    /\ processed \in Seq(Messages)
    /\ task \in [Workers -> Task \cup {None}]

Init ==
    /\ alive = TRUE
    /\ odometer \in Odometers
    /\ claims = {odometer}
    /\ doc = [m \in Messages |-> "ABSENT"]
    /\ latest = None
    /\ processed = <<>>
    /\ task = [w \in Workers |-> None]

Running(w, at) == task[w] # None /\ task[w].at = at
Continue(w, at) == task' = [task EXCEPT ![w].at = at]
Finish(w) == task' = [task EXCEPT ![w] = None]
Quiet == \A w \in Workers : task[w] = None

Start(w, t) ==
    /\ task[w] = None
    /\ task' = [task EXCEPT ![w] = t]
    /\ UNCHANGED <<alive, odometer, claims, doc, latest, processed>>

-----------------------------------------------------------------------------
\* ingest
StartIngest(w, m) ==
    /\ alive
    /\ doc[m] = "ABSENT"
    /\ \A x \in Workers : task[x] # None => task[x].msg # m
    /\ Start(w, [at |-> "store", msg |-> m, read |-> odometer])

\* The comparison is with the value read.
\* Mutant: it is not made
Raises_Always(t) == OdoOf[t.msg] # 0
Raises(t) == OdoOf[t.msg] > t.read

Store(w) ==
    /\ Running(w, "store")
    /\ doc' = [doc EXCEPT ![task[w].msg] = "STORED"]
    /\ claims' = claims \cup ({OdoOf[task[w].msg]} \ {0})
    /\ Continue(w, IF Raises(task[w]) THEN "odometer" ELSE "cache")
    /\ UNCHANGED <<alive, odometer, latest, processed>>

\* The write is by the vehicle's id, whatever it holds by then.
\* Mutant: the distance is added
NewOdometer_Sum(w) == odometer + OdoOf[task[w].msg]
NewOdometer(w) == OdoOf[task[w].msg]

WriteOdometer(w) ==
    /\ Running(w, "odometer")
    /\ odometer' = NewOdometer(w)
    /\ Continue(w, "cache")
    /\ UNCHANGED <<alive, claims, doc, latest, processed>>

CacheLatest(w) ==
    /\ Running(w, "cache")
    /\ latest' = task[w].msg
    /\ Continue(w, "emit")
    /\ UNCHANGED <<alive, odometer, claims, doc, processed>>

EmitProcessed(w) ==
    /\ Running(w, "emit")
    /\ processed' = Append(processed, task[w].msg)
    /\ Finish(w)
    /\ UNCHANGED <<alive, odometer, claims, doc, latest>>

-----------------------------------------------------------------------------
\* getLatest, when Redis has no entry: the newest document is cached
Stored == {m \in Messages : doc[m] = "STORED"}

StartLatest(w) ==
    /\ latest = None
    /\ \E m \in Stored :
          /\ \A n \in Stored : n <= m
          /\ Start(w, [at |-> "fill", msg |-> m, read |-> 0])

FillLatest(w) ==
    /\ Running(w, "fill")
    /\ latest' = task[w].msg
    /\ Finish(w)
    /\ UNCHANGED <<alive, odometer, claims, doc, processed>>

DeleteTelemetry(m) ==
    /\ doc[m] = "STORED"
    /\ doc' = [doc EXCEPT ![m] = "DELETED"]
    /\ UNCHANGED <<alive, odometer, claims, latest, processed, task>>

\* The key lives a day.
ExpireLatest ==
    /\ latest # None
    /\ latest' = None
    /\ UNCHANGED <<alive, odometer, claims, doc, processed, task>>

\* The vehicle service deletes the vehicle.
DeleteVehicle ==
    /\ alive
    /\ alive' = FALSE
    /\ UNCHANGED <<odometer, claims, doc, latest, processed, task>>

\* updateVehicle: the odometer of the call, whatever the row holds; the call may have
\* found the vehicle before it was deleted.
UpdateVehicle(n) ==
    /\ odometer' = n
    /\ claims' = {n}
    /\ UNCHANGED <<alive, doc, latest, processed, task>>

\* The next awaited statement rejects: ingestBulk and the subscriber log it.
Reject(w) ==
    /\ MayFail
    /\ task[w] # None
    /\ Finish(w)
    /\ UNCHANGED <<alive, odometer, claims, doc, latest, processed>>

Ingest(w) ==
    \/ \E m \in Messages : StartIngest(w, m)
    \/ Store(w) \/ WriteOdometer(w) \/ CacheLatest(w) \/ EmitProcessed(w)

Serve(w) == StartLatest(w) \/ FillLatest(w)

Next ==
    \/ \E w \in Workers : Ingest(w) \/ Serve(w) \/ Reject(w)
    \/ \E m \in Messages : DeleteTelemetry(m)
    \/ \E n \in Odometers : UpdateVehicle(n)
    \/ ExpireLatest \/ DeleteVehicle

Spec == Init /\ [][Next]_vars
-----------------------------------------------------------------------------
\* However messages and updates overlap: what is cached or announced has been stored
\* before, and the vehicle's odometer was entered last or is one a stored message reported.
ProcessedIsStored ==
    /\ latest # None => doc[latest] # "ABSENT"
    /\ \A i \in DOMAIN processed : doc[processed[i]] # "ABSENT"
    /\ odometer \in claims \/ \E m \in Messages : doc[m] # "ABSENT" /\ OdoOf[m] = odometer

\* "Update Vehicle Odometer if greater", telemetry.service.ts:78.  Of messages and updates
\* that do not overlap: the odometer is the highest of the one entered last and those
\* reported since, neither behind a message nor ahead of all.
Highest(n) == n \in claims /\ \A c \in claims : c <= n
HighestAtRest == Quiet => Highest(odometer)

\* Of messages that do not overlap, the last announced is the cached one, while
\* the key lives.
LatestAtRest ==
    Quiet /\ processed # <<>> => latest = processed[Len(processed)]
=============================================================================
