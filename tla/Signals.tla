------------------------------- MODULE Signals -------------------------------
(***************************************************************************)
(* What becomes of the messages of one vehicle.  The telemetry service     *)
(* announces each on vis.telemetry.processed; the location, diagnostics    *)
(* and driver behaviour services take it from there, each with offsets of  *)
(* its own.  The notification service takes the alerts of other topics.    *)
(* They share the topic and nothing else.                                  *)
(***************************************************************************)
EXTENDS LocationTracking

CONSTANTS
    OdoOf, Odometers,            \* TelemetryIngest
    Codes, CodesOf, Faulty,      \* Diagnostics
    Drivers, Speeding, Window,   \* DriverBehaviour
    Alerts, Ignored, ToUser, MaxNotes  \* Notifications

\* alone is chosen once: TRUE in the behaviours in which each service handles one
\* thing at a time, in the order of its topic, nothing fails, the driver stays, the
\* vehicle is updated only between two messages, and the keys that every message
\* renews (latest telemetry, location, health) are renewed in time.  The flag of a
\* fence, which no message renews, expires in all behaviours.
VARIABLES
    alone,
    alive, odometer, claims, doc, latest, telemetryTask,
    dtc, logged, told, health, advised, updates, diagnosticsTaken, diagnosticsAgain,
    diagnosticsTask,
    driver, recorded, detected, risks, score, cachedScore, scored, driverTaken, driverAgain,
    driverTask,
    alerts, note, announced, noteTaken, noteAgain, noteTask

telemetryVars == <<alive, odometer, claims, doc, latest, telemetryTask>>
locationVars == <<delivery, store, crossings, updated>>
diagnosticsVars == <<dtc, logged, told, health, advised, updates,
                     diagnosticsTaken, diagnosticsAgain, diagnosticsTask>>
driverVars == <<driver, recorded, detected, risks, score, cachedScore, scored,
                driverTaken, driverAgain, driverTask>>
noteVars == <<alerts, note, announced, noteTaken, noteAgain, noteTask>>
signalsVars == <<alone, inbox, telemetryVars, locationVars, diagnosticsVars, driverVars,
                 noteVars>>

T == INSTANCE TelemetryIngest WITH processed <- inbox, task <- telemetryTask
D == INSTANCE Diagnostics WITH
        taken <- diagnosticsTaken, again <- diagnosticsAgain, task <- diagnosticsTask
B == INSTANCE DriverBehaviour WITH
        cached <- cachedScore, taken <- driverTaken, again <- driverAgain, task <- driverTask
N == INSTANCE Notifications WITH
        Messages <- Alerts, inbox <- alerts, taken <- noteTaken, again <- noteAgain,
        task <- noteTask

ASSUME SignalsAssumption ==
    /\ T!TelemetryAssumption /\ D!DiagnosticsAssumption
    /\ B!BehaviourAssumption /\ N!NotificationsAssumption

\* None stands for no task, no row and no score.
ASSUME PlaceholderAssumption ==
    /\ None \notin T!Task /\ None \notin D!Task /\ None \notin B!Task /\ None \notin N!Task
    /\ None \notin Nat

-----------------------------------------------------------------------------
SignalsInit ==
    /\ alone \in BOOLEAN
    /\ Init /\ T!Init /\ D!Init /\ B!Init /\ N!Init

\* The calls of one worker at most, and the messages in their order
OneBusy(t) == \A w, x \in Workers : t[w] # None /\ t[x] # None => w = x
InOrder(places) == \A i \in places : 1 .. i \subseteq places

TelemetryStep ==
    /\ \/ \E w \in Workers : T!Ingest(w) \/ T!Serve(w) \/ (~alone /\ T!Reject(w))
       \/ \E m \in Messages : T!DeleteTelemetry(m)
       \/ T!DeleteVehicle
       \/ (alone => T!Quiet) /\ \E n \in Odometers : T!UpdateVehicle(n)
       \/ ~alone /\ T!ExpireLatest
    /\ alone => OneBusy(telemetryTask')
    /\ UNCHANGED <<alone, locationVars, diagnosticsVars, driverVars, noteVars>>

LocationStep ==
    /\ \/ \E w \in Workers : Handle(w) \/ Serve(w) \/ (~alone /\ Fail(w))
       \/ Manage
       \/ \E f \in Fences : Outlive(f)
       \/ ~alone /\ (Lapse \/ \E i \in taken : Recommit(i))
    /\ alone => OneBusy(task') /\ InOrder(taken')
    /\ UNCHANGED <<alone, telemetryVars, diagnosticsVars, driverVars, noteVars>>

DiagnosticsStep ==
    /\ \/ \E w \in Workers : D!Handle(w) \/ (~alone /\ D!Fail(w))
       \/ ~alone /\ (D!ExpireHealth \/ \E i \in diagnosticsTaken : D!Recommit(i))
    /\ alone => OneBusy(diagnosticsTask') /\ InOrder(diagnosticsTaken')
    /\ UNCHANGED <<alone, telemetryVars, locationVars, driverVars, noteVars>>

DriverStep ==
    /\ \/ \E w \in Workers : B!Handle(w) \/ B!Serve(w) \/ (~alone /\ B!Fail(w))
       \/ \E d \in Drivers : B!ExpireScore(d)
       \/ ~alone /\ \/ \E d \in B!Anyone : B!Reassign(d)
                    \/ \E i \in driverTaken : B!Recommit(i)
    /\ alone => OneBusy(driverTask') /\ InOrder(driverTaken')
    /\ UNCHANGED <<alone, telemetryVars, locationVars, diagnosticsVars, noteVars>>

NotificationStep ==
    /\ \/ \E w \in Workers :
             N!Handle(w) \/ N!Serve(w) \/ (~alone /\ (N!Caught(w) \/ N!Fail(w)))
       \/ \E i \in DOMAIN alerts : N!Ignore(i)
       \/ ~alone /\ \E i \in noteTaken : N!Recommit(i)
       \/ \E m \in Alerts : N!Arrive(m)
    /\ alone => OneBusy(noteTask') /\ InOrder(noteTaken')
    /\ UNCHANGED <<alone, inbox, telemetryVars, locationVars, diagnosticsVars, driverVars>>

SignalsNext ==
    \/ TelemetryStep \/ LocationStep \/ DiagnosticsStep \/ DriverStep \/ NotificationStep

SignalsSpec == SignalsInit /\ [][SignalsNext]_signalsVars
-----------------------------------------------------------------------------
\* The states are what the modules say they are.
Types ==
    /\ alone \in BOOLEAN
    /\ T!TypeOK /\ TypeOK /\ D!TypeOK /\ B!TypeOK /\ N!TypeOK

\* However messages, replicas and failures interleave: what is cached, counted or
\* announced was stored, alerts are noted once, and no service has a position or an
\* advice of a message that the telemetry service has not stored before.
RecordsAreGrounded ==
    /\ T!ProcessedIsStored
    /\ \A m \in points \cup advised : doc[m] # "ABSENT"
    /\ D!DetectionsAreCounted /\ D!HealthIsGrounded
    /\ B!ScoreIsGrounded
    /\ N!AnnouncedIsRecorded /\ N!AlertIsNotedOnce

\* Of a vehicle whose messages are taken one at a time, the crossings of a fence
\* alternate, but for an entry after an expiry: the step of GeofenceCrossing.
CrossingsAlternate == [][alone => Crossing!Next]_<<crossings, lapsed>>

\* Messages ingested and updates made one at a time leave the highest odometer.
OdometerKeepsUp == alone => T!HighestAtRest

\* Where messages are taken in order, one at a time and without failures, each
\* service keeps what its documentation says, and once all have been taken, the
\* location in Redis is that of the latest telemetry there.
InOrderAgrees ==
    alone =>
        /\ T!LatestAtRest
        /\ FlagIsTold
        /\ T!Quiet /\ Quiet /\ taken = DOMAIN inbox => cached = latest
        /\ D!OneRowPerCode /\ D!HealthIsCurrent
        /\ B!ScoreIsCurrent
        /\ N!AlertsAreSettled
=============================================================================
