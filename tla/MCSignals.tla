------------------------------ MODULE MCSignals ------------------------------
(***************************************************************************)
(* Model checking of Signals.  The services that take the messages of      *)
(* vis.telemetry.processed share no state but that topic, so a behaviour   *)
(* is about the telemetry service, about it and one of its consumers, or   *)
(* about the notification service: its scene.                              *)
(***************************************************************************)
EXTENDS Signals, TLC

CONSTANTS City, Depot  \* the fences, the second one inside the first

VARIABLE scene

Grounds == {City, Depot}

\* The vehicle is in the depot, on the road, in the city, and in the depot again.
Way == [m \in Messages |-> CASE m = 2 -> {} [] m = 3 -> {City} [] OTHER -> Grounds]
Kilometres == [m \in Messages |-> (m * 2) % 3]
Troubles == [m \in Messages |-> IF m < 3 THEN <<CHOOSE c \in Codes : TRUE>> ELSE <<>>]

-----------------------------------------------------------------------------
\* Bound: which messages, and which fences, a behaviour has to do with
Scene(part, messages, fences) == [part |-> part, messages |-> messages, fences |-> fences]

DisturbedScenes ==
    {Scene("location", messages, {City}) : messages \in {1 .. 1, 1 .. 2}}
      \cup {Scene("diagnostics", 1 .. 2, {})}
      \cup {Scene("notifications", messages, {}) : messages \in {{}, {1}, {2}}}
      \cup {Scene("driver", messages, {}) : messages \in {1 .. 1, 1 .. 2}}
      \cup {Scene("telemetry", 1 .. 2, {})}

AloneScenes ==
    {Scene("location", 1 .. 2, Fences), Scene("location", 1 .. 4, {City})}
      \cup {Scene(p, 1 .. 3, {}) : p \in {"telemetry", "diagnostics", "driver", "notifications"}}

MCInit ==
    /\ SignalsInit
    /\ scene \in IF alone THEN AloneScenes ELSE DisturbedScenes
    /\ scene.part # "telemetry" => odometer = 0

\* With a consumer, the telemetry service ingests one message at a time.
TelemetryScene ==
    /\ scene.part # "notifications"
    /\ TelemetryStep
    /\ \A w \in Workers : telemetryTask'[w] # None => telemetryTask'[w].msg \in scene.messages
    /\ scene.part # "telemetry" =>
          (\E w \in Workers : T!Ingest(w)) /\ OneBusy(telemetryTask')

LocationScene ==
    /\ scene.part = "location"
    /\ LocationStep
    /\ \A f \in Fences \ scene.fences : fence'[f] = "NEW"

\* Bound: with two messages, the driver may be taken off the vehicle only
DriverScene ==
    /\ scene.part = "driver"
    /\ DriverStep
    /\ ~alone /\ scene.messages # 1 .. 1 => driver' \in {driver, None}

\* Bound: where calls overlap, either alerts or calls create notifications, and calls
\* create one
NotificationScene ==
    /\ scene.part = "notifications"
    /\ NotificationStep
    /\ alerts' # alerts =>
          alerts'[Len(alerts')] \in scene.messages \ {alerts[i] : i \in DOMAIN alerts}
    /\ scene.messages = {} => Len(note') <= 1
    /\ ~alone /\ scene.messages # {} =>
          \A w \in Workers : noteTask'[w] # None /\ noteTask'[w].msg = 0 =>
              noteTask'[w].at \in {"read", "delete"}

\* Bound: of two messages of the vehicle, the first is delivered again
MCNext ==
    /\ \/ TelemetryScene \/ LocationScene \/ DriverScene \/ NotificationScene
       \/ scene.part = "diagnostics" /\ DiagnosticsStep
    /\ again' \cup diagnosticsAgain' \cup driverAgain' \subseteq {1}
    /\ UNCHANGED scene

MCSpec == MCInit /\ [][MCNext]_<<signalsVars, scene>>

Symmetry == Permutations(Workers) \cup Permutations(Drivers)
=============================================================================
