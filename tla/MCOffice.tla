------------------------------ MODULE MCOffice ------------------------------
(***************************************************************************)
(* Model checking of Office, and of the calculations.  The services share  *)
(* no state but the reports the audit service takes, so each behaviour is  *)
(* about one of them: its scene.  A calculation is a behaviour of one      *)
(* state, with the input as its scene.                                     *)
(***************************************************************************)
EXTENDS Office, FiniteSets, SequencesExt

VARIABLE scene

C == INSTANCE Calculations

-----------------------------------------------------------------------------
Scene(part, calls) == [part |-> part, calls |-> calls, input |-> <<>>]

\* Bound: the calls that a behaviour mixes
AccountCalls ==
    {{"createUser", "login", "forgot", "reset"}, {"createUser", "login", "change", "delete"},
     {"createUser", "login", "logout", "refresh"}, {"createUser", "login", "refresh", "delete"},
     {"createUser", "login", "update", "delete"}, {"createUser", "update", "delete"},
     {"register", "verify", "resend"}}

VINs == {<<"1", "H", "G", "C", "M", "8", "2", "6", "3", "3", "A", "0", "0", "4", "3", "5", "2">>,
         <<"1", "M", "8", "G", "D", "M", "9", "A", "X", "K", "P", "0", "4", "2", "7", "8", "8">>}

Grid == (0 .. 2) \X (0 .. 2)
Severities == {"CRITICAL", "HIGH", "MEDIUM", "LOW"}
Faults == DOMAIN C!Deduction
Events == {"HARSH_BRAKING", "OVERSPEED", "DOOR_OPEN_MOVING", "LONG_IDLING", "HIGH_RPM"}

Calculate(input) ==
    scene = [part |-> "calculations", calls |-> {}, input |-> input]

\* The inputs of the calculations; each names its own.
Calculation ==
    \/ \E v \in VINs, i \in 1 .. 17, c \in C!Letters : Calculate(<<"vin", v, i, c>>)
    \/ \E p \in Grid, a \in Grid, b \in Grid, c \in Grid, d \in {<<0, 0>>, <<1, 2>>} :
          Calculate(<<"polygon", p, a, b, c, d>>)
    \/ \E f \in SUBSET Faults, d \in SeqOf(Severities, 1), x \in Faults, s \in {"CRITICAL", "LOW"} :
          Calculate(<<"health", f, d, x, s>>)
    \/ \E e \in SeqOf(Events, 3) : Calculate(<<"driver", e>>)
    \/ \E e \in SeqOf(Events, 2) \ {<<>>}, n \in 5 .. 30 :
          Calculate(<<"driver", [i \in 1 .. n |-> e[(i % Len(e)) + 1]]>>)
    \/ \E n \in 0 .. 23, s \in 0 .. 23, e \in 0 .. 23 : Calculate(<<"quiet", n, s, e>>)
    \/ \E h \in SeqOf({45, 122}, 8), p \in {0, 1, 37, 98, 99} : Calculate(<<"rollout", h, p>>)
    \/ \E n \in 1 .. 6, b \in {100, 1000, 3000}, m \in {1000, 10000} :
          Calculate(<<"retry", n, b, m>>)
    \/ \E n \in 0 .. 25, l \in 1 .. 10 : Calculate(<<"pages", n, l>>)

MCInit ==
    /\ OfficeInit
    /\ \/ /\ mode # "sound"
          /\ \/ \E c \in AccountCalls : scene = Scene("accounts", c)
             \/ \E c \in {"metadata", "statistics"} : scene = Scene("fleets", {c})
             \/ \E c \in {"setting", "flag", "integration"} : scene = Scene("admin", {c})
             \/ scene = Scene("breaker", {})
       \/ mode # "alone" /\ \E c \in {"report", "audit"} : scene = Scene("reports", {c})
       \/ \E c \in {"rollup", "dashboard"} : scene = Scene("analytics", {c})
       \/ mode = "any" /\ Calculation
    /\ administered = (scene.part = "accounts" /\ "update" \in scene.calls)

-----------------------------------------------------------------------------
\* An update together with logins keeps the roles and does not lock the account.
AccountScene ==
    /\ scene.part = "accounts"
    /\ AccountStep
    /\ \A w \in Workers : task'[w] # None =>
          /\ task'[w].call \in scene.calls
          /\ task'[w].call = "update" /\ "login" \in scene.calls =>
                task'[w].status \in {"ACTIVE", None} /\ task'[w].roles = {}

\* Bound: statistics are not mixed with metadata, nor three statuses
FleetScene ==
    /\ scene.part = "fleets"
    /\ FleetStep
    /\ \A w \in Workers : fleetTask'[w] # None =>
          /\ fleetTask'[w].status \in {"ACTIVE", "INACTIVE", None}
          /\ IF "statistics" \in scene.calls
             THEN fleetTask'[w].metadata = {} ELSE fleetTask'[w].at # "count"

\* Bound: settings, flags and the rest are not mixed.
AdminScene ==
    /\ scene.part = "admin"
    /\ AdminStep
    /\ "setting" \notin scene.calls => UNCHANGED <<settings, cachedSettings>>
    /\ "flag" \notin scene.calls => UNCHANGED <<flag, versions, cachedFlag>>
    /\ "integration" \notin scene.calls => UNCHANGED <<key, webhook>>
    /\ \A w \in Workers : adminTask'[w] # None =>
          LET topic == adminTask'[w].topic IN
          scene.calls = {CASE topic = "SETTING" -> "setting" [] topic = "FLAG" -> "flag"
                           [] OTHER -> "integration"}

\* Bound: with the audit service go the daily reports only.
ReportScene ==
    /\ scene.part = "reports"
    /\ \/ /\ ReportStep
          /\ "audit" \in scene.calls =>
                \A w \in Workers : reportTask'[w] # None =>
                    reportTask'[w].at \in {"daily", "file", "tellDaily"}
       \/ "audit" \in scene.calls /\ AuditStep

\* Bound: fleets are not added while vehicles are.
StatScene ==
    /\ scene.part = "analytics"
    /\ StatStep
    /\ IF "rollup" \in scene.calls THEN UNCHANGED <<total, active>> ELSE UNCHANGED fleets

MCNext ==
    /\ \/ AccountScene \/ FleetScene \/ AdminScene \/ ReportScene \/ StatScene
       \/ scene.part = "breaker" /\ BreakerStep
    /\ UNCHANGED scene

MCSpec == MCInit /\ [][MCNext]_<<officeVars, scene>>

Symmetry ==
    Permutations(Workers) \cup Permutations(Passwords) \cup Permutations(Sessions)
      \cup Permutations(Rows) \cup Permutations(FleetIds)
-----------------------------------------------------------------------------
\* The calculations agree with their references.
Agrees(i) ==
    CASE i[1] = "vin" -> C!VinDetects(i[2], i[3], i[4])
      [] i[1] = "polygon" -> C!PolygonIsRight(i[2], i[3], i[4], i[5], i[6])
      [] i[1] = "health" -> C!HealthIsMonotone(i[2], i[3], i[4], i[5])
      [] i[1] = "driver" -> C!DriverScoreIsSum(i[2])
      [] i[1] = "quiet" -> C!QuietIsInterval(i[2], i[3], i[4])
      [] i[1] = "rollout" -> C!RolloutIsMonotone(i[2], i[3])
      [] i[1] = "retry" -> C!DelayIsBounded(i[2], i[3], i[4])
      [] i[1] = "pages" -> C!PagesCover(i[2], i[3])

CalculationsAgree == scene.part = "calculations" => Agrees(scene.input)
=============================================================================
