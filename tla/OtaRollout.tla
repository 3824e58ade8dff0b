----------------------------- MODULE OtaRollout -----------------------------
(***************************************************************************)
(* The OTA service: apps/ota-service/src/ota.                              *)
(*                                                                         *)
(* deployCampaign writes the campaign, one deployment per vehicle, one     *)
(* MQTT manifest per vehicle and a Kafka event, each awaited.  The         *)
(* vehicles' status messages on vehicle/<id>/ota/status are handled by     *)
(* updateDeploymentStatus, which writes the deployment, the campaign's     *)
(* counters, the vehicle and Kafka, each awaited and without a             *)
(* transaction.  The MQTT handler is not awaited, so invocations overlap.  *)
(*                                                                         *)
(* One action is one awaited statement.  Statements name their row by its  *)
(* id; one whose row is gone rejects and ends the invocation.              *)
(***************************************************************************)
EXTENDS Integers, Sequences, FiniteSets

CONSTANTS
    Versions,     \* firmware versions
    Campaigns,
    FirmwareOf,   \* FirmwareOf[c]: the version campaign c is created for
    Vehicles,
    Deployments,  \* bound: the deployment rows that can be created
    Workers,      \* bound: how many invocations may be in flight
    Phases,       \* the statuses a vehicle reports, in this order, before it ends
    MaxUpdates,   \* bound: no outcome is handled of a campaign that has counted so many
    Entered,      \* bound: the versions clients enter by hand
    MayFail,      \* whether awaited calls may reject and the process may die
    None          \* no row, no version, no task

OtaStatus == {"PENDING", "DOWNLOADING", "INSTALLING", "REBOOTING", "VERIFYING",
              "COMPLETED", "FAILED", "CANCELLED", "ROLLED_BACK"}

ASSUME RolloutAssumption ==
    /\ FirmwareOf \in [Campaigns -> Versions]
    /\ IsFiniteSet(Vehicles) /\ IsFiniteSet(Deployments) /\ IsFiniteSet(Workers)
    /\ Phases \in Seq(OtaStatus \ {"PENDING", "COMPLETED", "FAILED"})
    /\ MaxUpdates \in Nat
    /\ MayFail \in BOOLEAN
    /\ \A S \in {Versions, Entered, Campaigns, Vehicles, Deployments} : None \notin S

VARIABLES
    released,    \* the versions that have a firmwares row
    campaign,    \* ota_campaigns.status, "ABSENT" while there is no row
    total,       \* ota_campaigns.totalVehicles
    succeeded,   \* ota_campaigns.successfulUpdates
    failed,      \* ota_campaigns.failedUpdates
    deployment,  \* ota_deployments rows, None before they are created
    installed,   \* vehicles.firmwareVersion
    byHand,      \* history: the vehicles whose version was last entered by a client
    manifests,   \* the manifests on vehicle/<id>/ota
    copies,      \* history: how many manifests went out for the campaign
    reports,     \* the status messages vehicles have sent: may arrive repeatedly
    task,        \* the invocation each worker is running
    events       \* messages on the Kafka topics

campaignRows == <<campaign, total, succeeded, failed>>
version == <<installed, byHand>>
rows == <<released, campaignRows, deployment, version>>
wire == <<manifests, copies, reports>>
vars == <<rows, wire, task, events>>

\* "DRAFT" is SCHEDULED as well: nothing acts on the schedule or tells the two apart.
\* "DELETED": gone with its firmware (onDelete: Cascade), and not created again
CampaignStatus == {"ABSENT", "DRAFT", "ACTIVE", "DELETED"}

Outcome == {"COMPLETED", "FAILED"}
PhaseSet == {Phases[i] : i \in DOMAIN Phases}
Report == PhaseSet \cup Outcome

\* stamps: the columns of startedAt and completedAt that hold a value
Deployment == [camp : Campaigns, veh : Vehicles, status : OtaStatus \cup {"DELETED"},
               stamps : SUBSET {"startedAt", "completedAt"}]

\* deployCampaign for the vehicles listed in all, a vehicle as often as the request
\* names it; done entries of the list are behind its current loop.
DeployTask == [op : {"deploy"}, at : {"activate", "create", "publish", "emit"},
               camp : Campaigns, all : Seq(Vehicles), done : Nat]

\* updateDeploymentStatus of row dep; camp and veh are what it read of the row.
ReportTask == [op : {"report"}, at : {"row", "count", "version", "installed", "emit"},
               dep : Deployments, camp : Campaigns, veh : Vehicles, status : Report]

ASSUME NoneAssumption == None \notin Deployment \cup DeployTask \cup ReportTask

\* dep stands for the row the event is about; the payload has no deployment id.
Event ==
    [topic : {"OTA_STARTED"}, camp : Campaigns, vehicles : Nat]
    \cup [topic : {"FIRMWARE_INSTALLED", "OTA_COMPLETED", "OTA_FAILED"},
          dep : Deployments, camp : Campaigns, veh : Vehicles]

TypeOK ==
    /\ released \subseteq Versions
    /\ campaign \in [Campaigns -> CampaignStatus]
    /\ {total, succeeded, failed} \subseteq [Campaigns -> Nat]
    /\ deployment \in [Deployments -> Deployment \cup {None}]
    /\ installed \in [Vehicles -> Versions \cup Entered \cup {None}]
    /\ byHand \subseteq Vehicles
    /\ manifests \subseteq Vehicles \X Campaigns
    /\ copies \in [Campaigns -> Nat]
    /\ reports \subseteq Deployments \X Report
    /\ task \in [Workers -> DeployTask \cup ReportTask \cup {None}]
    /\ events \subseteq Event

Init ==
    /\ released = {}
    /\ campaign = [c \in Campaigns |-> "ABSENT"]
    /\ total = [c \in Campaigns |-> 0]
    /\ succeeded = [c \in Campaigns |-> 0]
    /\ failed = [c \in Campaigns |-> 0]
    /\ deployment = [d \in Deployments |-> None]
    /\ installed = [v \in Vehicles |-> None]
    /\ byHand = {}
    /\ manifests = {}
    /\ copies = [c \in Campaigns |-> 0]
    /\ reports = {}
    /\ task = [w \in Workers |-> None]
    /\ events = {}

-----------------------------------------------------------------------------
\* Firmware and campaigns

CreateFirmware(f) ==
    /\ f \notin released
    /\ released' = released \cup {f}
    /\ UNCHANGED <<campaignRows, deployment, version, wire, task, events>>

\* The row goes, and by its foreign keys the campaigns and deployments do
DeleteFirmware(f) ==
    LET gone == {c \in Campaigns : FirmwareOf[c] = f /\ campaign[c] # "ABSENT"} IN
    /\ f \in released
    /\ released' = released \ {f}
    /\ campaign' = [c \in Campaigns |-> IF c \in gone THEN "DELETED" ELSE campaign[c]]
    /\ deployment' = [d \in Deployments |->
                         IF deployment[d] # None /\ deployment[d].camp \in gone
                         THEN [deployment[d] EXCEPT !.status = "DELETED"]
                         ELSE deployment[d]]
    /\ UNCHANGED <<total, succeeded, failed, version, wire, task, events>>

CreateCampaign(c) ==
    /\ campaign[c] = "ABSENT"
    /\ FirmwareOf[c] \in released
    /\ campaign' = [campaign EXCEPT ![c] = "DRAFT"]
    /\ UNCHANGED <<released, total, succeeded, failed, deployment, version,
                   wire, task, events>>

Live(c) == campaign[c] \notin {"ABSENT", "DELETED"}
Exists(d) == deployment[d] # None /\ deployment[d].status # "DELETED"

\* executeRollback and updateVehicle: by hand only, any version there is or was not,
\* whatever the vehicle is doing
EnterVersion(v, f) ==
    /\ installed' = [installed EXCEPT ![v] = f]
    /\ byHand' = byHand \cup {v}
    /\ UNCHANGED <<released, campaignRows, deployment, wire, task, events>>

-----------------------------------------------------------------------------
\* How an invocation goes on

Running(w, op, at) == task[w] # None /\ task[w].op = op /\ task[w].at = at
Continue(w, at) == task' = [task EXCEPT ![w].at = at]
Finish(w) == task' = [task EXCEPT ![w] = None]

\* The next awaited call rejects, or the process dies: nothing is undone.
Abort(w) ==
    /\ MayFail
    /\ task[w] # None
    /\ Finish(w)
    /\ UNCHANGED <<rows, wire, events>>

\* A statement about the campaign's row, or referring to it, finds no row.
Reject(w) ==
    /\ \/ \E at \in {"activate", "create"} : Running(w, "deploy", at) /\ ~Live(task[w].camp)
       \/ Running(w, "report", "row") /\ ~Exists(task[w].dep)
       \/ Running(w, "report", "count") /\ ~Live(task[w].camp)
    /\ Finish(w)
    /\ UNCHANGED <<rows, wire, events>>

-----------------------------------------------------------------------------
\* deployCampaign, for a campaign of any status and any vehicles

\* bound: a list for which there are deployment rows
Targets == UNION {[1 .. n -> Vehicles] : n \in 1 .. Cardinality(Deployments)}

StartDeploy(w, c, all) ==
    /\ task[w] = None
    /\ Live(c)
    /\ Len(all) <= Cardinality({d \in Deployments : deployment[d] = None})  \* bound
    /\ task' = [task EXCEPT ![w] = [op |-> "deploy", at |-> "activate", camp |-> c,
                                     all |-> all, done |-> 0]]
    /\ UNCHANGED <<rows, wire, events>>

Activate(w) ==
    /\ Running(w, "deploy", "activate")
    /\ Live(task[w].camp)
    /\ campaign' = [campaign EXCEPT ![task[w].camp] = "ACTIVE"]
    /\ total' = [total EXCEPT ![task[w].camp] = Len(task[w].all)]
    /\ Continue(w, "create")
    /\ UNCHANGED <<released, succeeded, failed, deployment, version, wire, events>>

LastVehicle(w) == task[w].done + 1 = Len(task[w].all)

\* Mutant: the second loop starts where the first has ended
NextVehicle_Spent(w, at, next) ==
    task' = [task EXCEPT ![w].at = IF LastVehicle(w) THEN next ELSE at,
                         ![w].done = @ + 1]

\* One more entry is behind the loop at; then comes the next entry, or the next loop
NextVehicle(w, at, next) ==
    task' = [task EXCEPT ![w].at = IF LastVehicle(w) THEN next ELSE at,
                         ![w].done = IF LastVehicle(w) THEN 0 ELSE @ + 1]

\* The entry whose turn it is
InTurn(w, v) == task[w].done < Len(task[w].all) /\ v = task[w].all[task[w].done + 1]

AfterCreate == "publish"

CreateDeployment(w, v, d) ==
    /\ Running(w, "deploy", "create")
    /\ InTurn(w, v)
    /\ Live(task[w].camp)
    /\ deployment[d] = None
    /\ deployment' = [deployment EXCEPT ![d] =
                         [camp |-> task[w].camp, veh |-> v, status |-> "PENDING", stamps |-> {}]]
    /\ NextVehicle(w, "create", AfterCreate)
    /\ UNCHANGED <<released, campaignRows, version, wire, events>>

SendManifest(w, v) ==
    /\ Running(w, "deploy", "publish")
    /\ InTurn(w, v)
    /\ manifests' = manifests \cup {<<v, task[w].camp>>}
    /\ copies' = [copies EXCEPT ![task[w].camp] = @ + 1]
    /\ NextVehicle(w, "publish", "emit")
    /\ UNCHANGED <<rows, reports, events>>

EmitStarted(w) ==
    /\ Running(w, "deploy", "emit")
    /\ events' = events \cup {[topic |-> "OTA_STARTED", camp |-> task[w].camp,
                               vehicles |-> Len(task[w].all)]}
    /\ Finish(w)
    /\ UNCHANGED <<rows, wire>>

-----------------------------------------------------------------------------
\* The vehicles' status messages, and updateDeploymentStatus

Ended(d) == \E st \in Outcome : <<d, st>> \in reports

\* A vehicle that has the manifest goes through the phases and completes, or fails.
VehicleReports(d, st) ==
    /\ deployment[d] # None
    /\ <<deployment[d].veh, deployment[d].camp>> \in manifests
    /\ ~Ended(d)
    /\ \/ st = "FAILED"
       \/ st = "COMPLETED" /\ \A p \in PhaseSet : <<d, p>> \in reports
       \/ \E i \in DOMAIN Phases :
             st = Phases[i] /\ \A j \in 1 .. (i - 1) : <<d, Phases[j]>> \in reports
    /\ reports' = reports \cup {<<d, st>>}
    /\ UNCHANGED <<rows, manifests, copies, task, events>>

\* A message arrives, perhaps again: findUnique finds its row
StartReport(w, d, st) ==
    /\ task[w] = None
    /\ <<d, st>> \in reports
    /\ Exists(d)
    /\ st \in Outcome =>
          succeeded[deployment[d].camp] + failed[deployment[d].camp] < MaxUpdates
    /\ task' = [task EXCEPT ![w] =
                   [op |-> "report", at |-> "row", dep |-> d, camp |-> deployment[d].camp,
                    veh |-> deployment[d].veh, status |-> st]]
    /\ UNCHANGED <<rows, wire, events>>

\* Mutant: completedAt is set by every outcome, and startedAt by every phase
StampsOf_Any(st) == IF st \in Outcome THEN {"completedAt"} ELSE {"startedAt"}
StampsOf(st) == CASE st = "DOWNLOADING" -> {"startedAt"}
                  [] st = "COMPLETED"   -> {"completedAt"}
                  [] OTHER              -> {}

\* Mutant: the other column is cleared (null where the code has undefined)
KeepStamps_Null(d, st) == StampsOf(st)
KeepStamps(d, st) == deployment[d].stamps \cup StampsOf(st)

UpdateRow(w) ==
    /\ Running(w, "report", "row")
    /\ Exists(task[w].dep)
    /\ deployment' = [deployment EXCEPT
                         ![task[w].dep].status = task[w].status,
                         ![task[w].dep].stamps = KeepStamps(task[w].dep, task[w].status)]
    /\ IF task[w].status \in Outcome THEN Continue(w, "count") ELSE Finish(w)
    /\ UNCHANGED <<released, campaignRows, version, wire, events>>

\* Mutant: only the first update of a campaign is counted
Increment_Once(n) == 1
Increment(n) == n + 1

AfterCount(st) == IF st = "COMPLETED" THEN "version" ELSE "emit"

CountUpdate(w) ==
    /\ Running(w, "report", "count")
    /\ Live(task[w].camp)
    /\ IF task[w].status = "COMPLETED"
       THEN succeeded' = [succeeded EXCEPT ![task[w].camp] = Increment(@)] /\ UNCHANGED failed
       ELSE failed' = [failed EXCEPT ![task[w].camp] = Increment(@)] /\ UNCHANGED succeeded
    /\ Continue(w, AfterCount(task[w].status))
    /\ UNCHANGED <<released, campaign, total, deployment, version, wire, events>>

RecordVersion(w) ==
    /\ Running(w, "report", "version")
    /\ installed' = [installed EXCEPT ![task[w].veh] = FirmwareOf[task[w].camp]]
    /\ byHand' = byHand \ {task[w].veh}
    /\ Continue(w, "installed")
    /\ UNCHANGED <<released, campaignRows, deployment, wire, events>>

Emit(w, topic) ==
    events' = events \cup {[topic |-> topic, dep |-> task[w].dep,
                            camp |-> task[w].camp, veh |-> task[w].veh]}

EmitInstalled(w) ==
    /\ Running(w, "report", "installed")
    /\ Emit(w, "FIRMWARE_INSTALLED")
    /\ Continue(w, "emit")
    /\ UNCHANGED <<rows, wire>>

\* Mutant: the status is taken for the topic
TopicOf_Raw(st) == st
TopicOf(st) == IF st = "COMPLETED" THEN "OTA_COMPLETED" ELSE "OTA_FAILED"

EmitOutcome(w) ==
    /\ Running(w, "report", "emit")
    /\ Emit(w, TopicOf(task[w].status))
    /\ Finish(w)
    /\ UNCHANGED <<rows, wire>>

-----------------------------------------------------------------------------
Request(w) ==
    \/ \E c \in Campaigns, all \in Targets : StartDeploy(w, c, all)
    \/ \E d \in Deployments, st \in Report : StartReport(w, d, st)

TaskStep(w) ==
    \/ Activate(w)
    \/ \E v \in Vehicles, d \in Deployments : CreateDeployment(w, v, d)
    \/ \E v \in Vehicles : SendManifest(w, v)
    \/ EmitStarted(w)
    \/ UpdateRow(w) \/ CountUpdate(w) \/ RecordVersion(w)
    \/ EmitInstalled(w) \/ EmitOutcome(w)
    \/ Reject(w)

Next ==
    \/ \E f \in Versions : CreateFirmware(f) \/ DeleteFirmware(f)
    \/ \E c \in Campaigns : CreateCampaign(c)
    \/ \E v \in Vehicles, f \in Entered : EnterVersion(v, f)
    \/ \E d \in Deployments, st \in Report : VehicleReports(d, st)
    \/ \E w \in Workers : Request(w) \/ TaskStep(w) \/ Abort(w)

Spec == Init /\ [][Next]_vars

\* An awaited call settles; nobody owes a request, a report or its delivery (the
\* subscription to vehicle/+/ota/status has no QoS).
Fairness == \A w \in Workers : WF_vars(TaskStep(w))

FairSpec == Spec /\ Fairness
-----------------------------------------------------------------------------
\* Properties

RowsOf(c) == {d \in Deployments : deployment[d] # None /\ deployment[d].camp = c}

\* A manifest is on the wire only once every deployment of its deployCampaign call
\* has a row, so a vehicle that acts on it finds the row its reports are about;
\* deleting the firmware meanwhile is the one exception.
ManifestIsRecorded ==
    \A m \in manifests :
        /\ campaign[m[2]] \in {"ACTIVE", "DELETED"}
        /\ \E d \in RowsOf(m[2]) : deployment[d].veh = m[1]

\* OTA_STARTED counts no more than the campaign's deployment rows and the manifests
\* that went out for it, one of each for every entry of the list.
StartedIsSent ==
    \A e \in events : e.topic = "OTA_STARTED" =>
        e.vehicles <= Cardinality(RowsOf(e.camp)) /\ e.vehicles <= copies[e.camp]

\* The version recorded of a vehicle is one a campaign has installed on it, unless a
\* client was the last to enter it.
VersionIsReported ==
    \A v \in Vehicles : v \notin byHand /\ installed[v] # None =>
        \E d \in Deployments :
            /\ deployment[d] # None /\ <<d, "COMPLETED">> \in reports
            /\ deployment[d].veh = v /\ FirmwareOf[deployment[d].camp] = installed[v]

\* No outcome without evidence: rows, counters' events and the vehicles' versions
\* say COMPLETED or FAILED only of what a vehicle reported, or a client entered.
OutcomeIsReported ==
    /\ \A d \in Deployments : deployment[d] # None =>
          /\ deployment[d].status \in Report => <<d, deployment[d].status>> \in reports
          /\ "startedAt" \in deployment[d].stamps => <<d, "DOWNLOADING">> \in reports
          /\ "completedAt" \in deployment[d].stamps => <<d, "COMPLETED">> \in reports
    /\ \A e \in events :
          /\ e.topic \in {"FIRMWARE_INSTALLED", "OTA_COMPLETED"} => <<e.dep, "COMPLETED">> \in reports
          /\ e.topic = "OTA_FAILED" => <<e.dep, "FAILED">> \in reports
    /\ VersionIsReported

\* The deployments of c that Kafka has been told an end of.
Told(c, topics) ==
    {d \in Deployments : \E e \in events : e.topic \in topics /\ e.camp = c /\ e.dep = d}

\* The counters of a campaign are never behind what was announced of it: each
\* deployment is counted before its events.  (They may be ahead, as a report
\* handled twice is counted twice.)
AnnouncedIsCounted ==
    \A c \in Campaigns :
        /\ Cardinality(Told(c, {"FIRMWARE_INSTALLED", "OTA_COMPLETED"})) <= succeeded[c]
        /\ Cardinality(Told(c, {"OTA_FAILED"})) <= failed[c]

\* What was announced stays recorded, whatever late reports write to the row: an
\* installed firmware keeps its completedAt, and comes before OTA_COMPLETED.
InstalledIsRecorded ==
    \A e \in events : e.topic \in {"FIRMWARE_INSTALLED", "OTA_COMPLETED"} =>
        /\ "completedAt" \in deployment[e.dep].stamps
        /\ [e EXCEPT !.topic = "FIRMWARE_INSTALLED"] \in events

\* The rows bear out what went to vehicles and to Kafka: the manifests, OTA_STARTED
\* and FIRMWARE_INSTALLED.
AnnouncedIsRecorded == ManifestIsRecorded /\ StartedIsSent /\ InstalledIsRecorded

Unstarted(c) ==
    campaign[c] = "ACTIVE" /\ ~\E e \in events : e.topic = "OTA_STARTED" /\ e.camp = c

OutcomeTopic == [COMPLETED |-> "OTA_COMPLETED", FAILED |-> "OTA_FAILED"]

Untold(d) ==
    /\ Exists(d) /\ deployment[d].status \in Outcome
    /\ ~\E e \in events : e.topic = OutcomeTopic[deployment[d].status] /\ e.dep = d

\* Under Fairness: a deployCampaign call that has activated its campaign gets through
\* its loops to OTA_STARTED, and an outcome written to a row gets to Kafka, past the
\* counters and the version, unless the firmware is deleted meanwhile.
CallsComplete ==
    /\ \A c \in Campaigns : Unstarted(c) ~> ~Unstarted(c)
    /\ \A d \in Deployments : Untold(d) ~> ~Untold(d)

-----------------------------------------------------------------------------
\* What the repository says and the code does not do (see the README).

\* How far a deployment with that status has come.
Rank(st) == CASE st = "PENDING" -> 0
              [] st \in Outcome -> Len(Phases) + 1
              [] OTHER -> CHOOSE i \in DOMAIN Phases : Phases[i] = st

\* "PENDING -> DOWNLOADING -> INSTALLING -> REBOOTING -> VERIFYING -> COMPLETED",
\* docs/ARCHITECTURE.md:18: a deployment goes forward.
ProgressIsForward ==
    [][\A d \in Deployments : Exists(d) /\ Exists(d)'
          => Rank(deployment[d].status) <= Rank(deployment'[d].status)]_vars
=============================================================================
