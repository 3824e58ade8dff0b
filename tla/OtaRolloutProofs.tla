-------------------------- MODULE OtaRolloutProofs --------------------------
(***************************************************************************)
(* Theorems about OtaRollout, for every set of versions, campaigns and     *)
(* entered versions, every finite set of vehicles, deployments and         *)
(* workers, every sequence of phases and every MaxUpdates, with and        *)
(* without failures.                                                       *)
(***************************************************************************)
EXTENDS OtaRollout, FiniteSetTheorems, TLAPS

HasRow(v, c) == \E d \in Deployments :
    deployment[d] # None /\ deployment[d].camp = c /\ deployment[d].veh = v

InstalledEvent(t) ==
    [topic |-> "FIRMWARE_INSTALLED", dep |-> t.dep, camp |-> t.camp, veh |-> t.veh]

Rows(c) == Cardinality(RowsOf(c))

\* deployCampaign: entries it is done with have their row, then their manifest.
DeployKnows(t) ==
    /\ campaign[t.camp] # "ABSENT"
    /\ t.at # "activate" => campaign[t.camp] \in {"ACTIVE", "DELETED"}
    /\ t.at = "activate" => t.done = 0
    /\ t.at = "create" => t.done <= Rows(t.camp) /\ \A i \in 1 .. t.done : HasRow(t.all[i], t.camp)
    /\ t.at \in {"publish", "emit"} =>
          Len(t.all) <= Rows(t.camp) /\ \A i \in 1 .. Len(t.all) : HasRow(t.all[i], t.camp)
    /\ t.at = "publish" => t.done <= copies[t.camp]
    /\ t.at = "emit" => Len(t.all) <= copies[t.camp]

\* updateDeploymentStatus: what it read of the row is so for ever, its message was
\* sent, and behind the row come the version and the events of an outcome.
ReportKnows(t) ==
    /\ deployment[t.dep] # None
    /\ deployment[t.dep].camp = t.camp /\ deployment[t.dep].veh = t.veh
    /\ <<t.dep, t.status>> \in reports
    /\ t.at # "row" => t.status \in Outcome
    /\ t.at \in {"version", "installed"} => t.status = "COMPLETED"
    /\ t.at # "row" /\ t.status = "COMPLETED" => "completedAt" \in deployment[t.dep].stamps
    /\ t.at = "emit" /\ t.status = "COMPLETED" => InstalledEvent(t) \in events

Knows(t) == /\ t.op = "deploy" => DeployKnows(t)
            /\ t.op = "report" => ReportKnows(t)

TaskInv == \A w \in Workers : task[w] # None => Knows(task[w])

\* Vehicles report on deployments that have a row.
WireInv == \A r \in reports : deployment[r[1]] # None

\* The deployments of c whose outcome st is counted, though Kafka may not know yet
Due(c, st) ==
    {d \in Deployments : \E w \in Workers :
        /\ task[w] # None /\ task[w].op = "report"
        /\ task[w].at \in {"version", "installed", "emit"}
        /\ task[w].status = st /\ task[w].camp = c /\ task[w].dep = d}

Succeeded(c) == Told(c, {"FIRMWARE_INSTALLED", "OTA_COMPLETED"}) \cup Due(c, "COMPLETED")
Failed(c) == Told(c, {"OTA_FAILED"}) \cup Due(c, "FAILED")

CountInv == \A c \in Campaigns :
    /\ Cardinality(Succeeded(c)) <= succeeded[c]
    /\ Cardinality(Failed(c)) <= failed[c]

StateInv == TypeOK /\ TaskInv /\ WireInv /\ OutcomeIsReported /\ AnnouncedIsRecorded

IInv == StateInv /\ CountInv

Alone(w) == \A x \in Workers \ {w} : task'[x] = task[x]
-----------------------------------------------------------------------------
\* Tasks

LEMMA TaskType ==
    ASSUME TypeOK, NEW w \in Workers, task[w] # None
    PROVE  /\ task[w].op = "deploy" => task[w] \in DeployTask
           /\ task[w].op = "report" => task[w] \in ReportTask
           /\ task[w].op \in {"deploy", "report"}
  BY DEF TypeOK, DeployTask, ReportTask

LEMMA PhasesType == PhaseSet \subseteq OtaStatus \ {"PENDING", "COMPLETED", "FAILED"}
  BY RolloutAssumption DEF PhaseSet

LEMMA FinishShape ==
    ASSUME TypeOK, NEW w \in Workers, Finish(w)
    PROVE  /\ task' \in [Workers -> DeployTask \cup ReportTask \cup {None}]
           /\ task'[w] = None /\ Alone(w)
  BY DEF TypeOK, Finish, Alone

LEMMA BeginShape ==
    ASSUME TypeOK, NEW w \in Workers, NEW t \in DeployTask \cup ReportTask,
           task' = [task EXCEPT ![w] = t]
    PROVE  /\ task' \in [Workers -> DeployTask \cup ReportTask \cup {None}]
           /\ task'[w] = t /\ task'[w] # None /\ Alone(w)
  BY NoneAssumption DEF TypeOK, Alone

LEMMA ContinueReport ==
    ASSUME TypeOK, NEW w \in Workers, task[w] \in ReportTask,
           NEW at \in {"row", "count", "version", "installed", "emit"}, Continue(w, at)
    PROVE  /\ task' \in [Workers -> DeployTask \cup ReportTask \cup {None}]
           /\ task'[w] # None /\ task'[w] = [task[w] EXCEPT !.at = at] /\ Alone(w)
           /\ task'[w].op = "report" /\ task'[w].at = at /\ task'[w].dep = task[w].dep
           /\ task'[w].camp = task[w].camp /\ task'[w].veh = task[w].veh
           /\ task'[w].status = task[w].status
<1> DEFINE t == [task[w] EXCEPT !.at = at]
<1>1. t \in ReportTask /\ t.at = at /\ t.dep = task[w].dep /\ t.camp = task[w].camp
      /\ t.veh = task[w].veh /\ t.status = task[w].status /\ t.op = "report"
  BY DEF ReportTask
<1>2. task' = [task EXCEPT ![w] = t]
  BY DEF Continue
<1> HIDE DEF t
<1>3. task'[w] = t
  BY <1>1, <1>2, BeginShape
<1>4. QED
  BY <1>1, <1>2, <1>3, BeginShape DEF t

LEMMA ContinueDeploy ==
    ASSUME TypeOK, NEW w \in Workers, task[w] \in DeployTask,
           NEW at \in {"activate", "create", "publish", "emit"}, Continue(w, at)
    PROVE  /\ task' \in [Workers -> DeployTask \cup ReportTask \cup {None}]
           /\ task'[w] # None /\ Alone(w)
           /\ task'[w].op = "deploy" /\ task'[w].at = at /\ task'[w].camp = task[w].camp
           /\ task'[w].all = task[w].all /\ task'[w].done = task[w].done
<1> DEFINE t == [task[w] EXCEPT !.at = at]
<1>1. t \in DeployTask /\ t.at = at /\ t.camp = task[w].camp /\ t.op = "deploy"
      /\ t.all = task[w].all /\ t.done = task[w].done
  BY DEF DeployTask
<1>2. task' = [task EXCEPT ![w] = t]
  BY DEF Continue
<1> HIDE DEF t
<1>3. QED
  BY <1>1, <1>2, BeginShape

\* The list of a deployCampaign call, and the entry whose turn it is
LEMMA ListType ==
    ASSUME NEW t \in DeployTask
    PROVE  /\ t.all \in Seq(Vehicles) /\ Len(t.all) \in Nat /\ t.done \in Nat /\ t.camp \in Campaigns
           /\ \A i \in 1 .. Len(t.all) : t.all[i] \in Vehicles
  BY DEF DeployTask

LEMMA NextVehicleShape ==
    ASSUME TypeOK, NEW w \in Workers, task[w] \in DeployTask,
           NEW at \in {"create", "publish"}, NEW next \in {"publish", "emit"},
           task[w].at = at, NextVehicle(w, at, next)
    PROVE  /\ task' \in [Workers -> DeployTask \cup ReportTask \cup {None}]
           /\ task'[w] # None /\ Alone(w) /\ task'[w].op = "deploy"
           /\ task'[w].camp = task[w].camp /\ task'[w].all = task[w].all
           /\ \/ task[w].done + 1 = Len(task[w].all) /\ task'[w].at = next /\ task'[w].done = 0
              \/ task'[w].at = at /\ task'[w].done = task[w].done + 1
<1>1. PICK a \in {at, next}, n \in Nat :
         /\ task' = [task EXCEPT ![w] = [task[w] EXCEPT !.at = a, !.done = n]]
         /\ \/ task[w].done + 1 = Len(task[w].all) /\ a = next /\ n = 0
            \/ a = at /\ n = task[w].done + 1
  <2>1. CASE LastVehicle(w)
    <3>1. task' = [task EXCEPT ![w] = [task[w] EXCEPT !.at = next, !.done = 0]]
      BY <2>1 DEF NextVehicle, TypeOK, DeployTask
    <3>2. QED
      BY <2>1, <3>1 DEF LastVehicle
  <2>2. CASE ~LastVehicle(w)
    <3>1. task' = [task EXCEPT ![w] = [task[w] EXCEPT !.at = at, !.done = task[w].done + 1]]
      BY <2>2 DEF NextVehicle, TypeOK, DeployTask
    <3>2. task[w].done + 1 \in Nat
      BY ListType
    <3>3. QED
      BY <3>1, <3>2
  <2>3. QED
    BY <2>1, <2>2
<1> DEFINE t == [task[w] EXCEPT !.at = a, !.done = n]
<1>2. t \in DeployTask /\ t.at = a /\ t.done = n /\ t.camp = task[w].camp
      /\ t.all = task[w].all /\ t.op = "deploy"
  BY DEF DeployTask
<1> HIDE DEF t
<1>3. task'[w] = t
  BY <1>1, <1>2, BeginShape DEF t
<1>4. QED
  BY <1>1, <1>2, <1>3, BeginShape DEF t

-----------------------------------------------------------------------------
\* What a step has to show

\* Messages, events and rows stay; a row keeps what it is about and its stamps.
Grows ==
    /\ reports \subseteq reports' /\ manifests \subseteq manifests' /\ events \subseteq events'
    /\ \A c \in Campaigns : copies[c] <= copies'[c]
    /\ \A d \in Deployments : deployment[d] # None =>
          /\ deployment'[d] # None
          /\ deployment'[d].camp = deployment[d].camp
          /\ deployment'[d].veh = deployment[d].veh
          /\ deployment[d].stamps \subseteq deployment'[d].stamps
    /\ \A c \in Campaigns :
          /\ campaign[c] # "ABSENT" => campaign'[c] # "ABSENT"
          /\ campaign[c] \in {"ACTIVE", "DELETED"} => campaign'[c] \in {"ACTIVE", "DELETED"}

\* What is new has its reason: a row, a version, a manifest and an event.
RowKnown(d) ==
    /\ deployment[d].status \in Report => <<d, deployment[d].status>> \in reports
    /\ "startedAt" \in deployment[d].stamps => <<d, "DOWNLOADING">> \in reports
    /\ "completedAt" \in deployment[d].stamps => <<d, "COMPLETED">> \in reports

VersionKnown(v) == v \notin byHand /\ installed[v] # None =>
    \E d \in Deployments :
        /\ deployment[d] # None /\ <<d, "COMPLETED">> \in reports
        /\ deployment[d].veh = v /\ FirmwareOf[deployment[d].camp] = installed[v]

ManifestKnown(m) == campaign[m[2]] \in {"ACTIVE", "DELETED"} /\ HasRow(m[1], m[2])

EventKnown(e) ==
    /\ e.topic = "OTA_STARTED" => e.vehicles <= Rows(e.camp) /\ e.vehicles <= copies[e.camp]
    /\ e.topic \in {"FIRMWARE_INSTALLED", "OTA_COMPLETED"} =>
          /\ <<e.dep, "COMPLETED">> \in reports
          /\ "completedAt" \in deployment[e.dep].stamps
          /\ [e EXCEPT !.topic = "FIRMWARE_INSTALLED"] \in events
    /\ e.topic = "OTA_FAILED" => <<e.dep, "FAILED">> \in reports

Sound ==
    /\ TypeOK' /\ Grows
    /\ \A w \in Workers : task'[w] # None /\ task'[w] # task[w] => Knows(task[w])'
    /\ \A r \in reports' \ reports : deployment'[r[1]] # None
    /\ \A d \in Deployments : deployment'[d] # None /\ deployment'[d] # deployment[d] => RowKnown(d)'
    /\ \A v \in Vehicles :
          installed'[v] # installed[v] \/ v \in byHand \ byHand' => VersionKnown(v)'
    /\ \A m \in manifests' \ manifests : ManifestKnown(m)'
    /\ \A e \in events' \ events : EventKnown(e)'

LEMMA RowsGrow ==
    ASSUME Grows, NEW c
    PROVE  /\ RowsOf(c) \subseteq RowsOf(c)' /\ Rows(c) <= Rows(c)'
           /\ IsFiniteSet(RowsOf(c)) /\ Rows(c) \in Nat /\ Rows(c)' \in Nat
<1>1. IsFiniteSet(RowsOf(c)) /\ IsFiniteSet(RowsOf(c)')
  BY RolloutAssumption, FS_Subset DEF RowsOf
<1>2. RowsOf(c) \subseteq RowsOf(c)'
  BY DEF RowsOf, Grows
<1>3. QED
  BY <1>1, <1>2, FS_Subset, FS_CardinalityType DEF Rows

LEMMA KnowsStays ==
    ASSUME TypeOK, TypeOK', Grows, NEW w \in Workers, task[w] # None, task'[w] = task[w],
           Knows(task[w])
    PROVE  Knows(task[w])'
<1>1. CASE task[w].op = "deploy"
  <2>1. task[w] \in DeployTask
    BY <1>1, TaskType
  <2>3. PICK c \in Campaigns, n \in Nat, all \in Seq(Vehicles) :
           c = task[w].camp /\ n = task[w].done /\ all = task[w].all
    BY <2>1, ListType
  <2>4. /\ Rows(c) <= Rows(c)' /\ Rows(c) \in Nat /\ Rows(c)' \in Nat
        /\ copies[c] <= copies'[c] /\ copies[c] \in Nat /\ copies'[c] \in Nat
        /\ campaign[c] # "ABSENT" => campaign'[c] # "ABSENT"
        /\ campaign[c] \in {"ACTIVE", "DELETED"} => campaign'[c] \in {"ACTIVE", "DELETED"}
        /\ Len(all) \in Nat
    BY RowsGrow DEF Grows, TypeOK
  <2>5. \A x : HasRow(x, c) => HasRow(x, c)'
    BY DEF HasRow, Grows
  <2>6. DeployKnows(task[w])'
    BY <1>1, <2>3, <2>4, <2>5 DEF Knows, DeployKnows
  <2>7. QED
    BY <1>1, <2>6 DEF Knows
<1>2. CASE task[w].op = "report"
  <2>1. task[w].dep \in Deployments /\ ReportKnows(task[w])
    BY <1>2, TaskType DEF ReportTask, Knows
  <2>2. ReportKnows(task[w])'
    BY <2>1 DEF ReportKnows, InstalledEvent, Grows
  <2>3. QED
    BY <1>2, <2>2 DEF Knows
<1>3. QED
  BY <1>1, <1>2, TaskType

LEMMA EventStays ==
    ASSUME StateInv, TypeOK', Grows, NEW e \in events
    PROVE  EventKnown(e)'
<1>1. e \in Event
  BY DEF StateInv, TypeOK
<1>2. EventKnown(e)
  BY DEF StateInv, OutcomeIsReported, AnnouncedIsRecorded, StartedIsSent, InstalledIsRecorded,
         EventKnown, Rows
<1>3. CASE e.topic = "OTA_STARTED"
  <2>1. e.vehicles \in Nat /\ e.camp \in Campaigns
    BY <1>1, <1>3 DEF Event
  <2>2. e.vehicles <= Rows(e.camp) /\ e.vehicles <= copies[e.camp]
    BY <1>2, <1>3 DEF EventKnown
  <2>3. e.vehicles <= Rows(e.camp)' /\ e.vehicles <= copies'[e.camp]
    BY <2>1, <2>2, RowsGrow DEF Grows, StateInv, TypeOK
  <2>4. QED
    BY <1>3, <2>3 DEF EventKnown
<1>4. CASE e.topic # "OTA_STARTED"
  <2>1. e.dep \in Deployments
    BY <1>1, <1>4 DEF Event
  <2>2. e.topic \in {"FIRMWARE_INSTALLED", "OTA_COMPLETED"} => deployment[e.dep] # None
    BY <1>2 DEF EventKnown, StateInv, WireInv
  <2>3. QED
    BY <1>2, <1>4, <2>1, <2>2 DEF EventKnown, Grows
<1>5. QED
  BY <1>3, <1>4

LEMMA SoundStep == ASSUME StateInv, Sound PROVE StateInv'
<1> USE DEF StateInv, Sound
<1>1. TaskInv'
  BY KnowsStays DEF TaskInv
<1>2. WireInv'
  BY DEF WireInv, Grows, TypeOK
<1>3. \A e \in events' : EventKnown(e)'
  BY EventStays
<1>4. \A d \in Deployments : deployment'[d] # None => RowKnown(d)'
  BY DEF OutcomeIsReported, RowKnown, Grows
<1>5. \A v \in Vehicles : VersionKnown(v)'
  <2>1. ASSUME NEW v \in Vehicles, installed'[v] = installed[v], v \notin byHand \ byHand'
        PROVE  VersionKnown(v)'
    <3>1. VersionKnown(v)
      BY DEF OutcomeIsReported, VersionIsReported, VersionKnown
    <3>2. QED
      BY <2>1, <3>1 DEF VersionKnown, Grows
  <2>2. QED
    BY <2>1
<1>6. \A m \in manifests' : ManifestKnown(m)'
  <2>1. ASSUME NEW m \in manifests PROVE ManifestKnown(m)'
    <3>1. m[2] \in Campaigns /\ campaign[m[2]] \in {"ACTIVE", "DELETED"} /\ HasRow(m[1], m[2])
      BY DEF TypeOK, AnnouncedIsRecorded, ManifestIsRecorded, RowsOf, HasRow
    <3>2. QED
      BY <3>1 DEF ManifestKnown, HasRow, Grows
  <2>2. QED
    BY <2>1
<1>7. OutcomeIsReported'
  BY <1>3, <1>4, <1>5 DEF OutcomeIsReported, VersionIsReported, EventKnown, RowKnown, VersionKnown
<1>8. AnnouncedIsRecorded'
  BY <1>3, <1>6 DEF AnnouncedIsRecorded, ManifestIsRecorded, StartedIsSent, InstalledIsRecorded,
                    EventKnown, Rows, ManifestKnown, HasRow, RowsOf
<1>9. QED
  BY <1>1, <1>2, <1>7, <1>8
-----------------------------------------------------------------------------
\* The counters

LEMMA FiniteCounts ==
    ASSUME NEW S \in SUBSET Deployments
    PROVE  IsFiniteSet(S) /\ Cardinality(S) \in Nat
  BY RolloutAssumption, FS_Subset, FS_CardinalityType

\* A step that counts nothing announces what is due, and makes nothing due.
LEMMA CountStays ==
    ASSUME TypeOK, TypeOK', CountInv, UNCHANGED <<succeeded, failed>>,
           \A w \in Workers :
               /\ task'[w] # None /\ task'[w] # task[w] /\ task'[w].op = "report"
               /\ task'[w].at \in {"version", "installed", "emit"}
               => task'[w].dep \in Due(task'[w].camp, task'[w].status),
           \A e \in events' \ events :
               /\ e.topic \in {"FIRMWARE_INSTALLED", "OTA_COMPLETED"} => e.dep \in Due(e.camp, "COMPLETED")
               /\ e.topic = "OTA_FAILED" => e.dep \in Due(e.camp, "FAILED")
    PROVE  CountInv'
<1> SUFFICES ASSUME NEW c \in Campaigns
             PROVE  /\ Cardinality(Succeeded(c))' <= succeeded'[c]
                    /\ Cardinality(Failed(c))' <= failed'[c]
  BY DEF CountInv
<1>1. \A st \in {"COMPLETED", "FAILED"} : Due(c, st)' \subseteq Due(c, st)
  BY DEF Due
<1>2. Told(c, {"FIRMWARE_INSTALLED", "OTA_COMPLETED"})' \subseteq Succeeded(c)
      /\ Told(c, {"OTA_FAILED"})' \subseteq Failed(c)
  BY DEF Told, Succeeded, Failed
<1>3. Succeeded(c)' \subseteq Succeeded(c) /\ Failed(c)' \subseteq Failed(c)
  BY <1>1, <1>2 DEF Succeeded, Failed
<1>4. Succeeded(c) \in SUBSET Deployments /\ Failed(c) \in SUBSET Deployments
  BY DEF Succeeded, Failed, Told, Due
<1>5. succeeded[c] \in Nat /\ failed[c] \in Nat
  BY DEF TypeOK
<1>6. Cardinality(Succeeded(c)') <= Cardinality(Succeeded(c)) /\ Cardinality(Succeeded(c)') \in Nat
  BY <1>3, <1>4, FiniteCounts, FS_Subset
<1>7. Cardinality(Failed(c)') <= Cardinality(Failed(c)) /\ Cardinality(Failed(c)') \in Nat
  BY <1>3, <1>4, FiniteCounts, FS_Subset
<1>8. Cardinality(Succeeded(c)) \in Nat /\ Cardinality(Failed(c)) \in Nat
  BY <1>4, FiniteCounts
<1>9. QED
  BY <1>5, <1>6, <1>7, <1>8 DEF CountInv

-----------------------------------------------------------------------------
LEMMA InvInit == Init => IInv
<1> SUFFICES ASSUME Init PROVE IInv
  OBVIOUS
<1> USE DEF Init
<1>1. TypeOK
  BY DEF TypeOK, CampaignStatus
<1>2. TaskInv /\ WireInv /\ OutcomeIsReported /\ AnnouncedIsRecorded
  BY DEF TaskInv, WireInv, OutcomeIsReported, VersionIsReported, AnnouncedIsRecorded,
         ManifestIsRecorded, StartedIsSent, InstalledIsRecorded
<1>3. \A c \in Campaigns : Succeeded(c) = {} /\ Failed(c) = {}
  BY DEF Succeeded, Failed, Told, Due
<1>4. CountInv
  BY <1>3, FS_EmptySet DEF CountInv
<1>5. QED
  BY <1>1, <1>2, <1>4 DEF IInv, StateInv

\* Clients and vehicles

LEMMA ClientStep ==
    ASSUME IInv,
           \/ \E f \in Versions : CreateFirmware(f) \/ DeleteFirmware(f)
           \/ \E c \in Campaigns : CreateCampaign(c)
           \/ \E v \in Vehicles, f \in Entered : EnterVersion(v, f)
    PROVE  IInv'
<1> USE RolloutAssumption DEF IInv, StateInv
<1>1. UNCHANGED <<task, events, reports, manifests, copies, succeeded, failed>>
  BY DEF CreateFirmware, DeleteFirmware, CreateCampaign, EnterVersion, campaignRows, version, wire
<1>2. ASSUME NEW f \in Versions, CreateFirmware(f) PROVE Sound
  BY <1>2 DEF CreateFirmware, campaignRows, version, wire, Sound, Grows, TypeOK
<1>3. ASSUME NEW f \in Versions, DeleteFirmware(f) PROVE Sound
  <2>1. \A d \in Deployments : deployment[d] # None =>
           /\ deployment[d] \in Deployment
           /\ [deployment[d] EXCEPT !.status = "DELETED"] \in Deployment
    BY DEF TypeOK, Deployment
  <2>2. deployment' \in [Deployments -> Deployment \cup {None}]
    BY <1>3, <2>1 DEF DeleteFirmware, TypeOK
  <2>3. campaign' \in [Campaigns -> CampaignStatus]
    BY <1>3 DEF DeleteFirmware, TypeOK, CampaignStatus
  <2>4. TypeOK'
    BY <1>3, <2>2, <2>3 DEF DeleteFirmware, wire, TypeOK, version
  <2>5. Grows
    <3>1. \A d \in Deployments : deployment[d] # None =>
             /\ deployment'[d] # None
             /\ deployment'[d].camp = deployment[d].camp
             /\ deployment'[d].veh = deployment[d].veh
             /\ deployment'[d].stamps = deployment[d].stamps
      BY <1>3, <2>1, NoneAssumption DEF DeleteFirmware, Deployment
    <3>2. \A c \in Campaigns : campaign'[c] \in {campaign[c], "DELETED"}
      BY <1>3 DEF DeleteFirmware
    <3>3. QED
      BY <1>1, <3>1, <3>2 DEF Grows, TypeOK
  <2>6. "DELETED" \notin Report
    BY PhasesType DEF Report, Outcome, OtaStatus
  <2>7. \A d \in Deployments : deployment'[d] # deployment[d] => RowKnown(d)'
    BY <1>1, <1>3, <2>1, <2>6
       DEF DeleteFirmware, RowKnown, OutcomeIsReported, Deployment
  <2>8. QED
    BY <1>1, <1>3, <2>4, <2>5, <2>7 DEF DeleteFirmware, Sound, version
<1>4. ASSUME NEW c \in Campaigns, CreateCampaign(c) PROVE Sound
  BY <1>4 DEF CreateCampaign, wire, Sound, Grows, TypeOK, CampaignStatus, version
<1>5. ASSUME NEW v \in Vehicles, NEW f \in Entered, EnterVersion(v, f) PROVE Sound
  BY <1>5 DEF EnterVersion, campaignRows, version, wire, Sound, Grows, TypeOK, VersionKnown
<1>6. Sound
  BY <1>2, <1>3, <1>4, <1>5
<1>7. CountInv'
  BY <1>1, <1>6, CountStays DEF Sound
<1>8. QED
  BY <1>6, <1>7, SoundStep

LEMMA VehicleStep ==
    ASSUME IInv, NEW d \in Deployments, NEW st \in Report, VehicleReports(d, st)
    PROVE  IInv'
<1> USE DEF IInv, StateInv
<1>1. UNCHANGED <<task, events, manifests, copies, rows>>
  BY DEF VehicleReports
<1>2. Sound
  BY <1>1 DEF VehicleReports, rows, campaignRows, version, Sound, Grows, TypeOK
<1>3. CountInv'
  BY <1>1, <1>2, CountStays DEF Sound, rows, campaignRows, version
<1>4. QED
  BY <1>2, <1>3, SoundStep
-----------------------------------------------------------------------------
\* deployCampaign

LEMMA DeployStep ==
    ASSUME IInv, NEW w \in Workers,
           \/ \E c \in Campaigns, all \in Targets : StartDeploy(w, c, all)
           \/ Activate(w)
           \/ \E v \in Vehicles, d \in Deployments : CreateDeployment(w, v, d)
           \/ \E v \in Vehicles : SendManifest(w, v)
           \/ EmitStarted(w)
    PROVE  IInv'
<1> USE DEF IInv, StateInv
<1>1. ASSUME NEW c \in Campaigns, NEW all \in Targets, StartDeploy(w, c, all)
      PROVE  Sound /\ (task'[w] = None \/ task'[w].op = "deploy") /\ Alone(w)
  <2> DEFINE t == [op |-> "deploy", at |-> "activate", camp |-> c, all |-> all, done |-> 0]
  <2>1. t \in DeployTask /\ t.op = "deploy" /\ t.at = "activate" /\ t.camp = c /\ t.done = 0
    <3>1. all \in Seq(Vehicles)
      BY DEF Targets
    <3>2. QED
      BY <3>1 DEF DeployTask
  <2>2. task' = [task EXCEPT ![w] = t] /\ UNCHANGED <<rows, wire, events>> /\ campaign[c] # "ABSENT"
    BY <1>1 DEF StartDeploy, Live
  <2> HIDE DEF t
  <2>3. /\ task' \in [Workers -> DeployTask \cup ReportTask \cup {None}]
        /\ task'[w] = t /\ Alone(w)
    BY <2>1, <2>2, BeginShape
  <2>4. Knows(task[w])'
    BY <2>1, <2>2, <2>3 DEF Knows, DeployKnows, rows, campaignRows, version
  <2>5. TypeOK' /\ Grows
    BY <2>2, <2>3 DEF TypeOK, Grows, rows, campaignRows, version, wire
  <2>6. QED
    BY <2>1, <2>2, <2>3, <2>4, <2>5 DEF Sound, Alone, rows, wire, version
<1>2. ASSUME Activate(w)
      PROVE  Sound /\ (task'[w] = None \/ task'[w].op = "deploy") /\ Alone(w)
  <2>1. task[w] \in DeployTask /\ DeployKnows(task[w]) /\ task[w].at = "activate"
    BY <1>2, TaskType DEF Activate, Running, TaskInv, Knows
  <2>2. /\ task' \in [Workers -> DeployTask \cup ReportTask \cup {None}] /\ Alone(w)
        /\ task'[w] # None /\ task'[w].op = "deploy" /\ task'[w].at = "create"
        /\ task'[w].camp = task[w].camp /\ task'[w].all = task[w].all
        /\ task'[w].done = task[w].done
    BY <1>2, <2>1, ContinueDeploy DEF Activate
  <2>3. PICK c \in Campaigns : c = task[w].camp /\ Len(task[w].all) \in Nat
    BY <2>1, ListType
  <2>4. TypeOK'
    BY <1>2, <2>2, <2>3 DEF Activate, TypeOK, CampaignStatus, wire, version
  <2>5. Grows /\ campaign'[c] = "ACTIVE"
    BY <1>2, <2>3 DEF Activate, Grows, TypeOK, wire, version
  <2>6. Rows(c)' \in Nat
    BY <2>5, RowsGrow
  <2>7. Knows(task[w])'
    <3>1. task'[w].done = 0
      BY <2>1, <2>2 DEF DeployKnows
    <3>2. QED
      BY <2>2, <2>3, <2>5, <2>6, <3>1 DEF Knows, DeployKnows
  <2>8. QED
    BY <1>2, <2>2, <2>4, <2>5, <2>7 DEF Activate, Sound, Alone, wire, version
<1>3. ASSUME NEW v \in Vehicles, NEW d \in Deployments, CreateDeployment(w, v, d)
      PROVE  Sound /\ (task'[w] = None \/ task'[w].op = "deploy") /\ Alone(w)
  <2> DEFINE row == [camp |-> task[w].camp, veh |-> v, status |-> "PENDING", stamps |-> {}]
  <2>1. task[w] \in DeployTask /\ DeployKnows(task[w]) /\ task[w].at = "create"
        /\ task[w].camp \in Campaigns
    BY <1>3, TaskType DEF CreateDeployment, Running, TaskInv, Knows, DeployTask
  <2>2. /\ task' \in [Workers -> DeployTask \cup ReportTask \cup {None}] /\ Alone(w)
        /\ task'[w] # None /\ task'[w].op = "deploy"
        /\ task'[w].camp = task[w].camp /\ task'[w].all = task[w].all
        /\ \/ task[w].done + 1 = Len(task[w].all) /\ task'[w].at = "publish" /\ task'[w].done = 0
           \/ task'[w].at = "create" /\ task'[w].done = task[w].done + 1
    <3>1. NextVehicle(w, "create", "publish")
      BY <1>3 DEF CreateDeployment, AfterCreate
    <3>2. QED
      BY <2>1, <3>1, NextVehicleShape
  <2>3. row \in Deployment /\ row # None /\ row.camp = task[w].camp /\ row.veh = v
        /\ row.status = "PENDING" /\ row.stamps = {}
    BY <2>1, NoneAssumption DEF Deployment, OtaStatus
  <2>4. deployment' = [deployment EXCEPT ![d] = row] /\ deployment[d] = None
        /\ UNCHANGED <<released, campaignRows, version, wire, events>>
    BY <1>3 DEF CreateDeployment
  <2> HIDE DEF row
  <2>5. TypeOK'
    BY <2>2, <2>3, <2>4 DEF TypeOK, campaignRows, version, wire
  <2>6. Grows /\ deployment'[d] = row
    BY <2>4 DEF Grows, TypeOK, campaignRows, version, wire
  <2> PICK c \in Campaigns, n \in Nat, all \in Seq(Vehicles) :
         c = task[w].camp /\ n = task[w].done /\ all = task[w].all
    BY <2>1, ListType
  <2>7. HasRow(v, c)' /\ \A x : HasRow(x, c) => HasRow(x, c)'
    <3>1. deployment'[d] # None /\ deployment'[d].camp = task'[w].camp /\ deployment'[d].veh = v
      BY <2>2, <2>3, <2>6
    <3>2. QED
      BY <2>2, <2>6, <3>1 DEF HasRow, Grows, version, TypeOK
  <2>8. Knows(task[w])'
    <3>1. /\ Len(all) \in Nat
          /\ n <= Rows(c) /\ \A i \in 1 .. n : HasRow(all[i], c)
          /\ campaign[c] \in {"ACTIVE", "DELETED"}
      BY <2>1 DEF DeployKnows
    <3>2. v = all[n + 1]
      BY <1>3 DEF CreateDeployment, InTurn
    <3>3. Rows(c) \in Nat /\ Rows(c)' = Rows(c) + 1
      <4>1. RowsOf(c)' = RowsOf(c) \cup {d} /\ d \notin RowsOf(c)
        <5>1. deployment'[d] # None /\ deployment'[d].camp = c /\ deployment[d] = None
          BY <2>3, <2>4, <2>6
        <5>2. \A x \in Deployments \ {d} : deployment'[x] = deployment[x]
          BY <2>4 DEF TypeOK
        <5>3. QED
          BY <5>1, <5>2 DEF RowsOf
      <4>2. IsFiniteSet(RowsOf(c)) /\ Rows(c) \in Nat
        BY <2>6, RowsGrow
      <4>3. QED
        BY <4>1, <4>2, FS_AddElement DEF Rows
    <3>4. copies'[c] \in Nat
      BY <2>5, <3>1 DEF TypeOK
    <3>5. campaign' = campaign
      BY <2>4 DEF campaignRows
    <3>6. \A i \in 1 .. (n + 1) : HasRow(all[i], c)'
      BY <2>7, <3>1, <3>2
    <3>7. CASE n + 1 = Len(all) /\ task'[w].at = "publish" /\ task'[w].done = 0
      <4>1. DeployKnows(task[w])'
        BY <2>2, <3>1, <3>3, <3>4, <3>5, <3>6, <3>7 DEF DeployKnows
      <4>2. QED
        BY <2>2, <4>1 DEF Knows
    <3>8. CASE task'[w].at = "create" /\ task'[w].done = n + 1
      <4>1. DeployKnows(task[w])'
        BY <2>2, <3>1, <3>3, <3>4, <3>5, <3>6, <3>8 DEF DeployKnows
      <4>2. QED
        BY <2>2, <4>1 DEF Knows
    <3>9. QED
      BY <2>2, <3>7, <3>8
  <2>9. "PENDING" \notin Report
    BY PhasesType DEF Report, Outcome
  <2>10. \A x \in Deployments : deployment'[x] # deployment[x] => RowKnown(x)'
    BY <2>3, <2>4, <2>6, <2>9 DEF RowKnown, TypeOK
  <2>11. QED
    BY <2>2, <2>4, <2>5, <2>6, <2>8, <2>10 DEF Sound, Alone, wire, version
<1>4. ASSUME NEW v \in Vehicles, SendManifest(w, v)
      PROVE  Sound /\ (task'[w] = None \/ task'[w].op = "deploy") /\ Alone(w)
  <2>1. task[w] \in DeployTask /\ DeployKnows(task[w]) /\ task[w].at = "publish"
    BY <1>4, TaskType DEF SendManifest, Running, TaskInv, Knows
  <2> PICK c \in Campaigns, n \in Nat, all \in Seq(Vehicles) :
         c = task[w].camp /\ n = task[w].done /\ all = task[w].all
    BY <2>1, ListType
  <2>2. /\ task' \in [Workers -> DeployTask \cup ReportTask \cup {None}] /\ Alone(w)
        /\ task'[w] # None /\ task'[w].op = "deploy"
        /\ task'[w].camp = task[w].camp /\ task'[w].all = task[w].all
        /\ \/ task[w].done + 1 = Len(task[w].all) /\ task'[w].at = "emit" /\ task'[w].done = 0
           \/ task'[w].at = "publish" /\ task'[w].done = task[w].done + 1
    BY <1>4, <2>1, NextVehicleShape DEF SendManifest
  <2>3. /\ manifests' = manifests \cup {<<v, c>>} /\ copies' = [copies EXCEPT ![c] = @ + 1]
        /\ UNCHANGED <<rows, reports, events>>
    BY <1>4 DEF SendManifest
  <2>4. /\ Len(all) \in Nat
        /\ n <= copies[c] /\ Len(all) <= Rows(c)
        /\ \A i \in 1 .. Len(all) : HasRow(all[i], c)
        /\ campaign[c] \in {"ACTIVE", "DELETED"}
    BY <2>1 DEF DeployKnows
  <2>5. n < Len(all) /\ v = all[n + 1]
    BY <1>4 DEF SendManifest, InTurn
  <2>6. copies[c] \in Nat /\ copies'[c] = copies[c] + 1
    BY <2>3, <2>4 DEF TypeOK
  <2>7. Rows(c)' = Rows(c) /\ \A x : HasRow(x, c) => HasRow(x, c)'
    BY <2>3 DEF HasRow, Rows, RowsOf, rows
  <2>8. campaign'[c] = campaign[c]
    BY <2>3 DEF rows, campaignRows
  <2>9. ManifestKnown(<<v, c>>)'
    <3>1. HasRow(v, c)
      <4>1. n + 1 \in 1 .. Len(all)
        BY <2>4, <2>5
      <4>2. QED
        BY <2>4, <2>5, <4>1
    <3>2. QED
      BY <2>4, <2>7, <2>8, <3>1 DEF ManifestKnown
  <2>10. TypeOK' /\ Grows
    <3>1. TypeOK'
      <4>1. copies' \in [Campaigns -> Nat] /\ manifests' \subseteq Vehicles \X Campaigns
        BY <2>3, <2>6 DEF TypeOK
      <4>2. QED
        BY <2>2, <2>3, <4>1 DEF TypeOK, rows, campaignRows, version
    <3>2. \A k \in Campaigns : copies[k] <= copies'[k]
      BY <2>3, <2>6 DEF TypeOK
    <3>3. QED
      BY <2>3, <3>1, <3>2 DEF Grows, rows, campaignRows, version, TypeOK
  <2>11. Knows(task[w])'
    <3>1. CASE n + 1 = Len(all) /\ task'[w].at = "emit" /\ task'[w].done = 0
      <4>1. DeployKnows(task[w])'
        BY <2>2, <2>4, <2>6, <2>7, <2>8, <3>1 DEF DeployKnows
      <4>2. QED
        BY <2>2, <4>1 DEF Knows
    <3>2. CASE task'[w].at = "publish" /\ task'[w].done = n + 1
      <4>1. DeployKnows(task[w])'
        BY <2>2, <2>4, <2>6, <2>7, <2>8, <3>2 DEF DeployKnows
      <4>2. QED
        BY <2>2, <4>1 DEF Knows
    <3>3. QED
      BY <2>2, <3>1, <3>2
  <2>12. \A m \in manifests' \ manifests : ManifestKnown(m)'
    BY <2>3, <2>9
  <2>13. QED
    BY <2>2, <2>3, <2>10, <2>11, <2>12 DEF Sound, Alone, rows, version
<1>5. ASSUME EmitStarted(w)
      PROVE  Sound /\ (task'[w] = None \/ task'[w].op = "deploy") /\ Alone(w)
  <2>1. task[w] \in DeployTask /\ DeployKnows(task[w]) /\ task[w].at = "emit"
    BY <1>5, TaskType DEF EmitStarted, Running, TaskInv, Knows
  <2>2. task' \in [Workers -> DeployTask \cup ReportTask \cup {None}] /\ task'[w] = None /\ Alone(w)
    BY <1>5, FinishShape DEF EmitStarted
  <2>3. PICK c \in Campaigns, n \in Nat :
           c = task[w].camp /\ n = Len(task[w].all) /\ n <= Rows(c) /\ n <= copies[c]
    BY <2>1, ListType DEF DeployKnows
  <2>4. PICK e \in Event :
           /\ events' = events \cup {e} /\ UNCHANGED <<rows, wire>>
           /\ e.topic = "OTA_STARTED" /\ e.camp = c /\ e.vehicles = n
    <3> DEFINE r == [topic |-> "OTA_STARTED", camp |-> c, vehicles |-> n]
    <3>1. r \in Event /\ r.topic = "OTA_STARTED" /\ r.camp = c /\ r.vehicles = n
      BY <2>3 DEF Event
    <3>2. events' = events \cup {r} /\ UNCHANGED <<rows, wire>>
      BY <1>5, <2>3 DEF EmitStarted
    <3> HIDE DEF r
    <3>3. QED
      BY <3>1, <3>2
  <2>5. TypeOK' /\ Grows
    BY <2>2, <2>4 DEF TypeOK, Grows, rows, campaignRows, version, wire
  <2>6. e.vehicles <= Rows(e.camp)' /\ e.vehicles <= copies'[e.camp]
    BY <2>3, <2>4 DEF Rows, RowsOf, rows, wire
  <2>7. EventKnown(e)'
    BY <2>4, <2>6 DEF EventKnown
  <2>8. QED
    BY <2>2, <2>4, <2>5, <2>7 DEF Sound, Alone, rows, wire, version
<1>6. Sound /\ (task'[w] = None \/ task'[w].op = "deploy") /\ Alone(w)
  BY <1>1, <1>2, <1>3, <1>4, <1>5
<1>7. UNCHANGED <<succeeded, failed>>
      /\ \A e \in events' \ events : e.topic = "OTA_STARTED"
  <2>1. CASE EmitStarted(w)
    BY <2>1 DEF EmitStarted, rows, campaignRows, version
  <2>2. CASE ~EmitStarted(w)
    BY <2>2 DEF StartDeploy, Activate, CreateDeployment, SendManifest, rows, campaignRows, version
  <2>3. QED
    BY <2>1, <2>2
<1>8. CountInv'
  BY <1>6, <1>7, CountStays DEF Sound, Alone
<1>9. QED
  BY <1>6, <1>8, SoundStep

-----------------------------------------------------------------------------
\* updateDeploymentStatus

LEMMA StartReportStep ==
    ASSUME IInv, NEW w \in Workers, NEW d \in Deployments, NEW st \in Report,
           StartReport(w, d, st)
    PROVE  IInv'
<1> USE DEF IInv, StateInv
<1> DEFINE t == [op |-> "report", at |-> "row", dep |-> d, camp |-> deployment[d].camp,
                 veh |-> deployment[d].veh, status |-> st]
<1>1. deployment[d] \in Deployment /\ deployment[d] # None /\ <<d, st>> \in reports
  BY DEF StartReport, Exists, TypeOK
<1>2. t \in ReportTask /\ t.op = "report" /\ t.at = "row" /\ t.dep = d
      /\ t.camp = deployment[d].camp /\ t.veh = deployment[d].veh /\ t.status = st
  BY <1>1 DEF ReportTask, Deployment
<1>3. task' = [task EXCEPT ![w] = t] /\ UNCHANGED <<rows, wire, events>>
  BY DEF StartReport
<1> HIDE DEF t
<1>4. /\ task' \in [Workers -> DeployTask \cup ReportTask \cup {None}]
      /\ task'[w] = t /\ Alone(w)
  BY <1>2, <1>3, BeginShape
<1>5. Knows(task[w])'
  BY <1>1, <1>2, <1>3, <1>4 DEF Knows, ReportKnows, rows, wire
<1>6. TypeOK' /\ Grows
  BY <1>3, <1>4 DEF TypeOK, Grows, rows, campaignRows, version, wire
<1>7. Sound
  BY <1>3, <1>4, <1>5, <1>6 DEF Sound, Alone, rows, wire, version
<1>8. CountInv'
  BY <1>2, <1>3, <1>4, <1>6, CountStays DEF Alone, rows, campaignRows, version
<1>9. QED
  BY <1>7, <1>8, SoundStep

LEMMA UpdateRowStep ==
    ASSUME IInv, NEW w \in Workers, UpdateRow(w)
    PROVE  IInv'
<1> USE DEF IInv, StateInv
<1>1. task[w] \in ReportTask /\ ReportKnows(task[w]) /\ task[w].at = "row" /\ task[w] # None
  BY TaskType DEF UpdateRow, Running, TaskInv, Knows
<1>2. PICK d \in Deployments, st \in Report :
         /\ d = task[w].dep /\ st = task[w].status
         /\ <<d, st>> \in reports /\ deployment[d] # None
         /\ deployment[d].camp = task[w].camp /\ deployment[d].veh = task[w].veh
  BY <1>1 DEF ReportTask, ReportKnows
<1>3. StampsOf(st) \in SUBSET {"startedAt", "completedAt"}
      /\ ("startedAt" \in StampsOf(st) => st = "DOWNLOADING")
      /\ ("completedAt" \in StampsOf(st) <=> st = "COMPLETED")
  BY DEF StampsOf
<1>4. st \in OtaStatus
  BY PhasesType DEF Report, Outcome, OtaStatus
<1> DEFINE row == [deployment[d] EXCEPT !.status = st,
                                        !.stamps = deployment[d].stamps \cup StampsOf(st)]
<1>5. /\ row \in Deployment /\ row # None /\ row.camp = deployment[d].camp
      /\ row.veh = deployment[d].veh /\ row.status = st
      /\ row.stamps = deployment[d].stamps \cup StampsOf(st)
  <2>1. deployment[d] \in Deployment
    BY <1>2 DEF TypeOK
  <2>2. row \in Deployment
    BY <2>1, <1>3, <1>4 DEF Deployment
  <2>3. QED
    BY <2>1, <2>2, NoneAssumption DEF Deployment
<1>6. deployment' = [deployment EXCEPT ![d] = row]
      /\ UNCHANGED <<released, campaignRows, version, wire, events>>
  BY <1>2 DEF UpdateRow, KeepStamps, TypeOK
<1> HIDE DEF row
<1>7. deployment'[d] = row /\ \A x \in Deployments \ {d} : deployment'[x] = deployment[x]
  BY <1>6 DEF TypeOK
<1>8. /\ task' \in [Workers -> DeployTask \cup ReportTask \cup {None}] /\ Alone(w)
      /\ task'[w] # None =>
            /\ task'[w].op = "report" /\ task'[w].at = "count" /\ task'[w].status \in Outcome
            /\ task'[w].dep = task[w].dep /\ task'[w].camp = task[w].camp
            /\ task'[w].veh = task[w].veh /\ task'[w].status = task[w].status
  <2>1. CASE task[w].status \in Outcome
    BY <1>1, <2>1, ContinueReport DEF UpdateRow
  <2>2. CASE task[w].status \notin Outcome
    BY <2>2, FinishShape DEF UpdateRow
  <2>3. QED
    BY <2>1, <2>2
<1>9. TypeOK' /\ Grows
  <2>1. deployment' \in [Deployments -> Deployment \cup {None}]
    BY <1>5, <1>6 DEF TypeOK
  <2>2. TypeOK'
    BY <1>6, <1>8, <2>1 DEF TypeOK, campaignRows, version, wire
  <2>3. Grows
    BY <1>5, <1>6, <1>7 DEF Grows, campaignRows, version, wire, TypeOK
  <2>4. QED
    BY <2>2, <2>3
<1>10. task'[w] # None => Knows(task[w])'
  BY <1>1, <1>2, <1>3, <1>5, <1>6, <1>7, <1>8 DEF Knows, ReportKnows, wire
<1>11. RowKnown(d)
  BY <1>2 DEF OutcomeIsReported, RowKnown
<1>12. RowKnown(d)'
  BY <1>2, <1>3, <1>5, <1>6, <1>7, <1>11 DEF RowKnown, wire
<1>13. Sound
  BY <1>6, <1>7, <1>8, <1>9, <1>10, <1>12 DEF Sound, Alone, wire, version
<1>14. CountInv'
  BY <1>6, <1>8, <1>9, CountStays DEF Alone, campaignRows, version
<1>15. QED
  BY <1>13, <1>14, SoundStep

LEMMA CountUpdateStep ==
    ASSUME IInv, NEW w \in Workers, CountUpdate(w)
    PROVE  IInv'
<1> USE DEF IInv, StateInv
<1>1. task[w] \in ReportTask /\ ReportKnows(task[w]) /\ task[w].at = "count" /\ task[w] # None
  BY TaskType DEF CountUpdate, Running, TaskInv, Knows
<1>2. PICK d \in Deployments, k \in Campaigns, st \in Outcome :
         d = task[w].dep /\ k = task[w].camp /\ st = task[w].status
  BY <1>1 DEF ReportTask, ReportKnows
<1>3. /\ IF st = "COMPLETED"
         THEN succeeded' = [succeeded EXCEPT ![k] = @ + 1] /\ UNCHANGED failed
         ELSE failed' = [failed EXCEPT ![k] = @ + 1] /\ UNCHANGED succeeded
      /\ UNCHANGED <<released, campaign, total, deployment, version, wire, events>>
  BY <1>2 DEF CountUpdate, Increment
<1>4. /\ task' \in [Workers -> DeployTask \cup ReportTask \cup {None}] /\ Alone(w)
      /\ task'[w] # None /\ task'[w].op = "report"
      /\ task'[w].at = (IF st = "COMPLETED" THEN "version" ELSE "emit")
      /\ task'[w].dep = d /\ task'[w].camp = k
      /\ task'[w].veh = task[w].veh /\ task'[w].status = st
  <2>1. PICK at \in {"version", "emit"} :
           Continue(w, at) /\ at = IF st = "COMPLETED" THEN "version" ELSE "emit"
    BY <1>2 DEF CountUpdate, AfterCount
  <2>2. QED
    BY <1>1, <1>2, <2>1, ContinueReport
<1>5. TypeOK' /\ Grows
  BY <1>3, <1>4 DEF TypeOK, Grows, wire, version
<1>6. Knows(task[w])'
  BY <1>1, <1>2, <1>3, <1>4 DEF Knows, ReportKnows, Outcome, wire
<1>7. Sound
  BY <1>3, <1>4, <1>5, <1>6 DEF Sound, Alone, wire, version
<1>8. \A c \in Campaigns : UNCHANGED <<Told(c, {"FIRMWARE_INSTALLED", "OTA_COMPLETED"}),
                                       Told(c, {"OTA_FAILED"})>>
  BY <1>3 DEF Told
<1>9. \A c \in Campaigns, s \in Outcome :
         Due(c, s)' \subseteq Due(c, s) \cup (IF c = k /\ s = st THEN {d} ELSE {})
  BY <1>4 DEF Due, Alone
<1>10. ASSUME NEW c \in Campaigns
       PROVE  /\ Cardinality(Succeeded(c)') <= succeeded'[c]
              /\ Cardinality(Failed(c)') <= failed'[c]
  <2> DEFINE S == Succeeded(c)
             F == Failed(c)
  <2>1. /\ S' \subseteq S \cup (IF c = k /\ st = "COMPLETED" THEN {d} ELSE {})
        /\ F' \subseteq F \cup (IF c = k /\ st = "FAILED" THEN {d} ELSE {})
    BY <1>8, <1>9 DEF Succeeded, Failed, Outcome
  <2>2. S \in SUBSET Deployments /\ F \in SUBSET Deployments
    BY DEF Succeeded, Failed, Told, Due
  <2>3. Cardinality(S) <= succeeded[c] /\ Cardinality(F) <= failed[c]
        /\ succeeded[c] \in Nat /\ failed[c] \in Nat
    BY DEF CountInv, TypeOK
  <2>4. /\ succeeded'[c] = succeeded[c] + (IF c = k /\ st = "COMPLETED" THEN 1 ELSE 0)
        /\ failed'[c] = failed[c] + (IF c = k /\ st = "FAILED" THEN 1 ELSE 0)
    BY <1>2, <1>3 DEF TypeOK, Outcome
  <2> HIDE DEF S, F
  <2>5. ASSUME NEW P \in SUBSET Deployments, NEW Q
        PROVE  /\ Q \subseteq P => Cardinality(Q) <= Cardinality(P)
               /\ Q \subseteq P \cup {d} => Cardinality(Q) <= Cardinality(P) + 1
               /\ Cardinality(P) \in Nat
    <3>1. IsFiniteSet(P) /\ Cardinality(P) \in Nat
      BY FiniteCounts
    <3>2. IsFiniteSet(P \cup {d}) /\ Cardinality(P \cup {d}) <= Cardinality(P) + 1
          /\ Cardinality(P \cup {d}) \in Nat
      <4>1. /\ IsFiniteSet(P \cup {d})
            /\ Cardinality(P \cup {d}) = IF d \in P THEN Cardinality(P) ELSE Cardinality(P) + 1
        BY <3>1, FS_AddElement
      <4>2. QED
        BY <3>1, <4>1
    <3>3. Q \subseteq P => Cardinality(Q) <= Cardinality(P) /\ Cardinality(Q) \in Nat
      BY <3>1, FS_Subset, FS_CardinalityType
    <3>4. Q \subseteq P \cup {d} =>
             Cardinality(Q) <= Cardinality(P \cup {d}) /\ Cardinality(Q) \in Nat
      BY <3>2, FS_Subset, FS_CardinalityType
    <3>5. QED
      BY <3>1, <3>2, <3>3, <3>4
  <2>6. Cardinality(S') \in Nat /\ Cardinality(F') \in Nat
    <3>1. S' \in SUBSET Deployments /\ F' \in SUBSET Deployments
      BY <2>1, <2>2
    <3>2. QED
      BY <3>1, FiniteCounts
  <2>7. Cardinality(S') <= succeeded'[c]
    BY <2>1, <2>2, <2>3, <2>4, <2>5, <2>6
  <2>8. Cardinality(F') <= failed'[c]
    BY <2>1, <2>2, <2>3, <2>4, <2>5, <2>6
  <2>9. QED
    BY <2>7, <2>8 DEF S, F
<1>11. CountInv'
  BY <1>10 DEF CountInv
<1>12. QED
  BY <1>7, <1>11, SoundStep

\* The version and the events of an outcome: everything is due already.
LEMMA OutcomeStep ==
    ASSUME IInv, NEW w \in Workers, RecordVersion(w) \/ EmitInstalled(w) \/ EmitOutcome(w)
    PROVE  IInv'
<1> USE DEF IInv, StateInv
<1>1. /\ task[w] \in ReportTask /\ ReportKnows(task[w]) /\ task[w] # None
      /\ task[w].at \in {"version", "installed", "emit"} /\ task[w].op = "report"
  BY TaskType DEF RecordVersion, EmitInstalled, EmitOutcome, Running, TaskInv, Knows
<1>2. PICK d \in Deployments, k \in Campaigns, v \in Vehicles, st \in Outcome :
         /\ d = task[w].dep /\ k = task[w].camp /\ v = task[w].veh /\ st = task[w].status
         /\ deployment[d] # None /\ deployment[d].camp = k /\ deployment[d].veh = v
         /\ <<d, st>> \in reports
         /\ st = "COMPLETED" => "completedAt" \in deployment[d].stamps
  BY <1>1 DEF ReportTask, ReportKnows
<1>3. d \in Due(k, st)
  BY <1>1, <1>2 DEF Due
<1>4. CASE RecordVersion(w)
  <2>1. task[w].at = "version" /\ st = "COMPLETED"
    BY <1>1, <1>2, <1>4 DEF RecordVersion, Running, ReportKnows
  <2>2. /\ installed' = [installed EXCEPT ![v] = FirmwareOf[k]] /\ byHand' = byHand \ {v}
        /\ Continue(w, "installed")
        /\ UNCHANGED <<released, campaignRows, deployment, wire, events>>
    BY <1>2, <1>4 DEF RecordVersion
  <2>3. /\ task' \in [Workers -> DeployTask \cup ReportTask \cup {None}] /\ Alone(w)
        /\ task'[w] # None /\ task'[w].op = "report" /\ task'[w].at = "installed"
        /\ task'[w].dep = d /\ task'[w].camp = k /\ task'[w].veh = v /\ task'[w].status = st
    BY <1>1, <1>2, <2>2, ContinueReport
  <2>4. TypeOK' /\ Grows
    <3>1. installed' \in [Vehicles -> Versions \cup Entered \cup {None}]
      BY <2>2, RolloutAssumption DEF TypeOK
    <3>2. TypeOK'
      BY <2>2, <2>3, <3>1 DEF TypeOK, campaignRows, wire
    <3>3. QED
      BY <2>2, <3>2 DEF Grows, TypeOK, campaignRows, wire
  <2>5. Knows(task[w])'
    BY <1>2, <2>1, <2>2, <2>3 DEF Knows, ReportKnows, wire
  <2>6. VersionKnown(v)'
    BY <1>2, <2>1, <2>2 DEF VersionKnown, wire, TypeOK
  <2>7. Sound
    BY <2>2, <2>3, <2>4, <2>5, <2>6 DEF Sound, Alone, TypeOK, wire, version
  <2>8. CountInv'
    BY <1>3, <2>2, <2>3, <2>4, CountStays DEF Alone, campaignRows, version
  <2>9. QED
    BY <2>7, <2>8, SoundStep
<1>5. CASE EmitInstalled(w)
  <2>1. task[w].at = "installed" /\ st = "COMPLETED"
    BY <1>1, <1>2, <1>5 DEF EmitInstalled, Running, ReportKnows
  <2>2. PICK e \in Event :
           /\ events' = events \cup {e} /\ Continue(w, "emit") /\ UNCHANGED <<rows, wire>>
           /\ e = [topic |-> "FIRMWARE_INSTALLED", dep |-> d, camp |-> k, veh |-> v]
    BY <1>2, <1>5 DEF EmitInstalled, Emit, Event
  <2>3. /\ task' \in [Workers -> DeployTask \cup ReportTask \cup {None}] /\ Alone(w)
        /\ task'[w] # None /\ task'[w].op = "report" /\ task'[w].at = "emit"
        /\ task'[w].dep = d /\ task'[w].camp = k /\ task'[w].veh = v /\ task'[w].status = st
    BY <1>1, <1>2, <2>2, ContinueReport
  <2>4. TypeOK' /\ Grows
    BY <2>2, <2>3 DEF TypeOK, Grows, rows, campaignRows, version, wire
  <2>5. Knows(task[w])'
    BY <1>2, <2>1, <2>2, <2>3 DEF Knows, ReportKnows, InstalledEvent, rows, wire
  <2>6. EventKnown(e)'
    BY <1>2, <2>1, <2>2 DEF EventKnown, rows, wire
  <2>7. Sound
    BY <2>2, <2>3, <2>4, <2>5, <2>6 DEF Sound, Alone, rows, wire, version
  <2>8. CountInv'
    BY <1>3, <2>1, <2>2, <2>3, <2>4, CountStays DEF Alone, rows, campaignRows, version
  <2>9. QED
    BY <2>7, <2>8, SoundStep
<1>6. CASE EmitOutcome(w)
  <2>1. task[w].at = "emit"
    BY <1>6 DEF EmitOutcome, Running
  <2>2. PICK e \in Event :
           /\ events' = events \cup {e} /\ Finish(w) /\ UNCHANGED <<rows, wire>>
           /\ e = [topic |-> IF st = "COMPLETED" THEN "OTA_COMPLETED" ELSE "OTA_FAILED",
                   dep |-> d, camp |-> k, veh |-> v]
    <3> DEFINE topic == IF st = "COMPLETED" THEN "OTA_COMPLETED" ELSE "OTA_FAILED"
    <3>1. topic \in {"OTA_COMPLETED", "OTA_FAILED"} /\ TopicOf(st) = topic
      BY DEF TopicOf
    <3>2. events' = events \cup {[topic |-> topic, dep |-> d, camp |-> k, veh |-> v]}
          /\ Finish(w) /\ UNCHANGED <<rows, wire>>
      BY <1>2, <1>6, <3>1 DEF EmitOutcome, Emit
    <3> HIDE DEF topic
    <3>3. [topic |-> topic, dep |-> d, camp |-> k, veh |-> v] \in Event
      BY <3>1 DEF Event
    <3>4. QED
      BY <3>2, <3>3 DEF topic
  <2>3. task' \in [Workers -> DeployTask \cup ReportTask \cup {None}] /\ task'[w] = None /\ Alone(w)
    BY <2>2, FinishShape
  <2>4. TypeOK' /\ Grows
    BY <2>2, <2>3 DEF TypeOK, Grows, rows, campaignRows, version, wire
  <2>5. EventKnown(e)'
    <3>1. st = "COMPLETED" =>
             [topic |-> "FIRMWARE_INSTALLED", dep |-> d, camp |-> k, veh |-> v] \in events
      BY <1>1, <1>2, <2>1 DEF ReportKnows, InstalledEvent
    <3>2. e.topic = (IF st = "COMPLETED" THEN "OTA_COMPLETED" ELSE "OTA_FAILED") /\ e.dep = d
          /\ [e EXCEPT !.topic = "FIRMWARE_INSTALLED"]
                = [topic |-> "FIRMWARE_INSTALLED", dep |-> d, camp |-> k, veh |-> v]
      BY <2>2
    <3>3. QED
      BY <1>2, <2>2, <3>1, <3>2 DEF EventKnown, Outcome, rows, wire
  <2>6. Sound
    BY <2>2, <2>3, <2>4, <2>5 DEF Sound, Alone, rows, wire, version
  <2>7. CountInv'
    BY <1>2, <1>3, <2>2, <2>3, <2>4, CountStays DEF Outcome, Alone, rows, campaignRows, version
  <2>8. QED
    BY <2>6, <2>7, SoundStep
<1>7. QED
  BY <1>4, <1>5, <1>6

LEMMA EndStep ==
    ASSUME IInv, NEW w \in Workers, Abort(w) \/ Reject(w)
    PROVE  IInv'
<1> USE DEF IInv, StateInv
<1>1. Finish(w) /\ UNCHANGED <<rows, wire, events>>
  BY DEF Abort, Reject
<1>2. task' \in [Workers -> DeployTask \cup ReportTask \cup {None}] /\ task'[w] = None /\ Alone(w)
  BY <1>1, FinishShape
<1>3. Sound
  BY <1>1, <1>2 DEF Sound, TypeOK, Grows, Alone, rows, campaignRows, version, wire
<1>4. CountInv'
  BY <1>1, <1>2, <1>3, CountStays DEF Sound, Alone, rows, campaignRows, version
<1>5. QED
  BY <1>3, <1>4, SoundStep

LEMMA InvStep == IInv /\ [Next]_vars => IInv'
<1> SUFFICES ASSUME IInv, [Next]_vars PROVE IInv'
  OBVIOUS
<1>1. CASE UNCHANGED vars
  <2>1. Sound
    BY <1>1 DEF vars, rows, campaignRows, version, wire, IInv, StateInv, Sound, Grows, TypeOK
  <2>2. CountInv'
    BY <1>1, <2>1, CountStays DEF vars, rows, campaignRows, version, IInv, StateInv, Sound
  <2>3. QED
    BY <2>1, <2>2, SoundStep DEF IInv
<1>2. CASE Next
  BY <1>2, ClientStep, VehicleStep, DeployStep, StartReportStep, UpdateRowStep, CountUpdateStep,
     OutcomeStep, EndStep DEF Next, Request, TaskStep
<1>3. QED
  BY <1>1, <1>2

\* The strengthening is an invariant: what calls in flight rely on stays true, and
\* outcomes are counted before they are told.
THEOREM Inductive == Spec => []IInv
  BY InvInit, InvStep, PTL DEF Spec

\* The types of the OTA service, whatever overlaps, fails or is deleted.
THEOREM TypeCorrect == Spec => []TypeOK
<1>1. IInv => TypeOK
  BY DEF IInv, StateInv
<1>2. QED
  BY Inductive, <1>1, PTL

\* However reports are repeated, delayed or lost: a row or an event tells of an outcome
\* only if the vehicle reported it, and so does a version that no client has entered
\* since.
THEOREM OutcomeCorrect == Spec => []OutcomeIsReported
<1>1. IInv => OutcomeIsReported
  BY DEF IInv, StateInv
<1>2. QED
  BY Inductive, <1>1, PTL

\* The rows bear out every manifest and every event, also of firmware deleted meanwhile
\* and of campaigns deployed to a list that names a vehicle twice.
THEOREM RecordedCorrect == Spec => []AnnouncedIsRecorded
<1>1. IInv => AnnouncedIsRecorded
  BY DEF IInv, StateInv
<1>2. QED
  BY Inductive, <1>1, PTL

\* The counters of a campaign are never behind the outcomes Kafka was told.
THEOREM CountedCorrect == Spec => []AnnouncedIsCounted
<1>1. IInv => AnnouncedIsCounted
  <2> SUFFICES ASSUME IInv, NEW c \in Campaigns
               PROVE  /\ Cardinality(Told(c, {"FIRMWARE_INSTALLED", "OTA_COMPLETED"})) <= succeeded[c]
                      /\ Cardinality(Told(c, {"OTA_FAILED"})) <= failed[c]
    BY DEF AnnouncedIsCounted
  <2> DEFINE A == Told(c, {"FIRMWARE_INSTALLED", "OTA_COMPLETED"})
             B == Told(c, {"OTA_FAILED"})
  <2>1. A \subseteq Succeeded(c) /\ B \subseteq Failed(c)
        /\ Succeeded(c) \in SUBSET Deployments /\ Failed(c) \in SUBSET Deployments
    BY DEF Succeeded, Failed, Told, Due
  <2>2. Cardinality(Succeeded(c)) <= succeeded[c] /\ Cardinality(Failed(c)) <= failed[c]
        /\ succeeded[c] \in Nat /\ failed[c] \in Nat
    BY DEF IInv, StateInv, CountInv, TypeOK
  <2> HIDE DEF A, B
  <2>3. Cardinality(A) <= Cardinality(Succeeded(c)) /\ Cardinality(A) \in Nat
        /\ Cardinality(B) <= Cardinality(Failed(c)) /\ Cardinality(B) \in Nat
    BY <2>1, FiniteCounts, FS_Subset
  <2>4. Cardinality(Succeeded(c)) \in Nat /\ Cardinality(Failed(c)) \in Nat
    BY <2>1, FiniteCounts
  <2>5. QED
    BY <2>2, <2>3, <2>4 DEF A, B
<1>2. QED
  BY Inductive, <1>1, PTL

=============================================================================
