------------------------------- MODULE Office -------------------------------
(***************************************************************************)
(* The services that people rather than vehicles call: accounts, fleets,   *)
(* settings, reports with their audit trail, analytics, and the circuit    *)
(* breaker.  They run side by side and share no state, but for             *)
(* vis.report.generated, which the audit service takes.                    *)
(***************************************************************************)
EXTENDS Accounts

CONSTANTS
    Keys, KnownManager, MaxEvents,      \* Fleets, AdminSettings
    FlagKeys, MaxWrites,                \* AdminSettings
    Rows, Schedules,                    \* Reports
    FleetIds, MaxVehicles, MaxRollups,    \* Analytics
    Threshold, MaxCalls                 \* CircuitBreaker

\* mode and administered are chosen once.  mode: "any" -- calls overlap and fail;
\* "sound" -- they overlap; "alone" -- neither, and no vehicle or fleet comes under a
\* call.  administered: updateUser is called.
VARIABLES
    mode, administered,
    fleetTask, fleet, fleetEvents, inactive,
    adminTask, settings, cachedSettings, flag, versions, cachedFlag, key, webhook, adminEvents,
    reportTask, report, cachedData, schedules, generated,
    taken, again, auditTask, logs, details,
    statTask, fleets, total, active, overview, stats, found,
    breakerTask, state, failureCount, rested

F == INSTANCE Fleets WITH task <- fleetTask, announced <- fleetEvents
S == INSTANCE AdminSettings WITH task <- adminTask, announced <- adminEvents
R == INSTANCE Reports WITH task <- reportTask, announced <- generated
A == INSTANCE AuditTrail WITH task <- auditTask, inbox <- generated
N == INSTANCE Analytics WITH task <- statTask
B == INSTANCE CircuitBreaker WITH task <- breakerTask, MaxFailures <- MaxCalls

ASSUME OfficeAssumption ==
    /\ F!FleetsAssumption /\ S!AdminAssumption /\ R!ReportsAssumption
    /\ N!AnalyticsAssumption /\ B!BreakerAssumption

\* None stands for no task, no row, no entry and no answer.
ASSUME PlaceholderAssumption ==
    /\ None \notin Task /\ None \notin F!Task /\ None \notin S!Task /\ None \notin R!Task
    /\ None \notin A!Task /\ None \notin N!Task /\ None # "call"
    /\ None \notin F!Fleet /\ None \notin S!Row /\ None \notin N!Overview /\ None \notin Int

fleetVars == <<fleetTask, fleet, fleetEvents, inactive>>
adminVars == <<adminTask, settings, cachedSettings, flag, versions, cachedFlag, key,
               webhook, adminEvents>>
reportVars == <<reportTask, report, cachedData, schedules, generated>>
auditVars == <<taken, again, auditTask, logs, details>>
statVars == <<statTask, fleets, total, active, overview, stats, found>>
breakerVars == <<breakerTask, state, failureCount, rested>>
officeVars == <<mode, administered, vars, fleetVars, adminVars, reportVars, auditVars,
                statVars, breakerVars>>

-----------------------------------------------------------------------------
OfficeInit ==
    /\ mode \in {"any", "sound", "alone"} /\ administered \in BOOLEAN
    /\ Init /\ F!Init /\ S!Init /\ R!Init /\ A!Init /\ N!Init /\ B!Init

Fails == mode = "any"

\* The calls of one worker at most
OneBusy(t) == mode = "alone" => \A w, x \in Workers : t[w] # None /\ t[x] # None => w = x

AccountStep ==
    /\ Advance \/ (Fails /\ Next)
    /\ OneBusy(task')
    /\ \A w \in Workers :
          ~administered /\ task'[w] # None => task'[w].call # "update"
    /\ UNCHANGED <<mode, administered, fleetVars, adminVars, reportVars, auditVars, statVars,
                   breakerVars>>

FleetStep ==
    /\ \E w \in Workers : F!Call(w) \/ F!Go(w) \/ (Fails /\ F!Reject(w))
    /\ OneBusy(fleetTask')
    /\ UNCHANGED <<mode, administered, vars, adminVars, reportVars, auditVars, statVars,
                   breakerVars>>

AdminStep ==
    /\ \/ \E w \in Workers :
             \/ S!SettingCall(w) \/ S!FlagCall(w) \/ S!IntegrationCall(w)
             \/ Fails /\ S!Reject(w)
       \/ S!Expire
    /\ OneBusy(adminTask')
    /\ UNCHANGED <<mode, administered, vars, fleetVars, reportVars, auditVars, statVars,
                   breakerVars>>

ReportStep ==
    /\ \/ \E w \in Workers :
             R!Call(w) \/ R!Daily(w) \/ (Fails /\ (R!SkipSchedule(w) \/ R!Reject(w)))
       \/ \E s \in Schedules : R!ScheduleReport(s)
    /\ OneBusy(reportTask')
    /\ UNCHANGED <<mode, administered, vars, fleetVars, adminVars, auditVars, statVars,
                   breakerVars>>

AuditStep ==
    /\ \/ \E w \in Workers : A!Handle(w) \/ (Fails /\ A!Fail(w))
       \/ Fails /\ \E i \in taken : A!Recommit(i)
    /\ OneBusy(auditTask')
    /\ UNCHANGED <<mode, administered, vars, fleetVars, adminVars, reportVars, statVars,
                   breakerVars>>

StatStep ==
    /\ \/ \E w \in Workers : N!Call(w) \/ (Fails /\ N!Reject(w))
       \/ N!ExpireOverview
       \/ N!Environment /\ (mode = "alone" => N!Quiet)
    /\ OneBusy(statTask')
    /\ UNCHANGED <<mode, administered, vars, fleetVars, adminVars, reportVars, auditVars,
                   breakerVars>>

BreakerStep ==
    /\ B!Next
    /\ OneBusy(breakerTask')
    /\ UNCHANGED <<mode, administered, vars, fleetVars, adminVars, reportVars, auditVars,
                   statVars>>

OfficeNext ==
    \/ AccountStep \/ FleetStep \/ AdminStep \/ ReportStep \/ AuditStep \/ StatStep
    \/ BreakerStep

OfficeSpec == OfficeInit /\ [][OfficeNext]_officeVars
-----------------------------------------------------------------------------
\* The states are what the modules say they are.
Types ==
    /\ mode \in {"any", "sound", "alone"} /\ administered \in BOOLEAN
    /\ TypeOK /\ F!TypeOK /\ S!TypeOK /\ R!TypeOK /\ A!TypeOK /\ N!TypeOK /\ B!TypeOK

\* However calls overlap and fail: what was announced, recorded or cached has happened,
\* and an audit row is about a report that was completed.
RecordsAreGrounded ==
    /\ F!FleetIsTold
    /\ S!WrittenIsGrounded
    /\ R!ReportIsFiled
    /\ A!AuditIsGrounded
    /\ \A r \in DOMAIN logs :
          logs[r] \in DOMAIN generated
            /\ report[generated[logs[r]]] \in {"COMPLETED", "DELETED"}
    /\ N!OverviewIsGrounded
    /\ B!ClosedIsBelow

\* Where nothing fails: reports, audit rows and rollups are whole; and where calls do
\* not overlap either, each service keeps what its documentation says.
CallsAgree ==
    /\ mode # "any" => R!ReportsAreDone /\ A!AuditIsComplete /\ N!RollupsAreWhole
    /\ mode = "alone" =>
          /\ DeletedHasNoSession /\ RolesAreKept
          /\ RefusedStaysOut
          /\ ~administered => LockHasReason
          /\ F!DeletedIsDecommissioned
          /\ S!CacheIsCurrent
          /\ N!UtilizationIsPercentage
          /\ B!TrialDecides

\* What no step undoes: a report deleted while it is made stays deleted, an open
\* breaker is left by a trial only; and, where calls do not overlap, no update loses
\* a fleet's metadata.
NothingIsUndone ==
    [][/\ R!DeletedStays /\ B!OpenIsLeftByTrial
       /\ mode = "alone" => F!MetadataIsMerged]_officeVars
=============================================================================
