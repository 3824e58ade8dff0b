------------------------------ MODULE Analytics ------------------------------
(***************************************************************************)
(* The analytics service: apps/analytics-service.  The dashboard is read   *)
(* through Redis and computed from separate counts; the scheduled rollup   *)
(* writes a document for each fleet it finds and renews the dashboard.     *)
(* Fleets and vehicles come and go meanwhile.                              *)
(***************************************************************************)
EXTENDS Calls, FiniteSets, Sequences

CONSTANTS
    FleetIds,    \* the fleets there may be
    MaxVehicles, \* bound: the vehicles there ever are
    MaxRollups   \* bound: no rollup starts once that many have found a fleet

AnalyticsAssumption ==
    /\ IsFiniteSet(Workers) /\ MayFail \in BOOLEAN
    /\ MaxVehicles \in Nat /\ MaxRollups \in Nat /\ None \notin FleetIds

VARIABLES
    fleets,    \* the rows of the fleets there are; deleteFleet only marks its row
    total,     \* vehicles
    active,    \* those of them that are ACTIVE
    overview,  \* Redis dashboard:overview, or None
    stats,     \* MongoDB: the fleets the documents are about, in order
    found      \* history: how many rollups found each fleet

vars == <<task, fleets, total, active, overview, stats, found>>

Overview == [total : Nat, active : Nat]

\* todo: the fleets the rollup has still to look at; total and active: the counts
\* that have been answered, None before
Task == [at : {"fleet", "count", "cache"}, todo : SUBSET FleetIds,
         total : Nat \cup {None}, active : Nat \cup {None}]

TypeOK ==
    /\ task \in [Workers -> Task \cup {None}]
    /\ fleets \subseteq FleetIds /\ found \in [FleetIds -> Nat]
    /\ total \in Nat /\ active \in Nat
    /\ overview \in Overview \cup {None}
    /\ stats \in Seq(FleetIds)

Init ==
    /\ CallsInit
    /\ fleets = {} /\ total = 0 /\ active = 0
    /\ overview = None /\ stats = <<>> /\ found = [f \in FleetIds |-> 0]

NewTask(at, S) == [at |-> at, todo |-> S, total |-> None, active |-> None]

\* getDashboardOverview, when Redis has no entry
StartOverview(w) ==
    /\ overview = None
    /\ Begin(w, NewTask("count", {}))
    /\ UNCHANGED <<fleets, total, active, overview, stats, found>>

\* runScheduledRollup: its findMany of the fleets; after the last of them the dashboard
Left(S) == NewTask(IF S = {} THEN "count" ELSE "fleet", S)

StartRollup(w) ==
    /\ \A f \in FleetIds : found[f] < MaxRollups
    /\ Begin(w, Left(fleets))
    /\ found' = [f \in FleetIds |-> IF f \in fleets THEN found[f] + 1 ELSE found[f]]
    /\ UNCHANGED <<fleets, total, active, overview, stats>>

\* The counts of a fleet, and the document that tells them.
RollUp(w, f) ==
    /\ Running(w, "fleet")
    /\ f \in task[w].todo
    /\ stats' = Append(stats, f)
    /\ task' = [task EXCEPT ![w] = Left(task[w].todo \ {f})]
    /\ UNCHANGED <<fleets, total, active, overview, found>>

\* aggregateExecutiveDashboard: the counts are separate queries, answered in any
\* order.
Counted(w, t, a) ==
    /\ task' = [task EXCEPT ![w].at = IF None \in {t, a} THEN "count" ELSE "cache",
                            ![w].total = t, ![w].active = a]
    /\ UNCHANGED <<fleets, total, active, overview, stats, found>>

CountTotal(w) ==
    Running(w, "count") /\ task[w].total = None /\ Counted(w, total, task[w].active)

CountActive(w) ==
    Running(w, "count") /\ task[w].active = None /\ Counted(w, task[w].total, active)

CacheOverview(w) ==
    /\ Running(w, "cache")
    /\ overview' = [total |-> task[w].total, active |-> task[w].active]
    /\ Finish(w)
    /\ UNCHANGED <<fleets, total, active, stats, found>>

\* The key lives five minutes.
ExpireOverview ==
    /\ overview # None
    /\ overview' = None
    /\ UNCHANGED <<task, fleets, total, active, stats, found>>

Reject(w) == Abandon(w) /\ UNCHANGED <<fleets, total, active, overview, stats, found>>

\* The vehicle service creates a vehicle, or changes its status.
AddVehicle ==
    /\ total < MaxVehicles
    /\ total' = total + 1
    /\ UNCHANGED <<task, fleets, active, overview, stats, found>>

SetActive(n) ==
    /\ n \in 0 .. total
    /\ active' = n
    /\ UNCHANGED <<task, fleets, total, overview, stats, found>>

\* The fleet service creates a fleet.
AddFleet ==
    /\ \E f \in FleetIds \ fleets : fleets' = fleets \cup {f}
    /\ UNCHANGED <<task, total, active, overview, stats, found>>

Environment == AddFleet \/ AddVehicle \/ \E n \in 0 .. MaxVehicles : SetActive(n)

Call(w) ==
    \/ StartOverview(w) \/ StartRollup(w)
    \/ \E f \in FleetIds : RollUp(w, f)
    \/ CountTotal(w) \/ CountActive(w) \/ CacheOverview(w)

Next ==
    \/ \E w \in Workers : Call(w) \/ Reject(w)
    \/ ExpireOverview
    \/ Environment

Spec == Init /\ [][Next]_vars
-----------------------------------------------------------------------------
\* However calls, rollups and vehicles interleave: the dashboard never counts more
\* vehicles than there are; and rollups that do not fail leave one document of a fleet
\* for each rollup that found it, however fleets are added meanwhile.
OverviewIsGrounded == overview # None => overview.total <= total

Documents(f) == Cardinality({i \in DOMAIN stats : stats[i] = f})
RollupsAreWhole == Quiet => \A f \in FleetIds : Documents(f) = found[f]

\* While no vehicle changes between the two counts, the utilization is a percentage.
UtilizationIsPercentage == overview # None => overview.active <= overview.total
=============================================================================
