------------------------------- MODULE Fleets -------------------------------
(***************************************************************************)
(* The fleet service, for one fleet code: apps/fleet-service.  Codes share *)
(* nothing.  updateFleet and deleteFleet read the fleet first and write it *)
(* by its id later, whatever it holds by then.                             *)
(***************************************************************************)
EXTENDS Calls, Sequences

CONSTANTS
    Keys,        \* what fleet.metadata may hold
    KnownManager,\* whether the manager a call names is a user
    MaxEvents    \* bound: no call starts after that many announcements

FleetsAssumption ==
    /\ MayFail \in BOOLEAN /\ KnownManager \in BOOLEAN
    /\ MaxEvents \in Nat

VARIABLES
    fleet,       \* the row of fleets, or None
    announced,   \* vis.fleet.created, .updated and .deleted
    inactive     \* what getStatistics last answered, or None

vars == <<task, fleet, announced, inactive>>

FleetStatus == {"ACTIVE", "INACTIVE", "SUSPENDED", "DECOMMISSIONED"}
Fleet == [status : FleetStatus, deleted : BOOLEAN, metadata : SUBSET Keys]
Topics == {"FLEET_CREATED", "FLEET_UPDATED", "FLEET_DELETED"}
Event == [topic : Topics, status : FleetStatus \cup {None}]

\* status, metadata: of the DTO; read: the metadata the fleet had when it was read;
\* then: the statement after the manager has been looked up; total and active: what
\* getStatistics has counted
Task == [at : {"manager", "create", "update", "delete", "tell", "count"},
         then : {"create", "update", "none"}, topic : Topics \cup {None},
         status : FleetStatus \cup {None}, metadata : SUBSET Keys,
         read : SUBSET Keys, total : Nat \cup {None}, active : Nat \cup {None}]

TypeOK ==
    /\ task \in [Workers -> Task \cup {None}]
    /\ fleet \in Fleet \cup {None}
    /\ announced \in Seq(Event)
    /\ inactive \in Int \cup {None}

Init == CallsInit /\ fleet = None /\ announced = <<>> /\ inactive = None

Exists == fleet # None
Alive == Exists /\ ~fleet.deleted

NewTask(at) ==
    [at |-> at, then |-> "none", topic |-> None, status |-> None, metadata |-> {},
     read |-> {}, total |-> None, active |-> None]

Start(w, t) ==
    /\ Len(announced) < MaxEvents
    /\ Begin(w, t)
    /\ UNCHANGED <<fleet, announced, inactive>>

\* dto.managerId is optional
First(at, named) ==
    [NewTask(IF named THEN "manager" ELSE at) EXCEPT !.then = at]

\* createFleet: findUnique sees deleted fleets too
StartCreate(w, named, md) ==
    /\ ~Exists
    /\ Start(w, [First("create", named) EXCEPT !.metadata = md])

StartUpdate(w, named, st, md) ==
    /\ Alive
    /\ Start(w, [First("update", named) EXCEPT !.status = st, !.metadata = md,
                                               !.read = fleet.metadata])

StartDelete(w) == Alive /\ Start(w, NewTask("delete"))

FindManager(w) ==
    /\ Running(w, "manager")
    /\ IF KnownManager THEN Continue(w, task[w].then) ELSE Finish(w)
    /\ UNCHANGED <<fleet, announced, inactive>>

Tell(w, topic, st) ==
    task' = [task EXCEPT ![w].at = "tell", ![w].topic = topic, ![w].status = st]

\* fleetCode is unique: the second of two creates rejects
CreateFleet(w) ==
    /\ Running(w, "create")
    /\ IF Exists
       THEN Finish(w) /\ UNCHANGED fleet
       ELSE /\ fleet' = [status |-> "ACTIVE", deleted |-> FALSE,
                         metadata |-> task[w].metadata]
            /\ Tell(w, "FLEET_CREATED", None)
    /\ UNCHANGED <<announced, inactive>>

\* dto.metadata is merged into what was read; none leaves the column alone.
Merged(w) == IF task[w].metadata = {} THEN fleet.metadata
                                      ELSE task[w].read \cup task[w].metadata

UpdateFleet(w) ==
    /\ Running(w, "update")
    /\ fleet' = [fleet EXCEPT !.status = IF task[w].status = None THEN @ ELSE task[w].status,
                              !.metadata = Merged(w)]
    /\ Tell(w, "FLEET_UPDATED", fleet'.status)
    /\ UNCHANGED <<announced, inactive>>

DeleteFleet(w) ==
    /\ Running(w, "delete")
    /\ fleet' = [fleet EXCEPT !.deleted = TRUE, !.status = "DECOMMISSIONED"]
    /\ Tell(w, "FLEET_DELETED", None)
    /\ UNCHANGED <<announced, inactive>>

Announce(w) ==
    /\ Running(w, "tell")
    /\ announced' = Append(announced, [topic |-> task[w].topic, status |-> task[w].status])
    /\ Finish(w)
    /\ UNCHANGED <<fleet, inactive>>

-----------------------------------------------------------------------------
\* getStatistics: the counts are separate queries, answered in any order.
StartStatistics(w) == Start(w, NewTask("count"))

Counted(w, total, active) ==
    IF None \in {total, active}
    THEN task' = [task EXCEPT ![w].total = total, ![w].active = active]
         /\ UNCHANGED inactive
    ELSE Finish(w) /\ inactive' = total - active

One(P) == IF P THEN 1 ELSE 0

CountTotal(w) ==
    /\ Running(w, "count") /\ task[w].total = None
    /\ Counted(w, One(Alive), task[w].active)
    /\ UNCHANGED <<fleet, announced>>

CountActive(w) ==
    /\ Running(w, "count") /\ task[w].active = None
    /\ Counted(w, task[w].total, IF Alive THEN One(fleet.status = "ACTIVE") ELSE 0)
    /\ UNCHANGED <<fleet, announced>>

Reject(w) == Abandon(w) /\ UNCHANGED <<fleet, announced, inactive>>

Call(w) ==
    \/ \E named \in BOOLEAN, md \in SUBSET Keys :
          \/ StartCreate(w, named, md)
          \/ \E st \in FleetStatus \cup {None} : StartUpdate(w, named, st, md)
    \/ StartDelete(w) \/ StartStatistics(w)

Go(w) ==
    \/ FindManager(w) \/ CreateFleet(w) \/ UpdateFleet(w) \/ DeleteFleet(w)
    \/ Announce(w) \/ CountTotal(w) \/ CountActive(w)

Next == \E w \in Workers : Call(w) \/ Go(w) \/ Reject(w)

Spec == Init /\ [][Next]_vars
-----------------------------------------------------------------------------
Told(topic) == \E i \in DOMAIN announced : announced[i].topic = topic

\* However calls overlap and fail: a fleet is announced as created once, and an
\* announced deletion is in the row for ever, whatever update writes it later.
FleetIsTold ==
    /\ announced # <<>> => Exists
    /\ Told("FLEET_DELETED") => fleet.deleted
    /\ \A i, j \in DOMAIN announced :
          announced[i].topic = "FLEET_CREATED" /\ announced[j].topic = "FLEET_CREATED" => i = j

\* Calls that do not overlap: what is deleted is DECOMMISSIONED, and there are not
\* more active fleets than fleets.
DeletedIsDecommissioned ==
    /\ Exists /\ fleet.deleted => fleet.status = "DECOMMISSIONED"
    /\ inactive # None => inactive >= 0

\* Of each step of calls that do not overlap: an update loses no metadata.
MetadataIsMerged == Exists => fleet' # None /\ fleet.metadata \subseteq fleet'.metadata
=============================================================================
