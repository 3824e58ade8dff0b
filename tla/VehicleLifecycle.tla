-------------------------- MODULE VehicleLifecycle --------------------------
(***************************************************************************)
(* The vehicle service: apps/vehicle-service/src/vehicles.                 *)
(*                                                                         *)
(* Every HTTP call first reads the vehicle (findFirst ... deletedAt: null) *)
(* and then writes by the vehicle's id, in one or more awaited statements. *)
(* One action is one awaited statement; a $transaction is one action, but  *)
(* for unpairVehicle, whose updateMany sees the rows as they were when it  *)
(* ran (READ COMMITTED), not as they are when it commits.                  *)
(***************************************************************************)
EXTENDS Integers, Sequences, FiniteSets

CONSTANTS
    Vehicles,
    Fleets,
    Codes,       \* bound: the pairing codes that can be issued for a vehicle
    Workers,     \* bound: how many HTTP calls may be in flight
    MaxChanges,  \* bound: no call reads a vehicle with that many history rows
    MayFail,     \* whether an awaited statement may reject after the first one
    None         \* no fleet, no task

CallNames == {"create", "status", "delete", "assign", "remove", "transfer",
              "issue", "pair", "unpair"}

ASSUME LifecycleAssumption ==
    /\ IsFiniteSet(Workers) /\ Workers # {}
    /\ MaxChanges \in Nat
    /\ MayFail \in BOOLEAN
    /\ None \notin Fleets

VARIABLES
    status,    \* vehicles.status, "ABSENT" before the row is created
    deleted,   \* vehicles.deletedAt is set
    fleet,     \* vehicles.fleetId
    pairing,   \* vehicles.pairingStatus
    drivers,   \* how many driver_assignments rows of the vehicle are ACTIVE
    code,      \* vehicle_pairings.status of each code of each vehicle
    changes,   \* vehicle_status_history, in commit order
    moves,     \* vehicle_ownership_history, in commit order
    task,      \* the call each worker is running
    events     \* messages on the Kafka topics

rows == <<status, deleted, fleet, pairing, drivers, code>>
history == <<changes, moves>>
vars == <<rows, history, task, events>>

VehicleStatus == {"PENDING", "ACTIVE", "INACTIVE", "MAINTENANCE", "RETIRED",
                  "SOLD", "SUSPENDED", "DECOMMISSIONED"}

ALLOWED_TRANSITIONS ==
    [s \in VehicleStatus |->
        CASE s = "PENDING"     -> {"ACTIVE", "RETIRED", "DECOMMISSIONED"}
          [] s = "ACTIVE"      -> {"INACTIVE", "MAINTENANCE", "SUSPENDED", "RETIRED", "SOLD"}
          [] s = "INACTIVE"    -> {"ACTIVE", "MAINTENANCE", "RETIRED"}
          [] s = "MAINTENANCE" -> {"ACTIVE", "RETIRED", "DECOMMISSIONED"}
          [] s = "SUSPENDED"   -> {"ACTIVE", "DECOMMISSIONED"}
          [] OTHER             -> {}]

PairingStatus == {"PENDING", "ACTIVE", "REVOKED"}

\* LAPSED: the column says PENDING, but expiresAt has passed.
CodeStatus == PairingStatus \cup {"ABSENT", "LAPSED"}

\* A history row, of either table.
StatusRow == [from : VehicleStatus, to : VehicleStatus]
FleetRow  == [from : Fleets \cup {None}, to : Fleets]

\* A call in flight: "at" is its next awaited statement; from and to are what a
\* history row will say; codes are the rows a pairing statement writes.
Task == [call : CallNames, veh : Vehicles,
         at : {"commit", "select", "mark", "release", "create", "emit"},
         from : VehicleStatus \cup Fleets \cup {None},
         to : VehicleStatus \cup Fleets \cup {None},
         codes : SUBSET Codes]

ASSUME NoneAssumption == None \notin Task

Event == [call : CallNames, veh : Vehicles,
          from : VehicleStatus \cup Fleets \cup {None},
          to : VehicleStatus \cup Fleets \cup {None}]

TypeOK ==
    /\ status \in [Vehicles -> VehicleStatus \cup {"ABSENT"}]
    /\ deleted \in [Vehicles -> BOOLEAN]
    /\ fleet \in [Vehicles -> Fleets \cup {None}]
    /\ pairing \in [Vehicles -> PairingStatus]
    /\ drivers \in [Vehicles -> Nat]
    /\ code \in [Vehicles -> [Codes -> CodeStatus]]
    /\ changes \in [Vehicles -> Seq(StatusRow)]
    /\ moves \in [Vehicles -> Seq(FleetRow)]
    /\ task \in [Workers -> Task \cup {None}]
    /\ events \subseteq Event

Init ==
    /\ status = [v \in Vehicles |-> "ABSENT"]
    /\ deleted = [v \in Vehicles |-> FALSE]
    /\ fleet = [v \in Vehicles |-> None]
    /\ pairing = [v \in Vehicles |-> "PENDING"]
    /\ drivers = [v \in Vehicles |-> 0]
    /\ code = [v \in Vehicles |-> [c \in Codes |-> "ABSENT"]]
    /\ changes = [v \in Vehicles |-> <<>>]
    /\ moves = [v \in Vehicles |-> <<>>]
    /\ task = [w \in Workers |-> None]
    /\ events = {}

-----------------------------------------------------------------------------
\* The first read of a call, and how a call goes on

\* Mutant: soft-deleted vehicles are found too
Alive_Deleted(v) == status[v] # "ABSENT"
Alive(v) == status[v] # "ABSENT" /\ ~deleted[v]

NewTask(call, v, at, from, to, codes) ==
    [call |-> call, veh |-> v, at |-> at, from |-> from, to |-> to, codes |-> codes]

Start(w, t) ==
    /\ task[w] = None
    /\ Alive(t.veh)
    /\ task' = [task EXCEPT ![w] = t]
    /\ UNCHANGED <<rows, history, events>>

\* Worker w runs call and its next awaited statement is at.
Running(w, call, at) == task[w] # None /\ task[w].call = call /\ task[w].at = at
Continue(w, at) == task' = [task EXCEPT ![w].at = at]
Finish(w) == task' = [task EXCEPT ![w] = None]

\* Mutant: any transition is taken
Permitted_Any(v, to) == to \in VehicleStatus
Permitted(v, to) == to \in ALLOWED_TRANSITIONS[status[v]]

\* changeStatus: the transition is checked against the status read here
StartStatus(w, v, to) ==
    /\ status[v] # "ABSENT"
    /\ Permitted(v, to)
    /\ Len(changes[v]) < MaxChanges
    /\ Start(w, NewTask("status", v, "commit", status[v], to, {}))

StartDelete(w, v) == Start(w, NewTask("delete", v, "mark", None, None, {}))

StartAssign(w, v) == Start(w, NewTask("assign", v, "release", None, None, {}))

StartRemove(w, v) == Start(w, NewTask("remove", v, "release", None, None, {}))

\* transferVehicle: previousFleetId is the fleet read here
StartTransfer(w, v, to) ==
    /\ Len(moves[v]) < MaxChanges
    /\ Start(w, NewTask("transfer", v, "commit", fleet[v], to, {}))

\* pairVehicle without a code will create one
StartIssue(w, v, c) ==
    /\ code[v][c] = "ABSENT"
    /\ \A x \in Workers : ~(Running(x, "issue", "commit") /\ c \in task[x].codes)
    /\ Start(w, NewTask("issue", v, "commit", None, None, {c}))

\* pairVehicle with a code: its row must be PENDING and not expired
StartPair(w, v, c) ==
    /\ code[v][c] = "PENDING"
    /\ Start(w, NewTask("pair", v, "commit", None, None, {c}))

StartUnpair(w, v) == Start(w, NewTask("unpair", v, "select", None, None, {}))

-----------------------------------------------------------------------------
\* The writes: by the vehicle's id, whatever the row holds by now

\* createVehicle, once its lookups have found no vehicle with that VIN
CreateVehicle(w, v, f) ==
    /\ task[w] = None
    /\ status[v] = "ABSENT"
    /\ status' = [status EXCEPT ![v] = "PENDING"]
    /\ fleet' = [fleet EXCEPT ![v] = f]
    /\ task' = [task EXCEPT ![w] = NewTask("create", v, "emit", None, None, {})]
    /\ UNCHANGED <<deleted, pairing, drivers, code, history, events>>

\* Mutants: the history is not written; it names the status found by the write
AddChange_Not(w) == UNCHANGED changes
AddChange_Current(w) ==
    changes' = [changes EXCEPT ![task[w].veh] =
                   Append(@, [from |-> status[task[w].veh], to |-> task[w].to])]
AddChange(w) ==
    changes' = [changes EXCEPT ![task[w].veh] =
                   Append(@, [from |-> task[w].from, to |-> task[w].to])]

CommitStatus(w) ==
    /\ Running(w, "status", "commit")
    /\ status' = [status EXCEPT ![task[w].veh] = task[w].to]
    /\ AddChange(w)
    /\ Continue(w, "emit")
    /\ UNCHANGED <<deleted, fleet, pairing, drivers, code, moves, events>>

\* Mutant: the columns of the history are swapped
AddMove_Swapped(w) ==
    moves' = [moves EXCEPT ![task[w].veh] =
                 Append(@, [from |-> task[w].to, to |-> task[w].from])]
AddMove(w) ==
    moves' = [moves EXCEPT ![task[w].veh] =
                 Append(@, [from |-> task[w].from, to |-> task[w].to])]

CommitTransfer(w) ==
    /\ Running(w, "transfer", "commit")
    /\ fleet' = [fleet EXCEPT ![task[w].veh] = task[w].to]
    /\ AddMove(w)
    /\ Continue(w, "emit")
    /\ UNCHANGED <<status, deleted, pairing, drivers, code, changes, events>>

\* Mutant: a status the enum does not have
Decommission_Deleted(v) == status' = [status EXCEPT ![v] = "DELETED"]
Decommission(v) == status' = [status EXCEPT ![v] = "DECOMMISSIONED"]

MarkDeleted(w) ==
    /\ Running(w, "delete", "mark")
    /\ Decommission(task[w].veh)
    /\ deleted' = [deleted EXCEPT ![task[w].veh] = TRUE]
    /\ Continue(w, "release")
    /\ UNCHANGED <<fleet, pairing, drivers, code, history, events>>

Release(w) == drivers' = [drivers EXCEPT ![task[w].veh] = 0]

\* driverAssignment.updateMany, of all ACTIVE rows of the vehicle
ReleaseDrivers(w) ==
    /\ \E call \in {"delete", "assign", "remove"} : Running(w, call, "release")
    /\ Release(w)
    /\ CASE task[w].call = "assign" -> Continue(w, "create")
         [] task[w].call = "delete" -> Continue(w, "emit")
         [] OTHER -> Finish(w)
    /\ UNCHANGED <<status, deleted, fleet, pairing, code, history, events>>

CreateAssignment(w) ==
    /\ Running(w, "assign", "create")
    /\ drivers' = [drivers EXCEPT ![task[w].veh] = @ + 1]
    /\ Continue(w, "emit")
    /\ UNCHANGED <<status, deleted, fleet, pairing, code, history, events>>

SetCodes(v, C, st) ==
    code' = [code EXCEPT ![v] = [c \in Codes |-> IF c \in C THEN st ELSE @[c]]]

CommitIssue(w) ==
    /\ Running(w, "issue", "commit")
    /\ SetCodes(task[w].veh, task[w].codes, "PENDING")
    /\ Finish(w)
    /\ UNCHANGED <<status, deleted, fleet, pairing, drivers, history, events>>

\* The row was PENDING when it was read; it is written by its id.
CommitPair(w) ==
    /\ Running(w, "pair", "commit")
    /\ SetCodes(task[w].veh, task[w].codes, "ACTIVE")
    /\ pairing' = [pairing EXCEPT ![task[w].veh] = "ACTIVE"]
    /\ Continue(w, "emit")
    /\ UNCHANGED <<status, deleted, fleet, drivers, history, events>>

\* updateMany: the ACTIVE rows it sees are the ones the transaction revokes
SelectPaired(w) ==
    /\ Running(w, "unpair", "select")
    /\ LET v == task[w].veh IN
       task' = [task EXCEPT ![w] = NewTask("unpair", v, "commit", None, None,
                                           {c \in Codes : code[v][c] = "ACTIVE"})]
    /\ UNCHANGED <<rows, history, events>>

\* Mutant: the vehicle's own column is forgotten
Revoke_Not(v) == UNCHANGED pairing
Revoke(v) == pairing' = [pairing EXCEPT ![v] = "REVOKED"]

CommitUnpair(w) ==
    /\ Running(w, "unpair", "commit")
    /\ SetCodes(task[w].veh, task[w].codes, "REVOKED")
    /\ Revoke(task[w].veh)
    /\ Finish(w)
    /\ UNCHANGED <<status, deleted, fleet, drivers, history, events>>

EmitEvent(w) ==
    /\ task[w] # None
    /\ task[w].at = "emit"
    /\ events' = events \cup {[call |-> task[w].call, veh |-> task[w].veh,
                               from |-> task[w].from, to |-> task[w].to]}
    /\ Finish(w)
    /\ UNCHANGED <<rows, history>>

\* The next awaited statement rejects, or the process dies: nothing is undone.
Abort(w) ==
    /\ MayFail
    /\ task[w] # None
    /\ Finish(w)
    /\ UNCHANGED <<rows, history, events>>

\* Fifteen minutes pass.
ExpireCode(v, c) ==
    /\ code[v][c] = "PENDING"
    /\ SetCodes(v, {c}, "LAPSED")
    /\ UNCHANGED <<status, deleted, fleet, pairing, drivers, history, task, events>>

-----------------------------------------------------------------------------
StartCall(w, v) ==
    \/ \E f \in Fleets \cup {None} : CreateVehicle(w, v, f)
    \/ \E to \in VehicleStatus : StartStatus(w, v, to)
    \/ StartDelete(w, v) \/ StartAssign(w, v) \/ StartRemove(w, v)
    \/ \E f \in Fleets : StartTransfer(w, v, f)
    \/ \E c \in Codes : StartIssue(w, v, c) \/ StartPair(w, v, c)
    \/ StartUnpair(w, v)

TaskStep(w) ==
    \/ CommitStatus(w) \/ CommitTransfer(w) \/ MarkDeleted(w) \/ ReleaseDrivers(w)
    \/ CreateAssignment(w) \/ CommitIssue(w) \/ CommitPair(w)
    \/ SelectPaired(w) \/ CommitUnpair(w) \/ EmitEvent(w)

\* The steps that fail nowhere
Advance ==
    \/ \E w \in Workers, v \in Vehicles : StartCall(w, v)
    \/ \E w \in Workers : TaskStep(w)
    \/ \E v \in Vehicles, c \in Codes : ExpireCode(v, c)

Next == Advance \/ \E w \in Workers : Abort(w)

Spec == Init /\ [][Next]_vars
-----------------------------------------------------------------------------
\* Properties of all interleavings

\* However calls overlap, the histories end with what the vehicle row says: each
\* row is written in the transaction that changes the vehicle.  Only
\* deleteVehicle writes a status that leaves no row.
HistoryTellsCurrent ==
    \A v \in Vehicles :
        /\ \/ status[v] = "ABSENT"
           \/ deleted[v] /\ status[v] = "DECOMMISSIONED"
           \/ status[v] = IF changes[v] = <<>> THEN "PENDING"
                                               ELSE changes[v][Len(changes[v])].to
        /\ moves[v] # <<>> => fleet[v] = moves[v][Len(moves[v])].to

\* A history row may name a status or fleet that is no longer the one replaced,
\* for it was read earlier, but always one the vehicle has had; and the status
\* change it records is one of ALLOWED_TRANSITIONS.
HistoryIsGrounded ==
    \A v \in Vehicles :
        /\ \A i \in DOMAIN changes[v] :
              /\ changes[v][i].to \in ALLOWED_TRANSITIONS[changes[v][i].from]
              /\ \/ changes[v][i].from = "PENDING"
                 \/ \E j \in 1 .. (i - 1) : changes[v][j].to = changes[v][i].from
        /\ \A i \in DOMAIN moves[v] :
              \/ moves[v][i].from = moves[v][1].from
              \/ \E j \in 1 .. (i - 1) : moves[v][j].to = moves[v][i].from

\* What Kafka is told of a status change or a transfer is in its history table,
\* and a vehicle announced as deleted is deleted, for ever.
AnnouncedIsRecorded ==
    \A e \in events :
        /\ e.call = "status" => \E i \in DOMAIN changes[e.veh] :
                                    changes[e.veh][i] = [from |-> e.from, to |-> e.to]
        /\ e.call = "transfer" => \E i \in DOMAIN moves[e.veh] :
                                      moves[e.veh][i] = [from |-> e.from, to |-> e.to]
        /\ e.call = "delete" => deleted[e.veh]

\* assignDriver calls that have released the drivers and not yet created theirs.
Assigning(v) == {w \in Workers : Running(w, "assign", "create") /\ task[w].veh = v}

\* Overlapping assignDriver calls may leave several ACTIVE drivers, but no more
\* than the calls that overlap, counting those still to come.
DriversBounded ==
    \A v \in Vehicles : drivers[v] + Cardinality(Assigning(v)) <= Cardinality(Workers)

\* A vehicle shown as paired has a code that paired it, also when pairVehicle and
\* unpairVehicle overlap (the converse may fail); and it has no more drivers than
\* calls overlap.
PairedHasCode ==
    /\ \A v \in Vehicles : pairing[v] = "ACTIVE" => \E c \in Codes : code[v][c] = "ACTIVE"
    /\ DriversBounded

\* No call in flight has read v.
Quiet(v) == \A w \in Workers : task[w] # None => task[w].veh # v

\* deletedAt is for ever: after the calls in flight have ended, no call starts on
\* a deleted vehicle and nothing of it changes.
DeletedIsFrozen ==
    [][\A v \in Vehicles : deleted[v] /\ Quiet(v) =>
          /\ Quiet(v)'
          /\ <<status[v], deleted[v], fleet[v], pairing[v], drivers[v], changes[v], moves[v]>>'
           = <<status[v], deleted[v], fleet[v], pairing[v], drivers[v], changes[v], moves[v]>>
      ]_vars

-----------------------------------------------------------------------------
\* Calls that neither overlap nor fail

VARIABLE alone  \* whether those of this behaviour are such calls

OneBusy == \A w, x \in Workers : task'[w] # None /\ task'[x] # None => w = x

ServiceNext ==
    /\ IF alone THEN Advance /\ OneBusy ELSE Next
    /\ UNCHANGED alone

ServiceSpec == Init /\ alone \in BOOLEAN /\ [][ServiceNext]_<<vars, alone>>

\* What the repository says of the service holds of such calls.  Two that overlap
\* violate each of these (see the README).

\* "Ensures ONLY 1 active driver", vehicles.service.ts:278.
OneActiveDriver == \A v \in Vehicles : drivers[v] <= 1

\* "Status transition state machine map", vehicles.service.ts:34: apart from
\* deleteVehicle, each step of the status follows ALLOWED_TRANSITIONS.
StatusFollowsMap ==
    \A v \in Vehicles :
        \/ status'[v] = status[v]
        \/ status[v] = "ABSENT"
        \/ ~deleted[v] /\ deleted'[v]
        \/ status'[v] \in ALLOWED_TRANSITIONS[status[v]]

\* "Release any active driver assignments", vehicles.service.ts:253: once no call
\* is in flight, a deleted vehicle has no driver.
DeletedHasNoDriver == \A v \in Vehicles : deleted[v] /\ Quiet(v) => drivers[v] = 0

\* The pairing columns agree: unpairVehicle revokes the codes it unpairs.
PairingAgrees ==
    \A v \in Vehicles : pairing[v] = "ACTIVE" <=> \E c \in Codes : code[v][c] = "ACTIVE"

\* Each history row begins where the one before it ended.
HistoryIsChain ==
    \A v \in Vehicles :
        /\ \A i \in 2 .. Len(changes[v]) : changes[v][i].from = changes[v][i - 1].to
        /\ \A i \in 2 .. Len(moves[v]) : moves[v][i].from = moves[v][i - 1].to

\* Where calls neither overlap nor fail, the vehicle keeps what the repository says
\* of it: one driver, none once deleted, pairing columns that agree, history rows
\* that join, and the status map.
SerialAgrees ==
    [][alone => /\ OneActiveDriver' /\ DeletedHasNoDriver' /\ PairingAgrees'
                /\ HistoryIsChain'
                /\ StatusFollowsMap]_vars
=============================================================================
