------------------------- MODULE MCVehicleLifecycle -------------------------
(***************************************************************************)
(* Instances of VehicleLifecycle for TLC.  Vehicles do not interact, so an *)
(* instance has one.                                                       *)
(***************************************************************************)
EXTENDS VehicleLifecycle, TLC

CONSTANT Groups, SerialGroups  \* bound: a behaviour makes the calls of one of these sets

VARIABLE group  \* the calls of this behaviour

MCInit ==
    /\ Init
    /\ group \in Groups \cup SerialGroups
    /\ alone = (group \in SerialGroups)

\* Bound: history rows of a vehicle whose calls do not overlap
FewRows == \A v \in Vehicles : Len(changes'[v]) + Len(moves'[v]) <= 3

MCNext ==
    /\ ServiceNext
    /\ alone => FewRows
    /\ \A w \in Workers : task'[w] # None => task'[w].call \in group
    /\ UNCHANGED group

MCSpec == MCInit /\ [][MCNext]_<<vars, group, alone>>

DriverCalls == {"create", "assign", "remove", "delete"}

\* The calls that write the same columns: apart, so that the columns of one group
\* do not multiply the states of another.  deleteVehicle is in each of them.
ByColumns == {{"create", "status", "delete"},
              {"create", "transfer", "delete"},
              DriverCalls,
              {"create", "issue", "pair", "unpair", "delete"}}
Together    == {CallNames}
DriversOnly == {DriverCalls}
Nothing     == {}

Symmetry == Permutations(Fleets) \cup Permutations(Codes) \cup Permutations(Workers)
=============================================================================
