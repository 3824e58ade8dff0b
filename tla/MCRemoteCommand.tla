-------------------------- MODULE MCRemoteCommand --------------------------
(***************************************************************************)
(* Instances of RemoteCommand for TLC.                                     *)
(***************************************************************************)
EXTENDS RemoteCommand, TLC

\* Every command goes to the one vehicle: they share its Redis key.
MCVehicleOf == [c \in Commands |-> CHOOSE v \in Vehicles : TRUE]

\* bound: a behaviour is about one command with everything that may happen to it,
\* or about several that do not time out, with one handler at a time and two reports.
VARIABLE several

MCNext ==
    /\ Next
    /\ IF several
       THEN /\ Cardinality({w \in Workers : task'[w] # None}) <= 1
            /\ \A w \in Workers : task'[w] # None => task'[w].op # "timeout"
            /\ \A c \in Commands : request'[c] # "aborted"
            /\ Cardinality(reports') <= 2
       ELSE Cardinality({c \in Commands : status'[c] # "ABSENT"}) <= 1
    /\ UNCHANGED several

MCInit == Init /\ several \in BOOLEAN

MCSpec == MCInit /\ [][MCNext]_<<vars, several>>

Symmetry == Permutations(Commands) \cup Permutations(Workers)
=============================================================================
