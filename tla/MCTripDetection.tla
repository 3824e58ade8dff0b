-------------------------- MODULE MCTripDetection --------------------------
(***************************************************************************)
(* Instances of TripDetection for TLC.                                     *)
(***************************************************************************)
EXTENDS TripDetection, TLC

CONSTANT Modes  \* of these, each behaviour has one

\* A message may be stamped ahead of the clock of the service.
AllStamps == -1 .. IdleTimeout

MCInit == Init /\ alone \in Modes

\* Bounds, where the replica is disturbed: the samples of a trip; and the clock stands,
\* for a trip that is timed out goes the way of one whose ignition is off.
Bounded ==
    /\ \A w \in Workers : task'[w] # None =>
           /\ task'[w].op = "declare" \/ task'[w].count < MaxSamples
           /\ task'[w].op # "timeout"
    /\ UNCHANGED clock

MCNext == ServiceNext /\ (alone \/ Bounded)

MCSpec == MCInit /\ [][MCNext]_<<vars, alone>>

Symmetry == Permutations(Trips) \cup Permutations(Workers)
=============================================================================
