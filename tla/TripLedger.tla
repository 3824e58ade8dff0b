----------------------------- MODULE TripLedger -----------------------------
(***************************************************************************)
(* What the trip service promises about the trips of a vehicle, however    *)
(* its replicas and its clients interleave and whichever calls fail.  A    *)
(* trip is opened once and closed for good; its row may forget samples,    *)
(* but tells of none for which there is no evidence, unless whoever closes *)
(* it states a distance of his own; and what the topics are told of it is  *)
(* so already.  It does not promise that a trip is ever closed, nor that   *)
(* only one is open.                                                       *)
(***************************************************************************)
EXTENDS Integers

CONSTANT Trips

VARIABLES status, samples, stated, evidence, announced

vars == <<status, samples, stated, evidence, announced>>

Init ==
    /\ status = [t \in Trips |-> "ABSENT"]
    /\ samples = [t \in Trips |-> 0]
    /\ stated = {}
    /\ evidence = [t \in Trips |-> 0]
    /\ announced = {}

Recorded(t) == status[t] # "ABSENT"

\* The row is written by someone who knows of that many samples, or who states them.
Write(t, st) ==
    /\ status' = [status EXCEPT ![t] = st]
    /\ samples' = [samples EXCEPT ![t] = samples'[t]]
    /\ t \in stated' \/ samples'[t] \in 0 .. evidence'[t]
    /\ UNCHANGED announced

Measure(t) == stated' = stated \ {t}
State(t) == stated' = stated \cup {t}

Open(t) == ~Recorded(t) /\ Write(t, "IN_PROGRESS") /\ Measure(t)
Update(t) == Recorded(t) /\ Write(t, status[t]) /\ Measure(t)
Close(t) == Recorded(t) /\ Write(t, "COMPLETED") /\ (Measure(t) \/ State(t))

Announce(t, topic) ==
    /\ topic = "TRIP_STARTED" => Recorded(t)
    /\ topic = "TRIP_COMPLETED" => status[t] = "COMPLETED"
    /\ announced' = announced \cup {<<topic, t>>}
    /\ UNCHANGED <<status, samples, stated>>

\* Meanwhile evidence comes in, and stays.
Gather == \A t \in Trips : evidence'[t] >= evidence[t]

Next ==
    /\ Gather
    /\ \/ UNCHANGED <<status, samples, stated, announced>>
       \/ \E t \in Trips :
              \/ Open(t) \/ Update(t) \/ Close(t)
              \/ Announce(t, "TRIP_STARTED") \/ Announce(t, "TRIP_COMPLETED")

Spec == Init /\ [][Next]_vars
=============================================================================
