-------------------------- MODULE GeofenceCrossing --------------------------
(***************************************************************************)
(* What a reader of vis.geofence.entered and vis.geofence.exited may count *)
(* on: for each geofence, the vehicle is told to leave only when it was    *)
(* told to enter last, and to enter once more only when the service has    *)
(* forgotten since that it is inside.                                      *)
(***************************************************************************)
EXTENDS Integers, Sequences

CONSTANT Fences

VARIABLES
    told,   \* for each fence, what was announced, in order
    lapsed  \* the fences of which it was forgotten since

Init == told = [f \in Fences |-> <<>>] /\ lapsed = {}

\* ENTERED was announced last.
Entered(f) == told[f] # <<>> /\ told[f][Len(told[f])] = "ENTERED"

Tell(f, what) ==
    /\ told' = [told EXCEPT ![f] = Append(@, what)]
    /\ lapsed' = lapsed \ {f}

Enter(f) == (Entered(f) => f \in lapsed) /\ Tell(f, "ENTERED")
Leave(f) == Entered(f) /\ Tell(f, "EXITED")

Forget(f) ==
    /\ Entered(f)
    /\ lapsed' = lapsed \cup {f}
    /\ UNCHANGED told

Next == \E f \in Fences : Enter(f) \/ Leave(f) \/ Forget(f)

Spec == Init /\ [][Next]_<<told, lapsed>>
=============================================================================
