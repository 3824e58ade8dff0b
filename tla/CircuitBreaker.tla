--------------------------- MODULE CircuitBreaker ---------------------------
(***************************************************************************)
(* libs/resilience/src/circuit-breaker.service.ts, one breaker.  A call it *)
(* lets through runs on a worker until its promise settles; no statement   *)
(* of the breaker itself is awaited.                                       *)
(***************************************************************************)
EXTENDS Calls

CONSTANTS
    Threshold,   \* failureThreshold
    MaxFailures  \* bound: no call starts after that many consecutive failures

BreakerAssumption == Threshold \in Nat \ {0} /\ MaxFailures \in Nat

VARIABLES
    state,
    failureCount,
    rested       \* Date.now() - lastFailureTime > resetTimeoutMs

vars == <<task, state, failureCount, rested>>

CircuitState == {"CLOSED", "OPEN", "HALF_OPEN"}

TypeOK ==
    /\ task \in [Workers -> {"call", None}]
    /\ state \in CircuitState
    /\ failureCount \in Nat
    /\ rested \in BOOLEAN

Init == CallsInit /\ state = "CLOSED" /\ failureCount = 0 /\ rested = TRUE

Execute(w) ==
    /\ failureCount < MaxFailures
    /\ state = "OPEN" => rested
    /\ Begin(w, "call")
    /\ state' = IF state = "OPEN" THEN "HALF_OPEN" ELSE state
    /\ UNCHANGED <<failureCount, rested>>

onSuccess(w) ==
    /\ task[w] = "call"
    /\ failureCount' = 0
    /\ state' = IF state = "HALF_OPEN" THEN "CLOSED" ELSE state
    /\ Finish(w)
    /\ UNCHANGED rested

\* Mutant: one failure more
Trips_Late(n) == n > Threshold
Trips(n) == n >= Threshold

onFailure(w) ==
    /\ task[w] = "call"
    /\ failureCount' = failureCount + 1
    /\ rested' = FALSE
    /\ state' = IF Trips(failureCount + 1) THEN "OPEN" ELSE state
    /\ Finish(w)

Rest == rested' = TRUE /\ UNCHANGED <<task, state, failureCount>>

Next == Rest \/ \E w \in Workers : Execute(w) \/ onSuccess(w) \/ onFailure(w)

Spec == Init /\ [][Next]_vars
-----------------------------------------------------------------------------
\* However calls overlap: a closed breaker has not seen Threshold failures in a row.
ClosedIsBelow == state = "CLOSED" => failureCount < Threshold

\* Calls that do not overlap: an open breaker has, and a breaker is HALF_OPEN only
\* while its trial call runs, so a failing trial opens it again.  A call that was
\* let through before and succeeds while the breaker is OPEN resets the count, and
\* the next trial may fail without opening it.
TrialDecides ==
    /\ state = "OPEN" => failureCount >= Threshold
    /\ state = "HALF_OPEN" => ~Quiet

\* Of each step, however calls overlap: an open breaker is left by a trial after the
\* rest, never by the late success of a call that was let through before.
OpenIsLeftByTrial == state = "OPEN" /\ state' # "OPEN" => state' = "HALF_OPEN" /\ rested
=============================================================================
