------------------------------- MODULE Calls -------------------------------
(***************************************************************************)
(* Calls of a service that are in flight at the same time: each runs on a  *)
(* worker, one awaited statement after the other, and between two of them  *)
(* the others go on.                                                       *)
(***************************************************************************)
EXTENDS Integers

CONSTANTS
    Workers,   \* bound: how many calls may be in flight
    MayFail,   \* whether an awaited statement may reject after the first one
    None       \* no task

VARIABLE task  \* what each worker is doing, its next statement in task[w].at

Running(w, at) == task[w] # None /\ task[w].at = at
Continue(w, at) == task' = [task EXCEPT ![w].at = at]
Finish(w) == task' = [task EXCEPT ![w] = None]
Quiet == \A w \in Workers : task[w] = None

Begin(w, t) ==
    /\ task[w] = None
    /\ task' = [task EXCEPT ![w] = t]

\* The next statement rejects, or the process dies: nothing is undone.
Abandon(w) ==
    /\ MayFail
    /\ task[w] # None
    /\ Finish(w)

CallsInit == task = [w \in Workers |-> None]
=============================================================================
