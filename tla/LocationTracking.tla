-------------------------- MODULE LocationTracking --------------------------
(***************************************************************************)
(* The location service, for one vehicle: apps/location-service.  It takes *)
(* each message of vis.telemetry.processed, stores and caches the position *)
(* and compares it with the geofences of the fleet.  A message is the time *)
(* it was measured at.  One action is one awaited statement.               *)
(***************************************************************************)
EXTENDS KafkaConsumer

CONSTANTS
    Messages,
    Fences,    \* bound: the geofences the fleet ever has
    FencesAt,  \* the fences a message's position lies in
    Tracked    \* the messages that name a fleet

ASSUME LocationAssumption ==
    /\ Messages \subseteq Nat
    /\ FencesAt \in [Messages -> SUBSET Fences]
    /\ Tracked \subseteq Messages
    /\ MayFail \in BOOLEAN
    /\ None \notin Messages \cup Fences

VARIABLES
    points,    \* MongoDB: the messages whose position is stored
    cached,    \* Redis vehicle:<id>:location
    fence,     \* MongoDB: the state of each geofence
    flag,      \* Redis: the fences with a key vehicle:<id>:geofence:<fence>
    lapsed,    \* history: the fences whose key has expired since a crossing was told
    crossings, \* vis.geofence.entered and .exited, by fence
    updated    \* the messages announced on vis.location.updated

store == <<points, cached, fence, flag, lapsed>>
vars == <<inbox, delivery, store, crossings, updated>>

FenceState == {"NEW", "ACTIVE", "INACTIVE", "DELETED"}

\* left: the fences evaluateGeofences has still to look at; on: the one it has
\* just read the flag of
Task == [at : {"store", "cache", "fences", "get", "flag", "cross", "announce", "fill"},
         msg : Nat, pos : Messages, left : SUBSET Fences, on : Fences \cup {None}]

ASSUME NoneAssumption == None \notin Task

TypeOK ==
    /\ inbox \in Seq(Messages)
    /\ taken \subseteq DOMAIN inbox /\ again \subseteq DOMAIN inbox
    /\ task \in [Workers -> Task \cup {None}]
    /\ points \subseteq Messages /\ updated \subseteq Messages
    /\ cached \in Messages \cup {None}
    /\ fence \in [Fences -> FenceState]
    /\ flag \subseteq Fences /\ lapsed \subseteq Fences
    /\ crossings \in [Fences -> Seq({"ENTERED", "EXITED"})]

Init ==
    /\ inbox = <<>>
    /\ DeliveryInit
    /\ points = {} /\ updated = {} /\ flag = {} /\ lapsed = {}
    /\ cached = None
    /\ fence = [f \in Fences |-> "NEW"]
    /\ crossings = [f \in Fences |-> <<>>]

-----------------------------------------------------------------------------
\* processLocation

\* Mutant: the point is not stored
Receive_Unstored(w, i) ==
    /\ Deliver(w, i, [at |-> "cache", msg |-> i, pos |-> inbox[i], left |-> {}, on |-> None])
    /\ UNCHANGED <<inbox, store, crossings, updated>>
Receive(w, i) ==
    /\ Deliver(w, i, [at |-> "store", msg |-> i, pos |-> inbox[i], left |-> {}, on |-> None])
    /\ UNCHANGED <<inbox, store, crossings, updated>>

StorePoint(w) ==
    /\ Running(w, "store")
    /\ points' = points \cup {task[w].pos}
    /\ Continue(w, "cache")
    /\ UNCHANGED <<inbox, taken, again, cached, fence, flag, lapsed, crossings, updated>>

CacheLocation(w) ==
    /\ Running(w, "cache")
    /\ cached' = task[w].pos
    /\ Continue(w, IF task[w].pos \in Tracked THEN "fences" ELSE "announce")
    /\ UNCHANGED <<inbox, taken, again, points, fence, flag, lapsed, crossings, updated>>

\* The loop over the fences, when those of left are still to be looked at
LookAt(w, left) ==
    task' = [task EXCEPT ![w].left = left, ![w].on = None,
                         ![w].at = IF left = {} THEN "announce" ELSE "get"]

ReadFences(w) ==
    /\ Running(w, "fences")
    /\ LookAt(w, {f \in Fences : fence[f] = "ACTIVE"})
    /\ UNCHANGED <<inbox, taken, again, store, crossings, updated>>

Inside(w, f) == f \in FencesAt[task[w].pos]

\* Mutant: the flag is not looked at
Crossed_Always(w, f) == TRUE
Crossed(w, f) == Inside(w, f) # (f \in flag)

ReadFlag(w, f) ==
    /\ Running(w, "get")
    /\ f \in task[w].left
    /\ IF Crossed(w, f)
       THEN task' = [task EXCEPT ![w].at = "flag", ![w].on = f]
       ELSE LookAt(w, task[w].left \ {f})
    /\ UNCHANGED <<inbox, taken, again, store, crossings, updated>>

WriteFlag(w) ==
    /\ Running(w, "flag")
    /\ flag' = IF Inside(w, task[w].on) THEN flag \cup {task[w].on}
                                        ELSE flag \ {task[w].on}
    /\ Continue(w, "cross")
    /\ UNCHANGED <<inbox, taken, again, points, cached, fence, lapsed, crossings, updated>>

EmitCrossing(w) ==
    /\ Running(w, "cross")
    /\ crossings' = [crossings EXCEPT ![task[w].on] =
                        Append(@, IF Inside(w, task[w].on) THEN "ENTERED" ELSE "EXITED")]
    /\ lapsed' = lapsed \ {task[w].on}
    /\ LookAt(w, task[w].left \ {task[w].on})
    /\ UNCHANGED <<inbox, taken, again, points, cached, fence, flag, updated>>

AnnounceLocation(w) ==
    /\ Running(w, "announce")
    /\ updated' = updated \cup {task[w].pos}
    /\ Finish(w)
    /\ UNCHANGED <<inbox, taken, again, store, crossings>>

-----------------------------------------------------------------------------
\* getLatest, when Redis has no entry: the newest point is cached
StartLatest(w) ==
    /\ cached = None
    /\ \E m \in points :
          /\ \A n \in points : n <= m
          /\ Call(w, [at |-> "fill", msg |-> 0, pos |-> m, left |-> {}, on |-> None])
    /\ UNCHANGED <<inbox, store, crossings, updated>>

FillLatest(w) ==
    /\ Running(w, "fill")
    /\ cached' = task[w].pos
    /\ Finish(w)
    /\ UNCHANGED <<inbox, taken, again, points, fence, flag, lapsed, crossings, updated>>

\* createGeofence, updateGeofence (dto.active) and deleteGeofence
SetFence(f, st) ==
    /\ IF st = "DELETED" THEN fence[f] \in {"ACTIVE", "INACTIVE"}
                         ELSE fence[f] # "DELETED"
    /\ fence' = [fence EXCEPT ![f] = st]
    /\ UNCHANGED <<inbox, delivery, points, cached, flag, lapsed, crossings, updated>>

\* Both keys live a day; the flag is not renewed while the vehicle stays inside.
ExpireLocation ==
    /\ cached' = None
    /\ UNCHANGED <<inbox, delivery, points, fence, flag, lapsed, crossings, updated>>

ExpireFlag(f) ==
    /\ f \in flag
    /\ flag' = flag \ {f}
    /\ lapsed' = lapsed \cup {f}
    /\ UNCHANGED <<inbox, delivery, points, cached, fence, crossings, updated>>

\* A key lives longer than the statement between its SET and the crossing's event.
Outlive(f) ==
    /\ \A w \in Workers : ~(Running(w, "cross") /\ task[w].on = f)
    /\ ExpireFlag(f)

Fail(w) == Reject(w) /\ UNCHANGED <<inbox, store, crossings, updated>>

Recommit(i) == Redeliver(i) /\ UNCHANGED <<inbox, store, crossings, updated>>

Handle(w) ==
    \/ \E i \in DOMAIN inbox : Receive(w, i)
    \/ StorePoint(w) \/ CacheLocation(w) \/ ReadFences(w)
    \/ \E f \in Fences : ReadFlag(w, f)
    \/ WriteFlag(w) \/ EmitCrossing(w) \/ AnnounceLocation(w)

Serve(w) == StartLatest(w) \/ FillLatest(w)

Manage == \E f \in Fences, st \in FenceState \ {"NEW"} : SetFence(f, st)

Lapse == ExpireLocation \/ \E f \in Fences : ExpireFlag(f)

Own ==
    \/ \E w \in Workers : Handle(w) \/ Serve(w) \/ Fail(w)
    \/ \E i \in taken : Recommit(i)
    \/ Manage \/ Lapse

\* The telemetry service announces a message.
Arrive(m) ==
    /\ inbox' = Append(inbox, m)
    /\ UNCHANGED <<delivery, store, crossings, updated>>

Next == Own \/ \E m \in Messages : Arrive(m)

Spec == Init /\ [][Next]_vars

\* Nothing fails; keys expire.
Steady ==
    \/ \E w \in Workers : Handle(w) \/ Serve(w)
    \/ Manage \/ ExpireLocation \/ \E f \in Fences : Outlive(f)
    \/ \E m \in Messages : Arrive(m)

SteadySpec == Init /\ [][Steady]_vars
-----------------------------------------------------------------------------
\* However replicas, failures and redeliveries interleave: what is cached or
\* announced has been stored, and what has been stored had been announced.
LocationIsStored ==
    /\ cached # None => cached \in points
    /\ updated \subseteq points
    /\ points \subseteq {inbox[i] : i \in DOMAIN inbox}

\* With one worker, SteadySpec implements Crossing!Spec: of messages handled one at a
\* time the crossings alternate, but for an entry told again after the flag, which
\* nothing renews, has expired; also when geofences come and go.
Crossing == INSTANCE GeofenceCrossing WITH Fences <- Fences, told <- crossings

\* The same: the flag says what was announced last, but for the crossing under way,
\* until it expires.
FlagIsTold ==
    \A f \in Fences :
        (\A w \in Workers : ~(Running(w, "cross") /\ task[w].on = f)) =>
            (f \in flag <=> Crossing!Entered(f) /\ f \notin lapsed)

=============================================================================
