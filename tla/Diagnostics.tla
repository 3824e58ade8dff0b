----------------------------- MODULE Diagnostics -----------------------------
(***************************************************************************)
(* The diagnostics service, for one vehicle: apps/diagnostics-service.  It *)
(* takes each message of vis.telemetry.processed, records the trouble      *)
(* codes its rules find and scores the vehicle's health.  One action is    *)
(* one awaited statement.  Nothing ever resolves a code.                   *)
(***************************************************************************)
EXTENDS KafkaConsumer, FiniteSets

CONSTANTS
    Messages,
    Codes,
    CodesOf,   \* the codes evaluateRules finds in a message, in this order
    Faulty     \* the messages whose health result comes with recommendations

DiagnosticsAssumption ==
    /\ CodesOf \in [Messages -> Seq(Codes)]
    /\ Faulty \subseteq Messages
    /\ MayFail \in BOOLEAN
    /\ None \notin Codes
    /\ IsFiniteSet(Workers)

VARIABLES
    dtc,       \* dtcs: the occurrenceCount of each ACTIVE row of a code
    logged,    \* MongoDB: how many diagnostic events of a code
    told,      \* how many vis.diagnostic.detected of a code
    health,    \* Redis vehicle:<id>:health: the ACTIVE rows it scores, or None
    advised,   \* maintenance_recommendations: the messages they come from
    updates    \* the rows each vis.vehicle.health_updated counts

store == <<dtc, logged, told, health, advised, updates>>
vars == <<inbox, delivery, store>>

\* A row, by its code and its place among the rows of that code
Rows == Codes \X (Nat \ {0})

\* left: the rules still to handle; row: the row findFirst has found for the first
\* of them, 0 if none; seen: the ACTIVE rows findMany has found
Task == [at : {"detect", "write", "log", "tell", "score", "cache", "advise", "emit"},
         msg : Nat, pos : Messages, left : Seq(Codes), row : Nat, seen : SUBSET Rows]

TypeOK ==
    /\ inbox \in Seq(Messages)
    /\ taken \subseteq DOMAIN inbox /\ again \subseteq DOMAIN inbox
    /\ task \in [Workers -> Task \cup {None}]
    /\ dtc \in [Codes -> Seq(Nat \ {0})]
    /\ logged \in [Codes -> Nat] /\ told \in [Codes -> Nat]
    /\ health \in (SUBSET Rows) \cup {None}
    /\ advised \subseteq Messages
    /\ updates \subseteq SUBSET Rows

Init ==
    /\ inbox = <<>>
    /\ DeliveryInit
    /\ dtc = [c \in Codes |-> <<>>]
    /\ logged = [c \in Codes |-> 0] /\ told = [c \in Codes |-> 0]
    /\ health = None /\ advised = {} /\ updates = {}

-----------------------------------------------------------------------------
Receive(w, i) ==
    /\ Deliver(w, i, [at |-> IF CodesOf[inbox[i]] = <<>> THEN "score" ELSE "detect",
                      msg |-> i, pos |-> inbox[i], left |-> CodesOf[inbox[i]],
                      row |-> 0, seen |-> {}])
    /\ UNCHANGED <<inbox, store>>

Code(w) == Head(task[w].left)

\* The row findFirst may answer with: an ACTIVE one of the code, whichever
\* Mutant: it is not looked for
FoundRows_None(c) == {0}
FoundRows(c) == IF dtc[c] = <<>> THEN {0} ELSE DOMAIN dtc[c]

FindDtc(w) ==
    /\ Running(w, "detect")
    /\ \E r \in FoundRows(Code(w)) :
          task' = [task EXCEPT ![w].at = "write", ![w].row = r]
    /\ UNCHANGED <<inbox, taken, again, store>>

\* occurrenceCount is incremented by the database, or begins with 1.
\* Mutant: it begins with 0
Count_FromZero(rows, r) == IF r = 0 THEN Append(rows, 0) ELSE [rows EXCEPT ![r] = @ + 1]
Count(rows, r) == IF r = 0 THEN Append(rows, 1) ELSE [rows EXCEPT ![r] = @ + 1]

WriteDtc(w) ==
    /\ Running(w, "write")
    /\ dtc' = [dtc EXCEPT ![Code(w)] = Count(@, task[w].row)]
    /\ Continue(w, "log")
    /\ UNCHANGED <<inbox, taken, again, logged, told, health, advised, updates>>

LogDtc(w) ==
    /\ Running(w, "log")
    /\ logged' = [logged EXCEPT ![Code(w)] = @ + 1]
    /\ Continue(w, "tell")
    /\ UNCHANGED <<inbox, taken, again, dtc, told, health, advised, updates>>

TellDtc(w) ==
    /\ Running(w, "tell")
    /\ told' = [told EXCEPT ![Code(w)] = @ + 1]
    /\ task' = [task EXCEPT ![w].left = Tail(@),
                            ![w].at = IF Len(task[w].left) = 1 THEN "score" ELSE "detect"]
    /\ UNCHANGED <<inbox, taken, again, dtc, logged, health, advised, updates>>

-----------------------------------------------------------------------------
\* processTelemetryDiagnostics, after the rules

ActiveRows == UNION {{c} \X DOMAIN dtc[c] : c \in Codes}

ReadActive(w) ==
    /\ Running(w, "score")
    /\ task' = [task EXCEPT ![w].at = "cache", ![w].seen = ActiveRows]
    /\ UNCHANGED <<inbox, taken, again, store>>

\* The score (see Calculations) calls for a recommendation only with a fault, and
\* then depends on the rows seen: either may follow.
CacheHealth(w) ==
    /\ Running(w, "cache")
    /\ health' = task[w].seen
    /\ \/ task[w].pos \in Faulty /\ Continue(w, "advise")
       \/ Continue(w, "emit")
    /\ UNCHANGED <<inbox, taken, again, dtc, logged, told, advised, updates>>

Advise(w) ==
    /\ Running(w, "advise")
    /\ advised' = advised \cup {task[w].pos}
    /\ Continue(w, "emit")
    /\ UNCHANGED <<inbox, taken, again, dtc, logged, told, health, updates>>

EmitHealth(w) ==
    /\ Running(w, "emit")
    /\ updates' = updates \cup {task[w].seen}
    /\ Finish(w)
    /\ UNCHANGED <<inbox, taken, again, dtc, logged, told, health, advised>>

\* The health key lives a day.
ExpireHealth ==
    /\ health # None
    /\ health' = None
    /\ UNCHANGED <<inbox, delivery, dtc, logged, told, advised, updates>>

Fail(w) == Reject(w) /\ UNCHANGED <<inbox, store>>
Recommit(i) == Redeliver(i) /\ UNCHANGED <<inbox, store>>

Handle(w) ==
    \/ \E i \in DOMAIN inbox : Receive(w, i)
    \/ FindDtc(w) \/ WriteDtc(w) \/ LogDtc(w) \/ TellDtc(w)
    \/ ReadActive(w) \/ CacheHealth(w) \/ Advise(w) \/ EmitHealth(w)

Own ==
    \/ \E w \in Workers : Handle(w) \/ Fail(w)
    \/ \E i \in taken : Recommit(i)
    \/ ExpireHealth

\* The telemetry service announces a message.
Arrive(m) ==
    /\ inbox' = Append(inbox, m)
    /\ UNCHANGED <<delivery, store>>

Next == Own \/ \E m \in Messages : Arrive(m)

Spec == Init /\ [][Next]_vars
-----------------------------------------------------------------------------
\* The occurrences the rows of a code count, by row and number.
Occurrences(c) == UNION {{r} \X (1 .. dtc[c][r]) : r \in DOMAIN dtc[c]}

\* However replicas, failures and redeliveries interleave, no detection is lost:
\* an event logged or announced is counted, in one of the rows of its code; and
\* only calls that overlap make more than one row.
DetectionsAreCounted ==
    \A c \in Codes :
        /\ told[c] <= logged[c] /\ logged[c] <= Cardinality(Occurrences(c))
        /\ Len(dtc[c]) <= Cardinality(Workers)

\* What the health score counts are rows there are, in Redis and on Kafka.
HealthIsGrounded ==
    /\ health # None => health \subseteq ActiveRows
    /\ \A rows \in updates : rows \subseteq ActiveRows

\* handleDtcDetection looks for an ACTIVE code before it creates one: messages
\* handled one at a time leave one row, and a cached score that counts them all.
OneRowPerCode == \A c \in Codes : Len(dtc[c]) <= 1
HealthIsCurrent == Quiet /\ taken # {} => health = ActiveRows
=============================================================================
