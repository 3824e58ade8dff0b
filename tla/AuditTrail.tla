----------------------------- MODULE AuditTrail -----------------------------
(***************************************************************************)
(* The audit service: apps/audit-service.  Each message of sixteen topics  *)
(* makes a row of audit_logs and then, its metadata being never empty, a   *)
(* document in MongoDB that names the row.  Nothing updates or deletes     *)
(* either.                                                                 *)
(***************************************************************************)
EXTENDS KafkaConsumer, FiniteSets

VARIABLES
    logs,      \* audit_logs: the message each row is about, by its place
    details    \* MongoDB: the rows that have a document

vars == <<inbox, delivery, logs, details>>

Task == [at : {"log", "detail"}, msg : Nat, row : Nat]

TypeOK ==
    /\ taken \subseteq DOMAIN inbox /\ again \subseteq DOMAIN inbox
    /\ task \in [Workers -> Task \cup {None}]
    /\ logs \in Seq(Nat)
    /\ details \subseteq DOMAIN logs

Init == inbox = <<>> /\ DeliveryInit /\ logs = <<>> /\ details = {}

Receive(w, i) ==
    /\ Deliver(w, i, [at |-> "log", msg |-> i, row |-> 0])
    /\ UNCHANGED <<inbox, logs, details>>

LogAudit(w) ==
    /\ Running(w, "log")
    /\ logs' = Append(logs, task[w].msg)
    /\ task' = [task EXCEPT ![w].at = "detail", ![w].row = Len(logs) + 1]
    /\ UNCHANGED <<inbox, taken, again, details>>

\* Mutant: the document names the message
RowOf_Message(t) == t.msg
RowOf(t) == t.row

LogDetail(w) ==
    /\ Running(w, "detail")
    /\ details' = details \cup {RowOf(task[w])}
    /\ Finish(w)
    /\ UNCHANGED <<inbox, taken, again, logs>>

Fail(w) == Reject(w) /\ UNCHANGED <<inbox, logs, details>>
Recommit(i) == Redeliver(i) /\ UNCHANGED <<inbox, logs, details>>

Handle(w) == (\E i \in DOMAIN inbox : Receive(w, i)) \/ LogAudit(w) \/ LogDetail(w)

Own == (\E w \in Workers : Handle(w) \/ Fail(w)) \/ \E i \in taken : Recommit(i)

\* Another service announces something.
Arrive(m) ==
    /\ inbox' = Append(inbox, m)
    /\ UNCHANGED <<delivery, logs, details>>
-----------------------------------------------------------------------------
\* However replicas, failures and redeliveries interleave: an audit row is about
\* a message that was delivered, and no message has more rows than deliveries.
AuditIsGrounded ==
    \A i \in DOMAIN inbox :
        Cardinality({r \in DOMAIN logs : logs[r] = i}) <=
            IF i \in again THEN 2 ELSE IF i \in taken THEN 1 ELSE 0

\* Without a failure: what was delivered is on record, with its details, once the
\* handlers have ended.
AuditIsComplete ==
    Quiet => /\ taken \subseteq {logs[r] : r \in DOMAIN logs}
             /\ details = DOMAIN logs
=============================================================================
