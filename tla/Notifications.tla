---------------------------- MODULE Notifications ----------------------------
(***************************************************************************)
(* The notification service: apps/notification-service.  It takes the      *)
(* messages of six topics (alerts) and HTTP calls, creates a notification  *)
(* row and dispatches it.  One action is one awaited statement.            *)
(***************************************************************************)
EXTENDS KafkaConsumer, FiniteSets

CONSTANTS
    Messages,  \* the alerts
    Ignored,   \* those of topics that handleKafkaEvent has no branch for
    ToUser,    \* those that name a user: DRIVER_RISK_DETECTED
    MaxNotes   \* bound: no call creates a notification after that many

NotificationsAssumption ==
    /\ Ignored \subseteq Messages /\ ToUser \subseteq Messages
    /\ MaxNotes \in Nat
    /\ MayFail \in BOOLEAN

VARIABLES
    note,      \* notifications, in the order they were created
    announced  \* the messages of vis.notification.*: the topic and the row

vars == <<inbox, delivery, note, announced>>

NotificationStatus == {"PENDING", "DELIVERED", "FAILED", "READ"}

\* A row; src is the place of the alert it is for, 0 for an HTTP call; deliveredAt
\* and failureReason are set or not.
Note == [status : NotificationStatus \cup {"DELETED"}, src : Nat,
         deliveredAt : BOOLEAN, failureReason : BOOLEAN]

Task == [at : {"prefs", "create", "find", "deliver", "delivered", "fail", "failed",
               "created", "read", "delete"},
         msg : Nat, row : Nat]

TypeOK ==
    /\ inbox \in Seq(Messages)
    /\ taken \subseteq DOMAIN inbox /\ again \subseteq DOMAIN inbox
    /\ task \in [Workers -> Task \cup {None}]
    /\ note \in Seq(Note)
    /\ announced \subseteq {"CREATED", "DELIVERED", "FAILED"} \X DOMAIN note

Init ==
    /\ inbox = <<>>
    /\ DeliveryInit
    /\ note = <<>>
    /\ announced = {}

Row(w) == task[w].row
Exists(n) == note[n].status # "DELETED"

-----------------------------------------------------------------------------
\* handleKafkaEvent, and createNotification

Receive(w, i) ==
    /\ inbox[i] \notin Ignored
    /\ Len(note) < MaxNotes
    /\ Deliver(w, i, [at |-> IF inbox[i] \in ToUser THEN "prefs" ELSE "create",
                      msg |-> i, row |-> 0])
    /\ UNCHANGED <<inbox, note, announced>>

Ignore(i) ==
    /\ i \in DOMAIN inbox \ taken
    /\ inbox[i] \in Ignored
    /\ taken' = taken \cup {i}
    /\ UNCHANGED <<inbox, again, task, note, announced>>

StartCreate(w, at) ==
    /\ Len(note) < MaxNotes
    /\ Call(w, [at |-> at, msg |-> 0, row |-> 0])
    /\ UNCHANGED <<inbox, note, announced>>

\* isNotificationAllowed: by the user's channels, categories and quiet hours (see
\* Calculations), so either answer may come.
CheckPreferences(w) ==
    /\ Running(w, "prefs")
    /\ Continue(w, "create") \/ Finish(w)
    /\ UNCHANGED <<inbox, taken, again, note, announced>>

CreateNote(w) ==
    /\ Running(w, "create")
    /\ note' = Append(note, [status |-> "PENDING", src |-> task[w].msg,
                             deliveredAt |-> FALSE, failureReason |-> FALSE])
    /\ task' = [task EXCEPT ![w].at = "find", ![w].row = Len(note) + 1]
    /\ UNCHANGED <<inbox, taken, again, announced>>

-----------------------------------------------------------------------------
\* dispatchNotification

FindNote(w) ==
    /\ Running(w, "find")
    /\ Continue(w, IF Exists(Row(w)) THEN "deliver" ELSE "created")
    /\ UNCHANGED <<inbox, taken, again, note, announced>>

\* Whatever the row says by now; the update of a row that is gone rejects, and so
\* does the update in the catch block.
SetDelivered(w) ==
    /\ Running(w, "deliver")
    /\ IF Exists(Row(w))
       THEN /\ note' = [note EXCEPT ![Row(w)].status = "DELIVERED",
                                    ![Row(w)].deliveredAt = TRUE]
            /\ Continue(w, "delivered")
       ELSE Continue(w, "fail") /\ UNCHANGED note
    /\ UNCHANGED <<inbox, taken, again, announced>>

Announce(w, topic) == announced' = announced \cup {<<topic, Row(w)>>}

EmitDelivered(w) ==
    /\ Running(w, "delivered")
    /\ Announce(w, "DELIVERED")
    /\ Continue(w, "created")
    /\ UNCHANGED <<inbox, taken, again, note>>

\* The catch block: the update, or the emit after it, has rejected; the broker may
\* have taken the event of an emit that rejects.
Caught(w) ==
    /\ MayFail
    /\ \/ Running(w, "deliver") /\ UNCHANGED announced
       \/ /\ Running(w, "delivered")
          /\ UNCHANGED announced \/ Announce(w, "DELIVERED")
    /\ Continue(w, "fail")
    /\ UNCHANGED <<inbox, taken, again, note>>

Failed(row) == [row EXCEPT !.status = "FAILED", !.failureReason = TRUE]

SetFailed(w) ==
    /\ Running(w, "fail")
    /\ IF Exists(Row(w))
       THEN /\ note' = [note EXCEPT ![Row(w)] = Failed(@)]
            /\ Continue(w, "failed")
       ELSE Finish(w) /\ UNCHANGED note
    /\ UNCHANGED <<inbox, taken, again, announced>>

EmitFailed(w) ==
    /\ Running(w, "failed")
    /\ Announce(w, "FAILED")
    /\ Continue(w, "created")
    /\ UNCHANGED <<inbox, taken, again, note>>

EmitCreated(w) ==
    /\ Running(w, "created")
    /\ Announce(w, "CREATED")
    /\ Finish(w)
    /\ UNCHANGED <<inbox, taken, again, note>>

-----------------------------------------------------------------------------
\* markAsRead and deleteNotification

StartOn(w, n, at) ==
    /\ Exists(n)
    /\ Call(w, [at |-> at, msg |-> 0, row |-> n])
    /\ UNCHANGED <<inbox, note, announced>>

\* Both write by the id, whatever the status; without a row they reject.
ChangeNote(w, at, st) ==
    /\ Running(w, at)
    /\ note' = IF Exists(Row(w)) THEN [note EXCEPT ![Row(w)].status = st] ELSE note
    /\ Finish(w)
    /\ UNCHANGED <<inbox, taken, again, announced>>

MarkRead(w) == ChangeNote(w, "read", "READ")
DeleteNote(w) == ChangeNote(w, "delete", "DELETED")

\* An error that no block of dispatchNotification catches, or the process dies
Fail(w) == Reject(w) /\ UNCHANGED <<inbox, note, announced>>
Recommit(i) == Redeliver(i) /\ UNCHANGED <<inbox, note, announced>>

Handle(w) ==
    \/ \E i \in DOMAIN inbox : Receive(w, i)
    \/ CheckPreferences(w) \/ CreateNote(w) \/ FindNote(w)
    \/ SetDelivered(w) \/ EmitDelivered(w)
    \/ SetFailed(w) \/ EmitFailed(w) \/ EmitCreated(w)
    \/ MarkRead(w) \/ DeleteNote(w)

Serve(w) ==
    \/ StartCreate(w, "create") \/ StartCreate(w, "prefs")
    \/ \E n \in DOMAIN note : StartOn(w, n, "read") \/ StartOn(w, n, "delete")

Own ==
    \/ \E w \in Workers : Handle(w) \/ Serve(w) \/ Caught(w) \/ Fail(w)
    \/ \E i \in DOMAIN inbox : Ignore(i)
    \/ \E i \in taken : Recommit(i)

\* Another service announces an alert.
Arrive(m) ==
    /\ inbox' = Append(inbox, m)
    /\ UNCHANGED <<delivery, note, announced>>

Next == Own \/ \E m \in Messages : Arrive(m)

Spec == Init /\ [][Next]_vars
-----------------------------------------------------------------------------
\* What Kafka was told of a notification its row confirms, whatever else was done
\* to it: CREATED is told only after an outcome, and an outcome told is one the row had.
AnnouncedIsRecorded ==
    /\ \A n \in DOMAIN note :
          /\ <<"CREATED", n>> \in announced => note[n].status # "PENDING"
          /\ <<"DELIVERED", n>> \in announced => note[n].deliveredAt
          /\ <<"FAILED", n>> \in announced => note[n].failureReason

\* An alert makes one notification, or two when it was delivered again.
AlertIsNotedOnce ==
    \A i \in DOMAIN inbox :
        Cardinality({n \in DOMAIN note : note[n].src = i}) <= IF i \in again THEN 2 ELSE 1

\* Alerts handled one at a time without a failure: when all have been taken, each
\* for no user in particular has a notification, and none is PENDING or FAILED.
AlertsAreSettled ==
    Quiet =>
        /\ \A i \in taken : inbox[i] \notin Ignored \cup ToUser =>
               \E n \in DOMAIN note : note[n].src = i
        /\ \A n \in DOMAIN note : note[n].status \notin {"PENDING", "FAILED"}
=============================================================================
