--------------------------- MODULE RemoteCommand ---------------------------
(***************************************************************************)
(* The remote command service: apps/remote-command-service/src/commands.   *)
(*                                                                         *)
(* A command is a row of remote_commands (PostgreSQL).  Its createCommand  *)
(* request, the MQTT acknowledgements, the cancel requests and the timeout *)
(* handler all write that row, each of them through several awaited calls, *)
(* so their steps interleave.  One action is one awaited call: the code    *)
(* between two awaits runs without interruption on the Node event loop.    *)
(***************************************************************************)
EXTENDS Integers, FiniteSets

CONSTANTS
    Commands,    \* the ids of the commands that may be created
    Vehicles,
    VehicleOf,   \* VehicleOf[c]: the vehicle command c is addressed to
    Workers,     \* bound: how many handler invocations may be in flight
    MaxRetries,  \* COMMAND_CONSTANTS.MAX_COMMAND_RETRIES
    MayFail,     \* whether awaited calls may reject and the process may die
    Sweeps,      \* whether handleTimeout is called: nothing under src/ calls it
    None         \* no command, no task

ASSUME CommandsAssumption ==
    /\ VehicleOf \in [Commands -> Vehicles]
    /\ IsFiniteSet(Workers) /\ Workers # {}
    /\ MaxRetries \in Nat
    /\ MayFail \in BOOLEAN
    /\ Sweeps \in BOOLEAN
    /\ None \notin Commands

VARIABLES
    status,      \* column status, "ABSENT" before the row is created
    retryCount,  \* column retryCount
    stamps,      \* the nullable timestamp columns that hold a value
    pending,     \* Redis: the command stored under command:pending:<vehicleId>
    request,     \* how far the createCommand call of each command has come
    task,        \* the handler invocation each worker is running
    published,   \* commands the broker has: it may deliver them again
    reports,     \* acknowledgements vehicles have sent: may arrive repeatedly
    events       \* messages on the Kafka topics

row  == <<status, retryCount, stamps>>
wire == <<published, reports>>
vars == <<status, retryCount, stamps, pending, request, task,
          published, reports, events>>

-----------------------------------------------------------------------------
\* Types

\* EXECUTING, the ninth value of the enum, is written by no code.
CommandStatus == {"PENDING", "QUEUED", "SENT", "ACKNOWLEDGED", "COMPLETED",
                  "FAILED", "TIMED_OUT", "CANCELLED"}

\* What an acknowledgement says; any other text counts as ACKNOWLEDGED.
Report == {"ACKNOWLEDGED", "COMPLETED", "FAILED"}

Stamp == {"sentAt", "acknowledgedAt", "completedAt", "failedAt"}

\* The awaited calls of createCommand, in order: the value names the last one done.
InFlight == {"created", "checked", "queued", "cached", "published", "marked",
             "announced"}
Settled == {"done", "rejected", "aborted"}

\* An invocation of handleAck, cancelCommand or handleTimeout that has read the
\* row of cmd and decided to give it newStatus; "at" is its next awaited call.
Task == [op : {"ack", "cancel", "timeout"}, at : {"update", "del", "emit"},
         cmd : Commands, newStatus : CommandStatus]

Topic == {"COMMAND_CREATED", "COMMAND_SENT", "COMMAND_ACKNOWLEDGED",
          "COMMAND_COMPLETED", "COMMAND_FAILED"}
Event == [topic : Topic, cmd : Commands, status : CommandStatus]

TypeOK ==
    /\ status \in [Commands -> CommandStatus \cup {"ABSENT"}]
    /\ retryCount \in [Commands -> Nat]
    /\ stamps \in [Commands -> SUBSET Stamp]
    /\ pending \in [Vehicles -> Commands \cup {None}]
    /\ request \in [Commands -> {"idle"} \cup InFlight \cup Settled]
    /\ task \in [Workers -> Task \cup {None}]
    /\ published \subseteq Commands
    /\ reports \subseteq Commands \X Report
    /\ events \subseteq Event

Init ==
    /\ status = [c \in Commands |-> "ABSENT"]
    /\ retryCount = [c \in Commands |-> 0]
    /\ stamps = [c \in Commands |-> {}]
    /\ pending = [v \in Vehicles |-> None]
    /\ request = [c \in Commands |-> "idle"]
    /\ task = [w \in Workers |-> None]
    /\ published = {}
    /\ reports = {}
    /\ events = {}

-----------------------------------------------------------------------------
\* The calls the operations are made of

SetStatus(c, st) == status' = [status EXCEPT ![c] = st]

\* Mutant: the timestamps that are not set are nulled
SetStamps_Overwrite(c, S) == stamps' = [stamps EXCEPT ![c] = S]
\* prisma leaves a column alone whose value is undefined.
SetStamps(c, S) == stamps' = [stamps EXCEPT ![c] = @ \cup S]

CountRetry(c) == retryCount' = [retryCount EXCEPT ![c] = @ + 1]

\* Mutant: another key is deleted
DelKey_Other(v) == UNCHANGED pending
\* redis.del of the vehicle's key, whichever command it holds
DelKey(v) == pending' = [pending EXCEPT ![v] = None]

Emit(topic, c, st) ==
    events' = events \cup {[topic |-> topic, cmd |-> c, status |-> st]}

-----------------------------------------------------------------------------
\* createCommand, one action per awaited call

Advance(c, from, to) ==
    /\ request[c] = from
    /\ request' = [request EXCEPT ![c] = to]

\* remoteCommand.create, after the vehicle was found
CreateRow(c) ==
    /\ Advance(c, "idle", "created")
    /\ SetStatus(c, "PENDING")
    /\ UNCHANGED <<retryCount, stamps, pending, task, wire, events>>

\* enqueueCommand reads the row back and refuses all but PENDING
CheckPending(c) ==
    /\ Advance(c, "created", IF status[c] = "PENDING" THEN "checked" ELSE "rejected")
    /\ UNCHANGED <<row, pending, task, wire, events>>

\* enqueueCommand writes QUEUED, whatever the row holds by now
SetQueued(c) ==
    /\ Advance(c, "checked", "queued")
    /\ SetStatus(c, "QUEUED")
    /\ UNCHANGED <<retryCount, stamps, pending, task, wire, events>>

\* redis.set of the vehicle's only key replaces what it held
CachePending(c) ==
    /\ Advance(c, "queued", "cached")
    /\ pending' = [pending EXCEPT ![VehicleOf[c]] = c]
    /\ UNCHANGED <<row, task, wire, events>>

\* publishCommand: MQTT publish with QoS 1
Publish(c) ==
    /\ Advance(c, "cached", "published")
    /\ published' = published \cup {c}
    /\ UNCHANGED <<row, pending, task, reports, events>>

\* Mutant: the row is marked SENT although publishing was skipped
MarkSent_Unpublished(c) ==
    /\ Advance(c, "cached", "marked")
    /\ SetStatus(c, "SENT")
    /\ SetStamps(c, {"sentAt"})
    /\ UNCHANGED <<retryCount, pending, task, wire, events>>

\* markSent writes SENT without reading the row
MarkSent(c) ==
    /\ Advance(c, "published", "marked")
    /\ SetStatus(c, "SENT")
    /\ SetStamps(c, {"sentAt"})
    /\ UNCHANGED <<retryCount, pending, task, wire, events>>

EmitSent(c) ==
    /\ Advance(c, "marked", "announced")
    /\ Emit("COMMAND_SENT", c, "SENT")
    /\ UNCHANGED <<row, pending, task, wire>>

EmitCreated(c) ==
    /\ Advance(c, "announced", "done")
    /\ Emit("COMMAND_CREATED", c, "SENT")
    /\ UNCHANGED <<row, pending, task, wire>>

\* The next awaited call rejects, or the process dies: nothing is undone.
AbortRequest(c) ==
    /\ MayFail
    /\ request[c] \in InFlight
    /\ request' = [request EXCEPT ![c] = "aborted"]
    /\ UNCHANGED <<row, pending, task, wire, events>>

-----------------------------------------------------------------------------
\* External: the vehicle.  It only knows of commands the broker delivered.

VehicleReports(c, r) ==
    /\ c \in published
    /\ reports' = reports \cup {<<c, r>>}
    /\ UNCHANGED <<row, pending, request, task, published, events>>

-----------------------------------------------------------------------------
\* handleAck, cancelCommand and handleTimeout read the row first

Start(w, op, c, newStatus) ==
    /\ task[w] = None
    /\ task' = [task EXCEPT ![w] = [op |-> op, at |-> "update", cmd |-> c,
                                    newStatus |-> newStatus]]
    /\ UNCHANGED <<row, pending, request, wire, events>>

\* An acknowledgement arrives; its correlationId finds the row.
StartAck(w, c, r) == <<c, r>> \in reports /\ Start(w, "ack", c, r)

\* Mutant: COMPLETED and FAILED are not checked
Cancellable_Terminal(c) == status[c] \notin {"ABSENT", "CANCELLED"}
Cancellable(c) == status[c] \notin {"ABSENT", "COMPLETED", "FAILED", "CANCELLED"}

StartCancel(w, c) == Cancellable(c) /\ Start(w, "cancel", c, "CANCELLED")

\* Mutant: one retry too many
RetriesLeft_Extra(c) == retryCount[c] <= MaxRetries
RetriesLeft(c) == retryCount[c] < MaxRetries

\* handleTimeout decides by the status and the retryCount it reads
StartTimeout(w, c) ==
    /\ Sweeps
    /\ status[c] \notin {"ABSENT", "COMPLETED", "FAILED"}
    /\ Start(w, "timeout", c, IF RetriesLeft(c) THEN "QUEUED" ELSE "TIMED_OUT")

-----------------------------------------------------------------------------
\* ... and then write it: the updates name the row by its id only, with no
\* condition on what it holds by now.

\* Worker w runs op and its next awaited call is at.
Running(w, op, at) == task[w] # None /\ task[w].op = op /\ task[w].at = at
Continue(w, at) == task' = [task EXCEPT ![w].at = at]
Finish(w) == task' = [task EXCEPT ![w] = None]

\* Mutant: completedAt is set by every acknowledgement
StampsOf_Always(report) == {"acknowledgedAt", "completedAt"}
StampsOf(report) ==
    {"acknowledgedAt"} \cup CASE report = "COMPLETED" -> {"completedAt"}
                              [] report = "FAILED"    -> {"failedAt"}
                              [] OTHER                -> {}

UpdateAck(w) ==
    /\ Running(w, "ack", "update")
    /\ SetStatus(task[w].cmd, task[w].newStatus)
    /\ SetStamps(task[w].cmd, StampsOf(task[w].newStatus))
    /\ Continue(w, "del")
    /\ UNCHANGED <<retryCount, pending, request, wire, events>>

UpdateCancel(w) ==
    /\ Running(w, "cancel", "update")
    /\ SetStatus(task[w].cmd, "CANCELLED")
    /\ Continue(w, "del")
    /\ UNCHANGED <<retryCount, stamps, pending, request, wire, events>>

\* A retry only counts and writes QUEUED; nothing is published again.
UpdateRetry(w) ==
    /\ Running(w, "timeout", "update")
    /\ task[w].newStatus = "QUEUED"
    /\ SetStatus(task[w].cmd, "QUEUED")
    /\ CountRetry(task[w].cmd)
    /\ Finish(w)
    /\ UNCHANGED <<stamps, pending, request, wire, events>>

UpdateTimedOut(w) ==
    /\ Running(w, "timeout", "update")
    /\ task[w].newStatus = "TIMED_OUT"
    /\ SetStatus(task[w].cmd, "TIMED_OUT")
    /\ Continue(w, "del")
    /\ UNCHANGED <<retryCount, stamps, pending, request, wire, events>>

DelPending(w) ==
    /\ \E op \in {"ack", "cancel", "timeout"} : Running(w, op, "del")
    /\ DelKey(VehicleOf[task[w].cmd])
    /\ IF task[w].op = "cancel" THEN Finish(w) ELSE Continue(w, "emit")
    /\ UNCHANGED <<row, request, wire, events>>

\* Mutant: the status is taken for the topic
TopicOf_Raw(st) == st
TopicOf(st) ==
    CASE st = "COMPLETED" -> "COMMAND_COMPLETED"
      [] st \in {"FAILED", "TIMED_OUT"} -> "COMMAND_FAILED"
      [] OTHER -> "COMMAND_ACKNOWLEDGED"

EmitOutcome(w) ==
    /\ \E op \in {"ack", "timeout"} : Running(w, op, "emit")
    /\ Emit(TopicOf(task[w].newStatus), task[w].cmd, task[w].newStatus)
    /\ Finish(w)
    /\ UNCHANGED <<row, pending, request, wire>>

\* The next awaited call rejects: the MQTT handler logs, the HTTP request fails.
AbortTask(w) ==
    /\ MayFail
    /\ task[w] # None
    /\ Finish(w)
    /\ UNCHANGED <<row, pending, request, wire, events>>

\* The key's time to live runs out.
ExpirePending(v) ==
    /\ pending[v] # None
    /\ DelKey(v)
    /\ UNCHANGED <<row, request, task, wire, events>>

-----------------------------------------------------------------------------
RequestStep(c) ==
    \/ CreateRow(c) \/ CheckPending(c) \/ SetQueued(c) \/ CachePending(c)
    \/ Publish(c) \/ MarkSent(c) \/ EmitSent(c) \/ EmitCreated(c)

TaskStep(w) ==
    \/ UpdateAck(w) \/ UpdateCancel(w) \/ UpdateRetry(w) \/ UpdateTimedOut(w)
    \/ DelPending(w) \/ EmitOutcome(w)

Next ==
    \/ \E c \in Commands : RequestStep(c) \/ AbortRequest(c)
    \/ \E c \in Commands, r \in Report : VehicleReports(c, r)
    \/ \E w \in Workers, c \in Commands :
        \/ \E r \in Report : StartAck(w, c, r)
        \/ StartCancel(w, c)
        \/ StartTimeout(w, c)
    \/ \E w \in Workers : TaskStep(w) \/ AbortTask(w)
    \/ \E v \in Vehicles : ExpirePending(v)

Spec == Init /\ [][Next]_vars

\* An awaited call settles.  Requests, vehicles and cancels owe nothing, and nothing
\* in the program calls handleTimeout: a command that nobody answers stays SENT.
Fairness ==
    /\ \A c \in Commands : WF_vars(RequestStep(c) /\ request[c] # "idle")
    /\ \A w \in Workers : WF_vars(TaskStep(w))

FairSpec == Spec /\ Fairness
-----------------------------------------------------------------------------
\* Properties

Evidence(c, st) == <<c, st>> \in reports

\* No outcome without evidence: a row or an event says ACKNOWLEDGED, COMPLETED
\* or FAILED only of a command whose vehicle reported that (handleAck is their
\* only writer), except that a COMMAND_FAILED of a dead letter says TIMED_OUT.
OutcomeIsReported ==
    \A c \in Commands :
        /\ status[c] \in Report => Evidence(c, status[c])
        /\ "completedAt" \in stamps[c] => Evidence(c, "COMPLETED")
        /\ "failedAt" \in stamps[c] => Evidence(c, "FAILED")
        /\ \A e \in events : e.cmd = c /\ e.status \in Report => Evidence(c, e.status)

\* A command is on the wire only once its row has left PENDING (enqueueCommand
\* is awaited before publishCommand), so no vehicle can act on a command whose
\* acknowledgement finds no row.
PersistedBeforeSent ==
    \A c \in published : status[c] \notin {"ABSENT", "PENDING"}

\* The events never tell more than the row still knows: whatever is written to
\* the row later, the timestamp of an announced outcome is kept, and
\* COMMAND_CREATED is announced after COMMAND_SENT.
AnnouncedIsRecorded ==
    \A e \in events :
        /\ e.status = "COMPLETED" => "completedAt" \in stamps[e.cmd]
        /\ e.status = "FAILED" => "failedAt" \in stamps[e.cmd]
        /\ e.status = "SENT" => /\ "sentAt" \in stamps[e.cmd]
                                /\ e.cmd \in published
        /\ e.topic = "COMMAND_CREATED" =>
              [topic |-> "COMMAND_SENT", cmd |-> e.cmd, status |-> "SENT"] \in events

\* Once handleAck has announced an outcome, the vehicle's Redis key does not hold
\* that command: redis.del came before the event and, as no vehicle acknowledges
\* what was not published, after the redis.set of enqueueCommand.
AnnouncedIsNotPending ==
    \A e \in events : e.status \in Report => pending[VehicleOf[e.cmd]] # e.cmd

\* Timeout handlers that have read a retryCount below the maximum and have not
\* yet written theirs.
Retrying(c) ==
    {w \in Workers : task[w] # None /\ task[w].op = "timeout"
                       /\ task[w].cmd = c /\ task[w].newStatus = "QUEUED"}

\* Overlapping handleTimeout calls may pass MAX_COMMAND_RETRIES, for each decides
\* by the count it read, but by no more than the calls that overlap.
RetriesBounded ==
    \A c \in Commands :
        \/ retryCount[c] < MaxRetries
        \/ retryCount[c] + Cardinality(Retrying(c)) < MaxRetries + Cardinality(Workers)

\* TIMED_OUT, in the row or in an event, means that every retry was used up.
DeadLetterAfterRetries ==
    \A c \in Commands :
        \/ status[c] = "TIMED_OUT"
        \/ \E e \in events : e.cmd = c /\ e.status = "TIMED_OUT"
        => retryCount[c] >= MaxRetries

\* Nothing is left that may still write the row of c but a new acknowledgement:
\* the createCommand call is over and no handler that has read the row is pending.
Quiet(c) ==
    /\ request[c] \in Settled
    /\ \A w \in Workers : task[w] # None => task[w].cmd # c

\* A COMPLETED or FAILED command at rest is final: cancelCommand and
\* handleTimeout turn it down, so only an acknowledgement still to come may ever
\* write the row again.
LeftAlone(c) ==
    /\ status'[c] = status[c]
    /\ \A w \in Workers : task'[w] # None /\ task'[w].cmd = c => task'[w].op = "ack"

FinalAtRest ==
    [][\A c \in Commands : status[c] \in {"COMPLETED", "FAILED"} /\ Quiet(c)
                                => LeftAlone(c)]_vars

Told(c, topic) == \E e \in events : e.topic = topic /\ e.cmd = c

\* Under Fairness: of a command that went out Kafka learns that it was created, and of
\* an outcome stamped on its row what it is, whatever cancels, acknowledgements and
\* createCommand itself write to the row meanwhile.
OutcomeIsTold ==
    \A c \in Commands :
        /\ c \in published ~> Told(c, "COMMAND_CREATED")
        /\ "completedAt" \in stamps[c] ~> Told(c, "COMMAND_COMPLETED")
        /\ "failedAt" \in stamps[c] ~> Told(c, "COMMAND_FAILED")

-----------------------------------------------------------------------------
\* The service as its clients may rely on it: every step is a step of the ledger
\* or changes nothing the ledger speaks of.

Ledger == INSTANCE CommandLedger WITH
             status <- status, retryCount <- retryCount,
             published <- published, reports <- reports

ImplementsLedger == Ledger!Spec

-----------------------------------------------------------------------------
\* What the repository says and the code does not do (see the README).

\* "terminal status", remote-command.service.ts:93: COMPLETED and FAILED stay.
OutcomeIsFinal ==
    [][\A c \in Commands : status[c] \in {"COMPLETED", "FAILED"}
                                => status'[c] = status[c]]_vars

\* "Cancel a pending or queued remote command", remote-command.controller.ts:40:
\* a command cancelled before it was sent is not sent.
CancelledIsNotSent ==
    [][\A c \in published' \ published : status[c] # "CANCELLED"]_vars
=============================================================================
