------------------------ MODULE RemoteCommandProofs ------------------------
(***************************************************************************)
(* Theorems about RemoteCommand, for every set of commands, vehicles and   *)
(* workers and every MaxRetries.                                           *)
(***************************************************************************)
EXTENDS RemoteCommand, FiniteSetTheorems, TLAPS

\* Every step keeps the types.
LEMMA TypeStep == TypeOK /\ [Next]_vars => TypeOK'
<1> SUFFICES ASSUME TypeOK, [Next]_vars PROVE TypeOK'
  OBVIOUS
<1> USE CommandsAssumption
    DEF TypeOK, CommandStatus, Report, Stamp, InFlight, Settled, Task, Topic,
        Event, row, wire, SetStatus, SetStamps, CountRetry, DelKey, Emit, Advance
<1>1. ASSUME NEW c \in Commands, RequestStep(c) PROVE TypeOK'
  BY <1>1 DEF RequestStep, CreateRow, CheckPending, SetQueued, CachePending,
              Publish, MarkSent, EmitSent, EmitCreated
<1>2. ASSUME NEW c \in Commands, AbortRequest(c) PROVE TypeOK'
  BY <1>2 DEF AbortRequest
<1>3. ASSUME NEW c \in Commands, NEW r \in Report, VehicleReports(c, r) PROVE TypeOK'
  BY <1>3 DEF VehicleReports
<1>4. ASSUME NEW w \in Workers, NEW c \in Commands, NEW r \in Report,
             StartAck(w, c, r)
      PROVE  TypeOK'
  BY <1>4 DEF StartAck, Start
<1>5. ASSUME NEW w \in Workers, NEW c \in Commands, StartCancel(w, c) PROVE TypeOK'
  BY <1>5 DEF StartCancel, Cancellable, Start
<1>6. ASSUME NEW w \in Workers, NEW c \in Commands, StartTimeout(w, c) PROVE TypeOK'
  BY <1>6 DEF StartTimeout, RetriesLeft, Start
<1>7. ASSUME NEW w \in Workers, TaskStep(w) PROVE TypeOK'
  <2> USE DEF Running, Continue, Finish
  <2>1. CASE UpdateAck(w)
    BY <2>1 DEF UpdateAck, StampsOf
  <2>2. CASE UpdateCancel(w)
    BY <2>2 DEF UpdateCancel
  <2>3. CASE UpdateRetry(w)
    BY <2>3 DEF UpdateRetry
  <2>4. CASE UpdateTimedOut(w)
    BY <2>4 DEF UpdateTimedOut
  <2>5. CASE DelPending(w)
    BY <2>5 DEF DelPending
  <2>6. CASE EmitOutcome(w)
    BY <2>6 DEF EmitOutcome, TopicOf
  <2>7. QED
    BY <1>7, <2>1, <2>2, <2>3, <2>4, <2>5, <2>6 DEF TaskStep
<1>8. ASSUME NEW w \in Workers, AbortTask(w) PROVE TypeOK'
  BY <1>8 DEF AbortTask, Finish
<1>9. ASSUME NEW v \in Vehicles, ExpirePending(v) PROVE TypeOK'
  BY <1>9 DEF ExpirePending
<1>10. CASE UNCHANGED vars
  BY <1>10 DEF vars
<1>11. QED
  BY <1>1, <1>2, <1>3, <1>4, <1>5, <1>6, <1>7, <1>8, <1>9, <1>10 DEF Next

\* The types hold in every reachable state.
THEOREM TypeCorrect == Spec => []TypeOK
<1>1. Init => TypeOK
  BY DEF Init, TypeOK
<1>2. QED
  BY <1>1, TypeStep, PTL DEF Spec

-----------------------------------------------------------------------------
(***************************************************************************)
(* The inductive invariant behind the safety properties: what the progress *)
(* of createCommand says about the row and the wire, and what an           *)
(* invocation that read the row earlier may still rely on when it writes.  *)
(* Reports, publications and timestamps only grow, and retryCount only     *)
(* rises, so a decision made by an old read stays justified.               *)
(***************************************************************************)

RequestInv ==
    \A c \in Commands :
        /\ request[c] = "idle" <=> status[c] = "ABSENT"
        /\ request[c] \in {"queued", "cached", "published", "marked", "announced", "done"}
              => status[c] # "PENDING"
        /\ request[c] \in {"published", "marked", "announced", "done"} => c \in published
        /\ request[c] \in {"marked", "announced", "done"} => "sentAt" \in stamps[c]
        /\ request[c] \in {"announced", "done"} =>
              [topic |-> "COMMAND_SENT", cmd |-> c, status |-> "SENT"] \in events
        /\ c \in published =>
              /\ request[c] \in {"published", "marked", "announced", "done", "aborted"}
              /\ status[c] # "PENDING"

TaskInv ==
    \A w \in Workers : task[w] # None =>
        /\ request[task[w].cmd] # "idle"
        /\ task[w].op = "ack" =>
              /\ task[w].newStatus \in Report
              /\ <<task[w].cmd, task[w].newStatus>> \in reports
              /\ task[w].at # "update" => StampsOf(task[w].newStatus) \subseteq stamps[task[w].cmd]
              /\ task[w].at = "emit" => pending[VehicleOf[task[w].cmd]] # task[w].cmd
        /\ task[w].op = "timeout" =>
              /\ task[w].newStatus \in {"QUEUED", "TIMED_OUT"}
              /\ task[w].newStatus = "TIMED_OUT" => retryCount[task[w].cmd] >= MaxRetries

WireInv ==
    /\ \A c \in Commands, r \in Report : <<c, r>> \in reports => c \in published
    /\ \A c \in Commands : "sentAt" \in stamps[c] => c \in published

IInv == /\ TypeOK /\ RequestInv /\ TaskInv /\ WireInv
        /\ OutcomeIsReported
        /\ AnnouncedIsRecorded
        /\ AnnouncedIsNotPending
        /\ DeadLetterAfterRetries

\* The initial state satisfies the inductive invariant.
LEMMA InitIInv == Init => IInv
<1> SUFFICES ASSUME Init PROVE IInv
  OBVIOUS
<1>1. TypeOK
  BY DEF Init, TypeOK
<1>2. RequestInv /\ TaskInv /\ WireInv
  BY DEF Init, RequestInv, TaskInv, WireInv
<1>3. OutcomeIsReported /\ DeadLetterAfterRetries
  BY DEF Init, OutcomeIsReported, DeadLetterAfterRetries, Report
<1>4. AnnouncedIsRecorded /\ AnnouncedIsNotPending
  BY DEF Init, AnnouncedIsRecorded, AnnouncedIsNotPending
<1>5. QED
  BY <1>1, <1>2, <1>3, <1>4 DEF IInv

\* What StampsOf and TopicOf give, without their CASE.
LEMMA Outcomes ==
    /\ \A st \in CommandStatus :
        /\ "sentAt" \notin StampsOf(st)
        /\ "completedAt" \in StampsOf(st) <=> st = "COMPLETED"
        /\ "failedAt" \in StampsOf(st) <=> st = "FAILED"
    /\ \A st \in CommandStatus : TopicOf(st) # "COMMAND_CREATED"
  BY DEF StampsOf, TopicOf, CommandStatus

\* A running task is typed, and names a command whose row exists.
LEMMA TaskShape ==
    ASSUME TypeOK, NEW w \in Workers, task[w] # None
    PROVE  /\ task[w] \in Task
           /\ task[w].cmd \in Commands
           /\ task[w].newStatus \in CommandStatus
  BY DEF TypeOK, Task

\* Which actions may change which variable.
LEMMA Writers ==
    ASSUME [Next]_vars
    PROVE  /\ \/ UNCHANGED events
              \/ \E c \in Commands : EmitSent(c) \/ EmitCreated(c)
              \/ \E w \in Workers : EmitOutcome(w)
           /\ \/ UNCHANGED stamps
              \/ \E c \in Commands : MarkSent(c)
              \/ \E w \in Workers : UpdateAck(w)
           /\ UNCHANGED reports \/ \E c \in Commands, r \in Report : VehicleReports(c, r)
           /\ UNCHANGED published \/ \E c \in Commands : Publish(c)
           /\ UNCHANGED retryCount \/ \E w \in Workers : UpdateRetry(w)
           /\ \/ UNCHANGED pending
              \/ \E c \in Commands : CachePending(c)
              \/ \E w \in Workers : DelPending(w)
              \/ \E v \in Vehicles : ExpirePending(v)
           /\ \/ UNCHANGED status
              \/ \E c \in Commands : CreateRow(c) \/ SetQueued(c) \/ MarkSent(c)
              \/ \E w \in Workers : \/ UpdateAck(w) \/ UpdateCancel(w)
                                     \/ UpdateRetry(w) \/ UpdateTimedOut(w)
<1>1. CASE \E c \in Commands : RequestStep(c) \/ AbortRequest(c)
  BY <1>1
  DEF RequestStep, CreateRow, CheckPending, SetQueued, CachePending, Publish, MarkSent,
      EmitSent, EmitCreated, AbortRequest, row, wire
<1>2. CASE \E c \in Commands, r \in Report : VehicleReports(c, r)
  BY <1>2 DEF VehicleReports, row
<1>3. CASE \E w \in Workers, c \in Commands :
              \/ \E r \in Report : StartAck(w, c, r)
              \/ StartCancel(w, c)
              \/ StartTimeout(w, c)
  BY <1>3 DEF StartAck, StartCancel, StartTimeout, Start, row, wire
<1>4. CASE \E w \in Workers : TaskStep(w) \/ AbortTask(w)
  BY <1>4
  DEF TaskStep, UpdateAck, UpdateCancel, UpdateRetry, UpdateTimedOut, DelPending,
      EmitOutcome, AbortTask, row, wire
<1>5. CASE \E v \in Vehicles : ExpirePending(v)
  BY <1>5 DEF ExpirePending, row, wire
<1>6. CASE UNCHANGED vars
  BY <1>6 DEF vars
<1>7. QED
  BY <1>1, <1>2, <1>3, <1>4, <1>5, <1>6 DEF Next

\* Evidence is never taken back.
LEMMA Monotone ==
    ASSUME TypeOK, [Next]_vars
    PROVE  /\ published \subseteq published'
           /\ reports \subseteq reports'
           /\ events \subseteq events'
           /\ \A c \in Commands : stamps[c] \subseteq stamps'[c]
           /\ \A c \in Commands : retryCount[c] <= retryCount'[c]
<1>1. published \subseteq published' /\ reports \subseteq reports' /\ events \subseteq events'
  BY Writers DEF Publish, VehicleReports, EmitSent, EmitCreated, EmitOutcome, Emit
<1>2. ASSUME NEW c \in Commands PROVE stamps[c] \subseteq stamps'[c]
  BY Writers DEF MarkSent, UpdateAck, SetStamps, TypeOK
<1>3. ASSUME NEW c \in Commands PROVE retryCount[c] <= retryCount'[c]
  BY Writers DEF UpdateRetry, CountRetry, TypeOK
<1>4. QED
  BY <1>1, <1>2, <1>3

\* The progress of createCommand agrees with the row and the wire: the handlers
\* never write ABSENT or PENDING, and only to rows that exist.
LEMMA RequestInvStep ==
    ASSUME TypeOK, RequestInv, TaskInv, [Next]_vars PROVE RequestInv'
<1> USE DEF TypeOK, RequestInv, row, wire, SetStatus, SetStamps
<1>1. ASSUME NEW c \in Commands, RequestStep(c) \/ AbortRequest(c) PROVE RequestInv'
  <2> USE DEF Advance, Emit
  <2>1. CASE CreateRow(c)
    BY <2>1 DEF CreateRow
  <2>2. CASE CheckPending(c)
    BY <2>2 DEF CheckPending
  <2>3. CASE SetQueued(c)
    BY <2>3 DEF SetQueued
  <2>4. CASE CachePending(c)
    BY <2>4 DEF CachePending
  <2>5. CASE Publish(c)
    BY <2>5 DEF Publish
  <2>6. CASE MarkSent(c)
    BY <2>6 DEF MarkSent
  <2>7. CASE EmitSent(c) \/ EmitCreated(c)
    BY <2>7 DEF EmitSent, EmitCreated
  <2>8. CASE AbortRequest(c)
    BY <2>8 DEF AbortRequest, InFlight
  <2>9. QED
    BY <1>1, <2>1, <2>2, <2>3, <2>4, <2>5, <2>6, <2>7, <2>8 DEF RequestStep
<1>2. ASSUME NEW c \in Commands, NEW r \in Report, VehicleReports(c, r) PROVE RequestInv'
  BY <1>2 DEF VehicleReports
<1>3. ASSUME NEW w \in Workers, NEW c \in Commands,
             \/ \E r \in Report : StartAck(w, c, r)
             \/ StartCancel(w, c) \/ StartTimeout(w, c)
      PROVE  RequestInv'
  BY <1>3 DEF StartAck, StartCancel, StartTimeout, Start
<1>4. ASSUME NEW w \in Workers, TaskStep(w) \/ AbortTask(w) PROVE RequestInv'
  <2>1. CASE DelPending(w) \/ EmitOutcome(w) \/ AbortTask(w)
    BY <2>1 DEF DelPending, EmitOutcome, AbortTask, Emit
  <2>2. CASE UpdateAck(w) \/ UpdateCancel(w) \/ UpdateRetry(w) \/ UpdateTimedOut(w)
    <3> DEFINE d == task[w].cmd
    <3>1. task[w] # None
      BY <2>2 DEF UpdateAck, UpdateCancel, UpdateRetry, UpdateTimedOut, Running
    <3>2. d \in Commands /\ request[d] # "idle"
      BY <3>1, TaskShape DEF TaskInv
    <3>3. \E st \in CommandStatus \ {"PENDING"} : status' = [status EXCEPT ![d] = st]
      BY <2>2, <3>1
      DEF UpdateAck, UpdateCancel, UpdateRetry, UpdateTimedOut, Running, TaskInv,
          Report, CommandStatus
    <3>4. PICK st \in CommandStatus \ {"PENDING"} : status' = [status EXCEPT ![d] = st]
      BY <3>3
    <3>5. /\ UNCHANGED <<request, published, events>>
          /\ \A e \in Commands : stamps[e] \subseteq stamps'[e]
      BY <2>2, <3>2 DEF UpdateAck, UpdateCancel, UpdateRetry, UpdateTimedOut
    <3>6. QED
      BY <3>2, <3>4, <3>5 DEF CommandStatus
  <2>3. QED
    BY <1>4, <2>1, <2>2 DEF TaskStep
<1>5. ASSUME NEW v \in Vehicles, ExpirePending(v) PROVE RequestInv'
  BY <1>5 DEF ExpirePending
<1>6. CASE UNCHANGED vars
  BY <1>6 DEF vars
<1>7. QED
  BY <1>1, <1>2, <1>3, <1>4, <1>5, <1>6 DEF Next

\* What an invocation read earlier stays true until it writes: reports and
\* timestamps only grow, retryCount only rises, and redis.set of a command comes
\* before its publication.
LEMMA TaskInvStep ==
    ASSUME TypeOK, RequestInv, TaskInv, WireInv, [Next]_vars PROVE TaskInv'
<1> USE DEF row, wire, SetStatus, SetStamps
<1>1. ASSUME NEW c \in Commands, RequestStep(c) \/ AbortRequest(c) PROVE TaskInv'
  <2>1. /\ UNCHANGED <<task, reports, retryCount>>
        /\ \A e \in Commands : stamps[e] \subseteq stamps'[e]
        /\ \A e \in Commands : request[e] # "idle" => request'[e] # "idle"
    BY <1>1
    DEF TypeOK, RequestStep, Advance, CreateRow, CheckPending, SetQueued, CachePending,
        Publish, MarkSent, EmitSent, EmitCreated, AbortRequest
  <2>2. \A e \in published : pending[VehicleOf[e]] # e => pending'[VehicleOf[e]] # e
    BY <1>1, CommandsAssumption
    DEF TypeOK, RequestInv, RequestStep, Advance, CreateRow, CheckPending, SetQueued,
        CachePending, Publish, MarkSent, EmitSent, EmitCreated, AbortRequest
  <2>3. QED
    BY <2>1, <2>2, TaskShape DEF TaskInv, WireInv
<1>2. ASSUME NEW c \in Commands, NEW r \in Report, VehicleReports(c, r) PROVE TaskInv'
  BY <1>2, TaskShape DEF VehicleReports, TaskInv
<1>3. ASSUME NEW w \in Workers, NEW c \in Commands,
             \/ \E r \in Report : StartAck(w, c, r)
             \/ StartCancel(w, c) \/ StartTimeout(w, c)
      PROVE  TaskInv'
  <2>1. PICK op \in {"ack", "cancel", "timeout"}, st \in CommandStatus :
           /\ Start(w, op, c, st)
           /\ op = "ack" => st \in Report /\ <<c, st>> \in reports
           /\ op = "timeout" => /\ st \in {"QUEUED", "TIMED_OUT"}
                                /\ st = "TIMED_OUT" => retryCount[c] >= MaxRetries
    <3>1. CASE \E r \in Report : StartAck(w, c, r)
      BY <3>1 DEF StartAck, Report, CommandStatus
    <3>2. CASE StartCancel(w, c)
      BY <3>2 DEF StartCancel, CommandStatus
    <3>3. CASE StartTimeout(w, c) /\ RetriesLeft(c)
      BY <3>3 DEF StartTimeout, CommandStatus
    <3>4. CASE StartTimeout(w, c) /\ ~RetriesLeft(c)
      BY <3>4, CommandsAssumption DEF StartTimeout, RetriesLeft, TypeOK, CommandStatus
    <3>5. QED
      BY <1>3, <3>1, <3>2, <3>3, <3>4
  <2>2. status[c] # "ABSENT"
    BY <1>3 DEF StartAck, StartCancel, StartTimeout, Cancellable, WireInv, RequestInv
  <2>3. QED
    BY <2>1, <2>2 DEF Start, TypeOK, TaskInv, RequestInv
<1>4. ASSUME NEW w \in Workers, TaskStep(w) \/ AbortTask(w) PROVE TaskInv'
  <2>1. CASE UpdateAck(w)
    BY <2>1, TaskShape DEF UpdateAck, Running, Continue, TypeOK, TaskInv
  <2>2. CASE UpdateCancel(w)
    BY <2>2, TaskShape DEF UpdateCancel, Running, Continue, TypeOK, TaskInv
  <2>3. CASE UpdateTimedOut(w)
    BY <2>3, TaskShape DEF UpdateTimedOut, Running, Continue, TypeOK, TaskInv
  <2>4. CASE UpdateRetry(w)
    BY <2>4, TaskShape, CommandsAssumption
    DEF UpdateRetry, Running, Finish, CountRetry, TypeOK, TaskInv
  <2>5. CASE DelPending(w)
    <3>1. /\ UNCHANGED <<status, retryCount, stamps, request, reports>>
          /\ task[w] # None /\ task[w].at # "update"
          /\ pending' = [pending EXCEPT ![VehicleOf[task[w].cmd]] = None]
          /\ \A x \in Workers \ {w} : task'[x] = task[x]
          /\ \/ task'[w] = None
             \/ task'[w] = [task[w] EXCEPT !.at = "emit"]
      BY <2>5, TaskShape DEF DelPending, DelKey, Running, Continue, Finish, TypeOK
    <3>2. pending'[VehicleOf[task[w].cmd]] = None
      BY <3>1, TaskShape, CommandsAssumption DEF TypeOK
    <3>3. \A e \in Commands : pending[VehicleOf[e]] # e => pending'[VehicleOf[e]] # e
      BY <3>1, TaskShape, CommandsAssumption DEF TypeOK
    <3>4. QED
      BY <3>1, <3>2, <3>3, TaskShape, CommandsAssumption DEF TaskInv, Task
  <2>6. CASE EmitOutcome(w) \/ AbortTask(w)
    BY <2>6, TaskShape DEF EmitOutcome, AbortTask, Finish, TypeOK, TaskInv
  <2>7. QED
    BY <1>4, <2>1, <2>2, <2>3, <2>4, <2>5, <2>6 DEF TaskStep
<1>5. ASSUME NEW v \in Vehicles, ExpirePending(v) PROVE TaskInv'
  BY <1>5, TaskShape, CommandsAssumption DEF ExpirePending, DelKey, TypeOK, TaskInv
<1>6. CASE UNCHANGED vars
  BY <1>6 DEF vars, TaskInv
<1>7. QED
  BY <1>1, <1>2, <1>3, <1>4, <1>5, <1>6 DEF Next

\* Vehicles answer what was published, and only markSent sets sentAt.
LEMMA WireInvStep ==
    ASSUME TypeOK, RequestInv, TaskInv, WireInv, [Next]_vars PROVE WireInv'
<1>1. ASSUME NEW c \in Commands, NEW r \in Report, <<c, r>> \in reports'
      PROVE  c \in published'
  BY <1>1, Writers, Monotone DEF VehicleReports, WireInv
<1>2. ASSUME NEW c \in Commands, "sentAt" \in stamps'[c] PROVE c \in published'
  <2>1. CASE UNCHANGED stamps
    BY <1>2, <2>1, Monotone DEF WireInv
  <2>2. ASSUME NEW d \in Commands, MarkSent(d) PROVE c \in published'
    BY <1>2, <2>2, Monotone DEF MarkSent, Advance, SetStamps, TypeOK, RequestInv, WireInv
  <2>3. ASSUME NEW w \in Workers, UpdateAck(w) PROVE c \in published'
    BY <1>2, <2>3, Monotone, Outcomes, TaskShape
    DEF UpdateAck, Running, SetStamps, TypeOK, WireInv
  <2>4. QED
    BY <2>1, <2>2, <2>3, Writers
<1>3. QED
  BY <1>1, <1>2 DEF WireInv

\* handleAck alone writes an outcome, and only the one its report names.
LEMMA OutcomeStep ==
    ASSUME TypeOK, TaskInv, OutcomeIsReported, [Next]_vars PROVE OutcomeIsReported'
<1> SUFFICES ASSUME NEW c \in Commands
             PROVE  /\ status'[c] \in Report => <<c, status'[c]>> \in reports'
                    /\ "completedAt" \in stamps'[c] => <<c, "COMPLETED">> \in reports'
                    /\ "failedAt" \in stamps'[c] => <<c, "FAILED">> \in reports'
                    /\ \A e \in events' : e.cmd = c /\ e.status \in Report
                                            => <<c, e.status>> \in reports'
  BY DEF OutcomeIsReported, Evidence
<1>1. ASSUME NEW st, <<c, st>> \in reports PROVE <<c, st>> \in reports'
  BY <1>1, Monotone
<1>2. status'[c] \in Report => <<c, status'[c]>> \in reports'
  <2>1. \/ status'[c] = status[c]
        \/ status'[c] \notin Report
        \/ \E w \in Workers : UpdateAck(w) /\ task[w].cmd = c /\ status'[c] = task[w].newStatus
    BY Writers
    DEF CreateRow, SetQueued, MarkSent, UpdateAck, UpdateCancel, UpdateRetry,
        UpdateTimedOut, SetStatus, TypeOK, Report
  <2>2. QED
    BY <2>1, <1>1 DEF OutcomeIsReported, UpdateAck, Running, TaskInv, Evidence
<1>3. /\ "completedAt" \in stamps'[c] => <<c, "COMPLETED">> \in reports'
      /\ "failedAt" \in stamps'[c] => <<c, "FAILED">> \in reports'
  <2>1. CASE UNCHANGED stamps
    BY <2>1, <1>1 DEF OutcomeIsReported, Evidence
  <2>2. ASSUME NEW d \in Commands, MarkSent(d)
        PROVE  /\ "completedAt" \in stamps'[c] => "completedAt" \in stamps[c]
               /\ "failedAt" \in stamps'[c] => "failedAt" \in stamps[c]
    BY <2>2 DEF MarkSent, SetStamps, TypeOK
  <2>3. ASSUME NEW w \in Workers, UpdateAck(w)
        PROVE  /\ "completedAt" \in stamps'[c] => <<c, "COMPLETED">> \in reports'
               /\ "failedAt" \in stamps'[c] => <<c, "FAILED">> \in reports'
    <3>1. \/ stamps'[c] = stamps[c]
          \/ /\ task[w].cmd = c
             /\ stamps'[c] = stamps[c] \cup StampsOf(task[w].newStatus)
      BY <2>3 DEF UpdateAck, SetStamps, TypeOK
    <3>2. QED
      BY <3>1, <2>3, <1>1, Outcomes, TaskShape
      DEF UpdateAck, Running, TaskInv, OutcomeIsReported, Evidence
  <2>4. QED
    BY <2>1, <2>2, <2>3, <1>1, Writers DEF OutcomeIsReported, Evidence
<1>4. ASSUME NEW e \in events', e.cmd = c, e.status \in Report PROVE <<c, e.status>> \in reports'
  <2>1. CASE e \in events
    BY <2>1, <1>4, <1>1 DEF OutcomeIsReported, Evidence
  <2>2. CASE e \notin events
    <3>1. \/ \E d \in Commands : EmitSent(d) \/ EmitCreated(d)
          \/ \E w \in Workers : EmitOutcome(w)
      BY <2>2, Writers
    <3>2. e.status # "SENT"
      BY <1>4 DEF Report
    <3>3. PICK w \in Workers : EmitOutcome(w)
      BY <3>1, <3>2, <2>2 DEF EmitSent, EmitCreated, Emit
    <3>4. e.cmd = task[w].cmd /\ e.status = task[w].newStatus
      BY <3>3, <2>2 DEF EmitOutcome, Emit
    <3>5. QED
      BY <3>3, <3>4, <1>1, <1>4 DEF EmitOutcome, Running, TaskInv, Evidence, Report
  <2>3. QED
    BY <2>1, <2>2
<1>5. QED
  BY <1>2, <1>3, <1>4

\* An event is emitted only once the row holds what it says.
LEMMA RecordedStep ==
    ASSUME TypeOK, RequestInv, TaskInv, AnnouncedIsRecorded, [Next]_vars
    PROVE  AnnouncedIsRecorded'
<1> DEFINE Sent(c) == [topic |-> "COMMAND_SENT", cmd |-> c, status |-> "SENT"]
           Recorded(e) == /\ e.status = "COMPLETED" => "completedAt" \in stamps[e.cmd]
                          /\ e.status = "FAILED" => "failedAt" \in stamps[e.cmd]
                          /\ e.status = "SENT" => /\ "sentAt" \in stamps[e.cmd]
                                                  /\ e.cmd \in published
                          /\ e.topic = "COMMAND_CREATED" => Sent(e.cmd) \in events
<1>1. ASSUME NEW e \in events PROVE e.cmd \in Commands /\ Recorded(e)
  BY DEF AnnouncedIsRecorded, TypeOK, Event
<1>2. ASSUME NEW e \in events' \ events PROVE e.cmd \in Commands /\ Recorded(e)
  <2>1. \/ \E c \in Commands : EmitSent(c) \/ EmitCreated(c)
        \/ \E w \in Workers : EmitOutcome(w)
    BY Writers
  <2>2. ASSUME NEW c \in Commands, EmitSent(c) PROVE e.cmd \in Commands /\ Recorded(e)
    BY <2>2 DEF EmitSent, Emit, Advance, RequestInv
  <2>3. ASSUME NEW c \in Commands, EmitCreated(c) PROVE e.cmd \in Commands /\ Recorded(e)
    BY <2>3 DEF EmitCreated, Emit, Advance, RequestInv
  <2>4. ASSUME NEW w \in Workers, EmitOutcome(w) PROVE e.cmd \in Commands /\ Recorded(e)
    <3>1. /\ task[w] # None /\ task[w].at = "emit" /\ task[w].op \in {"ack", "timeout"}
          /\ e = [topic |-> TopicOf(task[w].newStatus), cmd |-> task[w].cmd,
                  status |-> task[w].newStatus]
      BY <2>4 DEF EmitOutcome, Emit, Running
    <3>2. /\ task[w].cmd \in Commands
          /\ task[w].newStatus \in Report \cup {"QUEUED", "TIMED_OUT"}
          /\ task[w].newStatus \in Report =>
                StampsOf(task[w].newStatus) \subseteq stamps[task[w].cmd]
      BY <3>1, TaskShape DEF TaskInv, Report
    <3>3. QED
      BY <3>1, <3>2, TaskShape, Outcomes DEF Report
  <2>5. QED
    BY <2>1, <2>2, <2>3, <2>4
<1>3. ASSUME NEW e \in events' PROVE Recorded(e)'
  BY <1>1, <1>2, Monotone
<1>4. QED
  BY <1>3 DEF AnnouncedIsRecorded

\* The key is deleted before the event, and not set again after the publication.
LEMMA NotPendingStep ==
    ASSUME TypeOK, TypeOK', RequestInv, TaskInv, WireInv, OutcomeIsReported,
           AnnouncedIsNotPending, [Next]_vars
    PROVE  AnnouncedIsNotPending'
<1> SUFFICES ASSUME NEW e \in events', e.status \in Report
             PROVE  pending'[VehicleOf[e.cmd]] # e.cmd
  BY DEF AnnouncedIsNotPending
<1>0. e.cmd \in Commands
  BY DEF TypeOK, Event
<1>1. CASE e \in events
  <2>1. pending[VehicleOf[e.cmd]] # e.cmd /\ e.cmd \in published
    BY <1>0, <1>1 DEF AnnouncedIsNotPending, OutcomeIsReported, Evidence, WireInv
  <2>2. ASSUME NEW c \in Commands, CachePending(c) PROVE c # e.cmd
    BY <2>1, <2>2 DEF CachePending, Advance, RequestInv
  <2>3. QED
    BY <1>0, <2>1, <2>2, Writers, TaskShape, CommandsAssumption
    DEF CachePending, DelPending, ExpirePending, DelKey, Running, TypeOK
<1>2. CASE e \notin events
  <2>1. PICK w \in Workers : EmitOutcome(w) /\ e.cmd = task[w].cmd /\ e.status = task[w].newStatus
    BY <1>2, Writers DEF EmitSent, EmitCreated, EmitOutcome, Emit, Report
  <2>2. task[w].op = "ack" /\ task[w].at = "emit" /\ task[w] # None
    BY <2>1 DEF EmitOutcome, Running, TaskInv, Report
  <2>3. QED
    BY <2>1, <2>2 DEF EmitOutcome, TaskInv
<1>3. QED
  BY <1>1, <1>2

\* Who decided on TIMED_OUT saw the retries used up, and none is given back.
LEMMA DeadLetterStep ==
    ASSUME TypeOK, TypeOK', TaskInv, DeadLetterAfterRetries, [Next]_vars
    PROVE  DeadLetterAfterRetries'
<1> SUFFICES ASSUME NEW c \in Commands,
                    \/ status'[c] = "TIMED_OUT"
                    \/ \E e \in events' : e.cmd = c /\ e.status = "TIMED_OUT"
             PROVE  retryCount'[c] >= MaxRetries
  BY DEF DeadLetterAfterRetries
<1>1. retryCount[c] >= MaxRetries
  <2>1. CASE status[c] = "TIMED_OUT" \/ \E e \in events : e.cmd = c /\ e.status = "TIMED_OUT"
    BY <2>1 DEF DeadLetterAfterRetries
  <2>2. CASE \E w \in Workers : /\ UpdateAck(w) \/ UpdateTimedOut(w) \/ EmitOutcome(w)
                                /\ task[w].cmd = c /\ task[w].newStatus = "TIMED_OUT"
    BY <2>2 DEF UpdateAck, UpdateTimedOut, EmitOutcome, Running, TaskInv, Report
  <2>3. CASE status[c] # "TIMED_OUT" /\ status'[c] = "TIMED_OUT"
    BY <2>2, <2>3, Writers
    DEF CreateRow, SetQueued, MarkSent, UpdateAck, UpdateCancel, UpdateRetry,
        UpdateTimedOut, SetStatus, TypeOK
  <2>4. CASE \E e \in events' \ events : e.cmd = c /\ e.status = "TIMED_OUT"
    BY <2>2, <2>4, Writers DEF EmitSent, EmitCreated, EmitOutcome, Emit
  <2>5. QED
    BY <2>1, <2>3, <2>4
<1>2. QED
  BY <1>1, Monotone, CommandsAssumption DEF TypeOK

\* All parts together.
LEMMA StepIInv == IInv /\ [Next]_vars => IInv'
  BY TypeStep, RequestInvStep, TaskInvStep, WireInvStep, OutcomeStep, RecordedStep,
     NotPendingStep, DeadLetterStep
  DEF IInv

\* The inductive invariant holds in every reachable state.
THEOREM Inductive == Spec => []IInv
  BY InitIInv, StepIInv, PTL DEF Spec

-----------------------------------------------------------------------------
\* The safety properties, each from the inductive invariant

\* No row and no event shows an outcome the vehicle did not report.
THEOREM OutcomeCorrect == Spec => []OutcomeIsReported
  BY Inductive, PTL DEF IInv

\* A published command has a row that has left PENDING.
THEOREM PersistedCorrect == Spec => []PersistedBeforeSent
<1>1. IInv => PersistedBeforeSent
  BY DEF IInv, RequestInv, PersistedBeforeSent, TypeOK
<1>2. QED
  BY <1>1, Inductive, PTL

\* What Kafka was told, the row still records.
THEOREM AnnouncedCorrect == Spec => []AnnouncedIsRecorded
  BY Inductive, PTL DEF IInv

\* A command whose outcome was announced is not left in Redis.
THEOREM NotPendingCorrect == Spec => []AnnouncedIsNotPending
  BY Inductive, PTL DEF IInv

\* Only exhausted commands are dead letters.
THEOREM DeadLetterCorrect == Spec => []DeadLetterAfterRetries
  BY Inductive, PTL DEF IInv

-----------------------------------------------------------------------------
\* The task of w goes on: only its next awaited call is another one.
Same(w) ==
    /\ task[w] # None /\ task'[w] # None
    /\ task'[w].op = task[w].op
    /\ task'[w].cmd = task[w].cmd
    /\ task'[w].newStatus = task[w].newStatus

\* How the task of a worker may change.
LEMMA TaskWriters ==
    ASSUME TypeOK, [Next]_vars, NEW w \in Workers
    PROVE  \/ task'[w] = task[w]
           \/ task'[w] = None
           \/ Same(w)
           \/ \E c \in Commands, r \in Report : StartAck(w, c, r)
           \/ \E c \in Commands : StartCancel(w, c) \/ StartTimeout(w, c)
<1>1. CASE \E c \in Commands : RequestStep(c) \/ AbortRequest(c)
  BY <1>1
  DEF RequestStep, CreateRow, CheckPending, SetQueued, CachePending, Publish, MarkSent,
      EmitSent, EmitCreated, AbortRequest
<1>2. CASE \E c \in Commands, r \in Report : VehicleReports(c, r)
  BY <1>2 DEF VehicleReports
<1>3. ASSUME NEW x \in Workers, NEW c \in Commands,
             \/ \E r \in Report : StartAck(x, c, r)
             \/ StartCancel(x, c)
             \/ StartTimeout(x, c)
      PROVE  \/ task'[w] = task[w]
             \/ \E r \in Report : StartAck(w, c, r)
             \/ StartCancel(w, c) \/ StartTimeout(w, c)
  BY <1>3 DEF StartAck, StartCancel, StartTimeout, Start, TypeOK
<1>4. ASSUME NEW x \in Workers, TaskStep(x) \/ AbortTask(x)
      PROVE  \/ task'[w] = task[w]
             \/ task'[w] = None
             \/ Same(w)
  <2>1. task[x] # None
    BY <1>4
    DEF TaskStep, UpdateAck, UpdateCancel, UpdateRetry, UpdateTimedOut, DelPending,
        EmitOutcome, AbortTask, Running
  <2>2. Finish(x) \/ Continue(x, "del") \/ Continue(x, "emit")
    BY <1>4
    DEF TaskStep, UpdateAck, UpdateCancel, UpdateRetry, UpdateTimedOut, DelPending,
        EmitOutcome, AbortTask
  <2>3. QED
    BY <2>1, <2>2, TaskShape DEF Finish, Continue, TypeOK, Task, Same
<1>5. CASE \E v \in Vehicles : ExpirePending(v)
  BY <1>5 DEF ExpirePending
<1>6. CASE UNCHANGED vars
  BY <1>6 DEF vars
<1>7. QED
  BY <1>1, <1>2, <1>3, <1>4, <1>5, <1>6 DEF Next

\* A command at rest with an outcome is left alone by all but acknowledgements.
THEOREM FinalAtRestCorrect == Spec => FinalAtRest
<1>1. IInv /\ [Next]_vars =>
        \A c \in Commands : status[c] \in {"COMPLETED", "FAILED"} /\ Quiet(c) => LeftAlone(c)
  <2> SUFFICES ASSUME IInv, [Next]_vars, NEW c \in Commands,
                      status[c] \in {"COMPLETED", "FAILED"}, Quiet(c)
               PROVE  LeftAlone(c)
    OBVIOUS
  <2> USE DEF IInv
  <2>1. status'[c] = status[c]
    BY Writers
    DEF TypeOK, Quiet, Settled, CreateRow, SetQueued, MarkSent, UpdateAck, UpdateCancel,
        UpdateRetry, UpdateTimedOut, SetStatus, Advance, Running
  <2>2. ASSUME NEW w \in Workers, task'[w] # None, task'[w].cmd = c
        PROVE  task'[w].op = "ack"
    <3>1. \/ \E d \in Commands, r \in Report : StartAck(w, d, r)
          \/ \E d \in Commands : StartCancel(w, d) \/ StartTimeout(w, d)
      BY <2>2, TaskWriters DEF Quiet, Same
    <3>2. PICK op \in {"ack", "cancel", "timeout"}, d \in Commands, st \in CommandStatus :
             Start(w, op, d, st) /\ (op # "ack" => status[d] \notin {"COMPLETED", "FAILED"})
      BY <3>1 DEF StartAck, StartCancel, StartTimeout, Cancellable, Report, CommandStatus
    <3>3. QED
      BY <2>2, <3>2 DEF Start, TypeOK
  <2>3. QED
    BY <2>1, <2>2 DEF LeftAlone
<1>2. QED
  BY <1>1, Inductive, PTL DEF Spec, FinalAtRest

-----------------------------------------------------------------------------
\* The retries of c stay within what its pending handlers may still add.
Bounded(c) ==
    \/ retryCount[c] < MaxRetries
    \/ retryCount[c] + Cardinality(Retrying(c)) < MaxRetries + Cardinality(Workers)

\* Retrying(c) is a finite set, no larger than Workers.
LEMMA RetryingFinite ==
    ASSUME NEW c \in Commands
    PROVE  /\ IsFiniteSet(Retrying(c)) /\ Cardinality(Retrying(c)) \in Nat
           /\ Cardinality(Workers) \in Nat \ {0}
           /\ Cardinality(Retrying(c)) <= Cardinality(Workers)
  BY FS_Subset, FS_CardinalityType, FS_EmptySet, CommandsAssumption DEF Retrying

\* A retry moves one handler from Retrying into the count; a handler joins
\* Retrying only while the count is below MaxRetries.
LEMMA BoundedStep ==
    ASSUME TypeOK, TypeOK', [Next]_vars, NEW c \in Commands, Bounded(c)
    PROVE  Bounded(c)'
<1>0. /\ IsFiniteSet(Retrying(c)) /\ Cardinality(Retrying(c)) \in Nat
      /\ IsFiniteSet(Retrying(c)') /\ Cardinality(Retrying(c)') \in Nat
      /\ Cardinality(Workers) \in Nat \ {0}
      /\ Cardinality(Retrying(c)) <= Cardinality(Workers)
      /\ retryCount[c] \in Nat /\ MaxRetries \in Nat
  <2>1. IsFiniteSet(Retrying(c)') /\ Cardinality(Retrying(c)') \in Nat
    BY FS_Subset, FS_CardinalityType, CommandsAssumption DEF Retrying
  <2>2. QED
    BY <2>1, RetryingFinite, CommandsAssumption DEF TypeOK
<1>1. CASE \E w \in Workers : UpdateRetry(w) /\ task[w].cmd = c
  <2>1. PICK w \in Workers : UpdateRetry(w) /\ task[w].cmd = c
    BY <1>1
  <2>2. retryCount'[c] = retryCount[c] + 1
    BY <2>1 DEF UpdateRetry, CountRetry, TypeOK
  <2>3. w \in Retrying(c) /\ Retrying(c)' = Retrying(c) \ {w}
    BY <2>1 DEF UpdateRetry, Running, Finish, Retrying, TypeOK
  <2>4. Cardinality(Retrying(c)') = Cardinality(Retrying(c)) - 1
    BY <2>3, <1>0, FS_RemoveElement
  <2>5. QED
    BY <2>2, <2>4, <1>0 DEF Bounded
<1>2. CASE ~\E w \in Workers : UpdateRetry(w) /\ task[w].cmd = c
  <2>1. retryCount'[c] = retryCount[c]
    BY <1>2, Writers DEF UpdateRetry, CountRetry, TypeOK
  <2>2. CASE retryCount[c] < MaxRetries
    BY <2>1, <2>2 DEF Bounded
  <2>3. CASE ~(retryCount[c] < MaxRetries)
    <3>1. ASSUME NEW w \in Retrying(c)' PROVE w \in Retrying(c)
      <4>1. w \in Workers /\ task'[w] # None /\ task'[w].op = "timeout"
            /\ task'[w].cmd = c /\ task'[w].newStatus = "QUEUED"
        BY DEF Retrying
      <4>2. CASE task'[w] = task[w] \/ Same(w)
        BY <4>1, <4>2 DEF Same, Retrying
      <4>3. CASE \E d \in Commands, r \in Report : StartAck(w, d, r)
        BY <4>1, <4>3 DEF StartAck, Start, TypeOK
      <4>4. ASSUME NEW d \in Commands, StartCancel(w, d) \/ StartTimeout(w, d) PROVE FALSE
        BY <4>1, <4>4, <2>3 DEF StartCancel, StartTimeout, RetriesLeft, Start, TypeOK
      <4>5. QED
        BY <4>1, <4>2, <4>3, <4>4, TaskWriters
    <3>2. Cardinality(Retrying(c)') <= Cardinality(Retrying(c))
      BY <3>1, <1>0, FS_Subset
    <3>3. QED
      BY <2>1, <2>3, <3>2, <1>0 DEF Bounded
  <2>4. QED
    BY <2>2, <2>3
<1>3. QED
  BY <1>1, <1>2

\* Overlapping timeout handlers pass MaxRetries by less than their number.
THEOREM RetriesCorrect == Spec => []RetriesBounded
<1>1. RetriesBounded <=> \A c \in Commands : Bounded(c)
  BY DEF RetriesBounded, Bounded
<1>2. Init => RetriesBounded
  <2> SUFFICES ASSUME Init, NEW c \in Commands PROVE Bounded(c)
    BY <1>1
  <2>1. Retrying(c) = {} /\ retryCount[c] = 0
    BY DEF Init, Retrying
  <2>2. QED
    BY <2>1, RetryingFinite, FS_EmptySet, CommandsAssumption DEF Bounded
<1>3. RetriesBounded /\ TypeOK /\ [Next]_vars => RetriesBounded'
  BY TypeStep, BoundedStep DEF RetriesBounded, Bounded
<1>4. QED
  BY <1>2, <1>3, TypeCorrect, PTL DEF Spec

-----------------------------------------------------------------------------
(***************************************************************************)
(* The service implements the ledger: its steps map to a step of           *)
(* CommandLedger on <<status, retryCount, published, reports>> or leave    *)
(* these alone.                                                            *)
(***************************************************************************)
THEOREM Refinement == Spec => ImplementsLedger
<1>1. Init => Ledger!Init
  BY DEF Init, Ledger!Init
<1>2. IInv /\ [Next]_vars => [Ledger!Next]_(Ledger!vars)
  <2> SUFFICES ASSUME IInv, [Next]_vars PROVE [Ledger!Next]_(Ledger!vars)
    OBVIOUS
  <2> USE DEF IInv, row, wire, SetStatus, Ledger!SetStatus, Ledger!Recorded, Ledger!vars
  <2>1. ASSUME NEW c \in Commands, RequestStep(c) PROVE [Ledger!Next]_(Ledger!vars)
    <3>1. CASE CreateRow(c)
      BY <3>1 DEF CreateRow, Advance, RequestInv, Ledger!Next, Ledger!Record
    <3>2. CASE SetQueued(c)
      BY <3>2 DEF SetQueued, Advance, RequestInv, Ledger!Next, Ledger!Enqueue
    <3>3. CASE Publish(c)
      BY <3>3 DEF Publish, Advance, RequestInv, Ledger!Next, Ledger!Send
    <3>4. CASE MarkSent(c)
      BY <3>4 DEF MarkSent, Advance, RequestInv, Ledger!Next, Ledger!ConfirmSent
    <3>5. CASE CheckPending(c) \/ CachePending(c) \/ EmitSent(c) \/ EmitCreated(c)
      BY <3>5 DEF CheckPending, CachePending, EmitSent, EmitCreated
    <3>6. QED
      BY <2>1, <3>1, <3>2, <3>3, <3>4, <3>5 DEF RequestStep
  <2>2. ASSUME NEW c \in Commands, NEW r \in Report, VehicleReports(c, r)
        PROVE  [Ledger!Next]_(Ledger!vars)
    BY <2>2 DEF VehicleReports, Report, Ledger!Next, Ledger!Answer
  <2>3. ASSUME NEW w \in Workers, TaskStep(w) PROVE [Ledger!Next]_(Ledger!vars)
    <3> DEFINE c == task[w].cmd
    <3>1. CASE UpdateAck(w)
      <4>1. /\ c \in Commands /\ task[w].newStatus \in Report
            /\ <<c, task[w].newStatus>> \in reports
        BY <3>1, TaskShape DEF UpdateAck, Running, TaskInv
      <4>2. QED
        BY <3>1, <4>1 DEF UpdateAck, Report, Ledger!Next, Ledger!RecordAnswer
    <3>2. ASSUME task[w] # None PROVE c \in Commands /\ Ledger!Recorded(c)
      BY <3>2, TaskShape DEF TaskInv, RequestInv
    <3>3. CASE UpdateCancel(w)
      BY <3>2, <3>3 DEF UpdateCancel, Running, Ledger!Next, Ledger!Cancel
    <3>4. CASE UpdateRetry(w)
      BY <3>2, <3>4 DEF UpdateRetry, Running, CountRetry, Ledger!Next, Ledger!Retry
    <3>5. CASE UpdateTimedOut(w)
      BY <3>2, <3>5 DEF UpdateTimedOut, Running, TaskInv, Ledger!Next, Ledger!DeadLetter
    <3>6. CASE DelPending(w) \/ EmitOutcome(w)
      BY <3>6 DEF DelPending, EmitOutcome
    <3>7. QED
      BY <2>3, <3>1, <3>3, <3>4, <3>5, <3>6 DEF TaskStep
  <2>4. ASSUME NEW w \in Workers, NEW c \in Commands,
               \/ \E r \in Report : StartAck(w, c, r)
               \/ StartCancel(w, c) \/ StartTimeout(w, c)
        PROVE  UNCHANGED Ledger!vars
    BY <2>4 DEF StartAck, StartCancel, StartTimeout, Start
  <2>5. CASE \/ \E c \in Commands : AbortRequest(c)
             \/ \E w \in Workers : AbortTask(w)
             \/ \E v \in Vehicles : ExpirePending(v)
             \/ UNCHANGED vars
    BY <2>5 DEF AbortRequest, AbortTask, ExpirePending, vars
  <2>6. QED
    BY <2>1, <2>2, <2>3, <2>4, <2>5 DEF Next
<1>3. QED
  BY <1>1, <1>2, Inductive, PTL DEF Spec, ImplementsLedger, Ledger!Spec
=============================================================================
