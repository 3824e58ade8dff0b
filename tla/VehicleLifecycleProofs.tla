----------------------- MODULE VehicleLifecycleProofs -----------------------
(***************************************************************************)
(* Theorems about VehicleLifecycle, for every set of vehicles, fleets and  *)
(* codes and every finite set of calls in flight, with and without         *)
(* failures.                                                               *)
(***************************************************************************)
EXTENDS VehicleLifecycle, FiniteSetTheorems, TLAPS

\* A call awaits the statements of its handler and no others.
Stages ==
    ({"create"} \X {"emit"})
        \cup ({"status", "transfer"} \X {"commit", "emit"})
        \cup ({"delete"} \X {"mark", "release", "emit"})
        \cup ({"assign"} \X {"release", "create", "emit"})
        \cup ({"remove"} \X {"release"})
        \cup ({"issue"} \X {"commit"})
        \cup ({"pair"} \X {"commit", "emit"})
        \cup ({"unpair"} \X {"select", "commit"})

\* What a history row is made of has the type of its table.
ShapeOf(t) ==
    /\ <<t.call, t.at>> \in Stages
    /\ t.call = "status" => t.from \in VehicleStatus /\ t.to \in VehicleStatus
    /\ t.call = "transfer" => t.from \in Fleets \cup {None} /\ t.to \in Fleets

Shape == \A w \in Workers : task[w] # None => ShapeOf(task[w])

TypeInv == TypeOK /\ Shape

\* Only worker w's task differs after its step.
Alone(w) == \A x \in Workers \ {w} : task'[x] = task[x]

LEMMA TaskShape ==
    ASSUME TypeInv, NEW w \in Workers, task[w] # None
    PROVE  /\ task[w] \in Task
           /\ task[w].veh \in Vehicles
           /\ task[w].codes \subseteq Codes
           /\ <<task[w].call, task[w].at>> \in Stages
           /\ task[w].call = "status" => /\ task[w].from \in VehicleStatus
                                         /\ task[w].to \in VehicleStatus
           /\ task[w].call = "transfer" => /\ task[w].from \in Fleets \cup {None}
                                           /\ task[w].to \in Fleets
  BY DEF TypeInv, TypeOK, Shape, ShapeOf, Task

\* A task is never None: the record has a call and None is no task.
LEMMA StartShape ==
    ASSUME TypeInv, NEW w \in Workers, NEW t \in Task, task' = [task EXCEPT ![w] = t]
    PROVE  /\ task' \in [Workers -> Task \cup {None}]
           /\ task'[w] = t
           /\ Alone(w)
  BY DEF TypeInv, TypeOK, Alone

LEMMA ContinueShape ==
    ASSUME TypeInv, NEW w \in Workers, task[w] # None,
           NEW at \in {"commit", "select", "mark", "release", "create", "emit"},
           Continue(w, at)
    PROVE  /\ task' \in [Workers -> Task \cup {None}]
           /\ task'[w] = [task[w] EXCEPT !.at = at]
           /\ task'[w].call = task[w].call
           /\ task'[w].veh = task[w].veh
           /\ task'[w].at = at
           /\ task'[w].from = task[w].from
           /\ task'[w].to = task[w].to
           /\ task'[w].codes = task[w].codes
           /\ Alone(w)
<1>1. task[w] \in Task /\ task \in [Workers -> Task \cup {None}]
  BY TaskShape DEF TypeInv, TypeOK
<1>2. task'[w] = [task[w] EXCEPT !.at = at] /\ Alone(w)
  BY <1>1 DEF Continue, Alone
<1>3. [task[w] EXCEPT !.at = at] \in Task
  BY <1>1 DEF Task
<1>4. task' \in [Workers -> Task \cup {None}]
  BY <1>1, <1>3 DEF Continue
<1>5. QED
  BY <1>1, <1>2, <1>4 DEF Task

LEMMA FinishShape ==
    ASSUME TypeInv, NEW w \in Workers, Finish(w)
    PROVE  /\ task' \in [Workers -> Task \cup {None}]
           /\ task'[w] = None
           /\ Alone(w)
  BY DEF TypeInv, TypeOK, Finish, Alone

\* The record a call begins with is a task.
LEMMA NewTaskType ==
    ASSUME NEW call \in CallNames, NEW v \in Vehicles,
           NEW at \in {"commit", "select", "mark", "release", "create", "emit"},
           NEW from \in VehicleStatus \cup Fleets \cup {None},
           NEW to \in VehicleStatus \cup Fleets \cup {None},
           NEW C \in SUBSET Codes
    PROVE  /\ NewTask(call, v, at, from, to, C) \in Task
           /\ NewTask(call, v, at, from, to, C).call = call
           /\ NewTask(call, v, at, from, to, C).veh = v
           /\ NewTask(call, v, at, from, to, C).at = at
           /\ NewTask(call, v, at, from, to, C).from = from
           /\ NewTask(call, v, at, from, to, C).to = to
           /\ NewTask(call, v, at, from, to, C).codes = C
  BY DEF NewTask, Task

\* What every first read does: a task for a vehicle that is there, nothing else.
Begins(w, v, call, at, from, to, C) ==
    /\ Alive(v)
    /\ task[w] = None
    /\ task' \in [Workers -> Task \cup {None}]
    /\ task'[w] = NewTask(call, v, at, from, to, C)
    /\ task'[w].call = call /\ task'[w].veh = v /\ task'[w].at = at
    /\ task'[w].from = from /\ task'[w].to = to /\ task'[w].codes = C
    /\ Alone(w)
    /\ UNCHANGED <<status, deleted, fleet, pairing, drivers, code, changes, moves, events>>

LEMMA StartBegins ==
    ASSUME TypeInv, NEW w \in Workers, NEW call \in CallNames, NEW v \in Vehicles,
           NEW at \in {"commit", "select", "mark", "release", "create", "emit"},
           NEW from \in VehicleStatus \cup Fleets \cup {None},
           NEW to \in VehicleStatus \cup Fleets \cup {None},
           NEW C \in SUBSET Codes,
           Start(w, NewTask(call, v, at, from, to, C))
    PROVE  Begins(w, v, call, at, from, to, C)
<1>1. NewTask(call, v, at, from, to, C) \in Task
  BY NewTaskType
<1>2. task' = [task EXCEPT ![w] = NewTask(call, v, at, from, to, C)]
  BY DEF Start
<1>3. task' \in [Workers -> Task \cup {None}] /\ Alone(w)
      /\ task'[w] = NewTask(call, v, at, from, to, C)
  BY <1>1, <1>2, StartShape
<1>4. task[w] = None /\ Alive(v)
      /\ UNCHANGED <<status, deleted, fleet, pairing, drivers, code, changes, moves, events>>
  BY DEF Start, NewTask, rows, history
<1>5. /\ task'[w].call = call /\ task'[w].veh = v /\ task'[w].at = at
      /\ task'[w].from = from /\ task'[w].to = to /\ task'[w].codes = C
  BY <1>3 DEF NewTask
<1>6. QED
  BY <1>3, <1>4, <1>5 DEF Begins

\* The first reads that have no condition of their own
PlainStart(w, v) ==
    \/ StartDelete(w, v) \/ StartAssign(w, v) \/ StartRemove(w, v) \/ StartUnpair(w, v)

\* The first reads, and what their tasks remember of the rows
LEMMA StartCases ==
    ASSUME TypeInv, NEW w \in Workers, NEW v \in Vehicles, StartCall(w, v)
    PROVE  \/ \E f \in Fleets \cup {None} : CreateVehicle(w, v, f)
           \/ \E to \in VehicleStatus :
                  /\ status[v] \in VehicleStatus
                  /\ to \in ALLOWED_TRANSITIONS[status[v]]
                  /\ Begins(w, v, "status", "commit", status[v], to, {})
           \/ \E p \in {<<"delete", "mark">>, <<"assign", "release">>,
                         <<"remove", "release">>, <<"unpair", "select">>} :
                  Begins(w, v, p[1], p[2], None, None, {})
           \/ \E to \in Fleets : Begins(w, v, "transfer", "commit", fleet[v], to, {})
           \/ \E c \in Codes :
                  /\ code[v][c] = "ABSENT"
                  /\ \A x \in Workers : ~(Running(x, "issue", "commit") /\ c \in task[x].codes)
                  /\ Begins(w, v, "issue", "commit", None, None, {c})
           \/ \E c \in Codes : /\ code[v][c] = "PENDING"
                               /\ Begins(w, v, "pair", "commit", None, None, {c})
<1> USE DEF CallNames
<1>1. status[v] \in VehicleStatus \cup {"ABSENT"} /\ fleet[v] \in Fleets \cup {None}
  BY DEF TypeInv, TypeOK
<1>2. ASSUME NEW to \in VehicleStatus, StartStatus(w, v, to)
      PROVE  /\ status[v] \in VehicleStatus
             /\ to \in ALLOWED_TRANSITIONS[status[v]]
             /\ Begins(w, v, "status", "commit", status[v], to, {})
  <2>1. status[v] \in VehicleStatus
    BY <1>1, <1>2 DEF StartStatus
  <2>2. Start(w, NewTask("status", v, "commit", status[v], to, {}))
    BY <1>2 DEF StartStatus
  <2>3. QED
    BY <1>2, <2>1, <2>2, StartBegins DEF StartStatus, Permitted
<1>3. StartDelete(w, v) => Begins(w, v, "delete", "mark", None, None, {})
  BY StartBegins DEF StartDelete
<1>4. StartAssign(w, v) => Begins(w, v, "assign", "release", None, None, {})
  BY StartBegins DEF StartAssign
<1>5. StartRemove(w, v) => Begins(w, v, "remove", "release", None, None, {})
  BY StartBegins DEF StartRemove
<1>6. StartUnpair(w, v) => Begins(w, v, "unpair", "select", None, None, {})
  BY StartBegins DEF StartUnpair
<1>7. ASSUME NEW to \in Fleets, StartTransfer(w, v, to)
      PROVE  Begins(w, v, "transfer", "commit", fleet[v], to, {})
  BY <1>1, <1>7, StartBegins DEF StartTransfer
<1>8. ASSUME NEW c \in Codes, StartIssue(w, v, c)
      PROVE  Begins(w, v, "issue", "commit", None, None, {c})
  BY <1>8, StartBegins DEF StartIssue
<1>9. ASSUME NEW c \in Codes, StartPair(w, v, c)
      PROVE  Begins(w, v, "pair", "commit", None, None, {c})
  BY <1>9, StartBegins DEF StartPair
<1>10. PlainStart(w, v) =>
         \E p \in {<<"delete", "mark">>, <<"assign", "release">>,
                   <<"remove", "release">>, <<"unpair", "select">>} :
            Begins(w, v, p[1], p[2], None, None, {})
  <2>1. <<"delete", "mark">>[1] = "delete" /\ <<"delete", "mark">>[2] = "mark"
        /\ <<"assign", "release">>[1] = "assign" /\ <<"assign", "release">>[2] = "release"
        /\ <<"remove", "release">>[1] = "remove" /\ <<"remove", "release">>[2] = "release"
        /\ <<"unpair", "select">>[1] = "unpair" /\ <<"unpair", "select">>[2] = "select"
    OBVIOUS
  <2>2. QED
    BY <1>3, <1>4, <1>5, <1>6, <2>1 DEF PlainStart
<1>11. QED
  BY <1>2, <1>7, <1>8, <1>9, <1>10 DEF StartCall, StartIssue, StartPair, PlainStart

-----------------------------------------------------------------------------
\* The type invariant

LEMMA BeginType ==
    ASSUME TypeInv, NEW w \in Workers, NEW v \in Vehicles, StartCall(w, v)
    PROVE  TypeOK'
<1> USE DEF TypeOK
<1>0. TypeOK
  BY DEF TypeInv
<1>1. ASSUME NEW f \in Fleets \cup {None}, CreateVehicle(w, v, f) PROVE TypeOK'
  <2>1. task' \in [Workers -> Task \cup {None}]
    <3>1. NewTask("create", v, "emit", None, None, {}) \in Task
      BY DEF NewTask, Task, CallNames
    <3>2. QED
      BY <1>1, <3>1, StartShape DEF CreateVehicle
  <2>2. status' \in [Vehicles -> VehicleStatus \cup {"ABSENT"}]
    BY <1>1, <1>0 DEF CreateVehicle, VehicleStatus
  <2>3. QED
    BY <1>1, <1>0, <2>1, <2>2 DEF CreateVehicle, history
<1>2. (\E call, at, from, to, C : Begins(w, v, call, at, from, to, C)) => TypeOK'
  BY <1>0 DEF Begins
<1>3. QED
  BY <1>1, <1>2, StartCases

\* The history a step may add to
LEMMA AppendType ==
    ASSUME NEW S, NEW h \in [Vehicles -> Seq(S)], NEW v \in Vehicles, NEW e \in S
    PROVE  /\ [h EXCEPT ![v] = Append(@, e)] \in [Vehicles -> Seq(S)]
           /\ [h EXCEPT ![v] = Append(@, e)][v] = Append(h[v], e)
           /\ \A u \in Vehicles \ {v} : [h EXCEPT ![v] = Append(@, e)][u] = h[u]
           /\ Len(Append(h[v], e)) = Len(h[v]) + 1
           /\ Append(h[v], e)[Len(h[v]) + 1] = e
           /\ \A i \in 1 .. Len(h[v]) : Append(h[v], e)[i] = h[v][i]
  OBVIOUS

LEMMA SetCodesType ==
    ASSUME TypeOK, NEW v, NEW C, NEW st \in CodeStatus, SetCodes(v, C, st)
    PROVE  /\ code' \in [Vehicles -> [Codes -> CodeStatus]]
           /\ \A u \in Vehicles \ {v} : code'[u] = code[u]
           /\ v \in Vehicles => \A c \in Codes :
                 code'[v][c] = IF c \in C THEN st ELSE code[v][c]
  BY DEF TypeOK, SetCodes

LEMMA StepType ==
    ASSUME TypeInv, NEW w \in Workers, TaskStep(w)
    PROVE  TypeOK'
<1> USE DEF TypeOK
<1>0. TypeOK
  BY DEF TypeInv
<1>1. CASE CommitStatus(w)
  <2>1. task[w] # None /\ task[w].call = "status" /\ task[w].veh \in Vehicles
        /\ task[w].from \in VehicleStatus /\ task[w].to \in VehicleStatus
    BY <1>1, TaskShape DEF CommitStatus, Running
  <2>2. task' \in [Workers -> Task \cup {None}]
    BY <1>1, <2>1, ContinueShape DEF CommitStatus
  <2>3. changes' \in [Vehicles -> Seq(StatusRow)]
    <3>1. [from |-> task[w].from, to |-> task[w].to] \in StatusRow
      BY <2>1 DEF StatusRow
    <3>2. QED
      BY <1>0, <1>1, <2>1, <3>1, AppendType DEF CommitStatus, AddChange
  <2>4. status' \in [Vehicles -> VehicleStatus \cup {"ABSENT"}]
    BY <1>0, <1>1, <2>1 DEF CommitStatus
  <2>5. QED
    BY <1>0, <1>1, <2>2, <2>3, <2>4 DEF CommitStatus
<1>2. CASE CommitTransfer(w)
  <2>1. task[w] # None /\ task[w].call = "transfer" /\ task[w].veh \in Vehicles
        /\ task[w].from \in Fleets \cup {None} /\ task[w].to \in Fleets
    BY <1>2, TaskShape DEF CommitTransfer, Running
  <2>2. task' \in [Workers -> Task \cup {None}]
    BY <1>2, <2>1, ContinueShape DEF CommitTransfer
  <2>3. moves' \in [Vehicles -> Seq(FleetRow)]
    <3>1. [from |-> task[w].from, to |-> task[w].to] \in FleetRow
      BY <2>1 DEF FleetRow
    <3>2. QED
      BY <1>0, <1>2, <2>1, <3>1, AppendType DEF CommitTransfer, AddMove
  <2>4. fleet' \in [Vehicles -> Fleets \cup {None}]
    BY <1>0, <1>2, <2>1 DEF CommitTransfer
  <2>5. QED
    BY <1>0, <1>2, <2>2, <2>3, <2>4 DEF CommitTransfer
<1>3. CASE MarkDeleted(w)
  <2>1. task[w] # None
    BY <1>3 DEF MarkDeleted, Running
  <2>2. task' \in [Workers -> Task \cup {None}]
    BY <1>3, <2>1, ContinueShape DEF MarkDeleted
  <2>3. QED
    BY <1>0, <1>3, <2>2 DEF MarkDeleted, Decommission, VehicleStatus, history
<1>4. CASE ReleaseDrivers(w)
  <2>1. task[w] # None
    BY <1>4 DEF ReleaseDrivers, Running
  <2>2. task' \in [Workers -> Task \cup {None}]
    BY <1>4, <2>1, ContinueShape, FinishShape DEF ReleaseDrivers
  <2>3. QED
    BY <1>0, <1>4, <2>2 DEF ReleaseDrivers, Release, history
<1>5. CASE CreateAssignment(w)
  <2>1. task[w] # None
    BY <1>5 DEF CreateAssignment, Running
  <2>2. task' \in [Workers -> Task \cup {None}]
    BY <1>5, <2>1, ContinueShape DEF CreateAssignment
  <2>3. drivers' \in [Vehicles -> Nat]
    <3>1. task[w].veh \in Vehicles
      BY <2>1, TaskShape
    <3>2. QED
      BY <1>0, <1>5, <3>1 DEF CreateAssignment
  <2>4. QED
    BY <1>0, <1>5, <2>2, <2>3 DEF CreateAssignment, history
<1>6. CASE CommitIssue(w)
  BY <1>0, <1>6, FinishShape, SetCodesType DEF CommitIssue, CodeStatus, PairingStatus, history
<1>7. CASE CommitPair(w)
  <2>1. task[w] # None
    BY <1>7 DEF CommitPair, Running
  <2>2. task' \in [Workers -> Task \cup {None}]
    BY <1>7, <2>1, ContinueShape DEF CommitPair
  <2>3. QED
    BY <1>0, <1>7, <2>2, SetCodesType DEF CommitPair, CodeStatus, PairingStatus, history
<1>8. CASE SelectPaired(w)
  <2> DEFINE v == task[w].veh
             C == {c \in Codes : code[v][c] = "ACTIVE"}
  <2>1. v \in Vehicles
    BY <1>8, TaskShape DEF SelectPaired, Running
  <2>2. NewTask("unpair", v, "commit", None, None, C) \in Task
    BY <2>1 DEF NewTask, Task, CallNames
  <2>3. task' = [task EXCEPT ![w] = NewTask("unpair", v, "commit", None, None, C)]
    BY <1>8 DEF SelectPaired
  <2>4. task' \in [Workers -> Task \cup {None}]
    BY <2>2, <2>3, StartShape
  <2>5. QED
    BY <1>0, <1>8, <2>4 DEF SelectPaired, rows, history
<1>9. CASE CommitUnpair(w)
  BY <1>0, <1>9, FinishShape, SetCodesType
     DEF CommitUnpair, Revoke, CodeStatus, PairingStatus, history
<1>10. CASE EmitEvent(w)
  <2>1. [call |-> task[w].call, veh |-> task[w].veh,
         from |-> task[w].from, to |-> task[w].to] \in Event
    BY <1>10, TaskShape DEF EmitEvent, Event, Task
  <2>2. QED
    BY <1>0, <1>10, <2>1, FinishShape DEF EmitEvent, rows, history
<1>11. QED
  BY <1>1, <1>2, <1>3, <1>4, <1>5, <1>6, <1>7, <1>8, <1>9, <1>10 DEF TaskStep

\* How a call goes from one awaited statement to the next: only unpairVehicle
\* learns something on its way, the codes to revoke.
Moves(w) ==
    /\ task'[w].call = task[w].call
    /\ task'[w].veh = task[w].veh
    /\ <<task[w].call, task[w].at, task'[w].at>> \in
          {<<"status", "commit", "emit">>, <<"transfer", "commit", "emit">>,
           <<"delete", "mark", "release">>, <<"delete", "release", "emit">>,
           <<"assign", "release", "create">>, <<"assign", "create", "emit">>,
           <<"pair", "commit", "emit">>, <<"unpair", "select", "commit">>}
    /\ task[w].call # "unpair" => /\ task'[w].from = task[w].from
                                  /\ task'[w].to = task[w].to
                                  /\ task'[w].codes = task[w].codes
    /\ task[w].call = "unpair" =>
          /\ task'[w].codes = {c \in Codes : code[task[w].veh][c] = "ACTIVE"}
          /\ code' = code

LEMMA TaskMoves ==
    ASSUME TypeInv, NEW w \in Workers, TaskStep(w)
    PROVE  /\ task[w] # None
           /\ Alone(w)
           /\ task'[w] = None \/ Moves(w)
<1>1. CASE CommitStatus(w) \/ CommitTransfer(w) \/ MarkDeleted(w)
           \/ CreateAssignment(w) \/ CommitPair(w)
  <2>1. task[w] # None
        /\ \E at \in {"release", "emit"} :
              /\ Continue(w, at)
              /\ <<task[w].call, task[w].at, at>> \in
                   {<<"status", "commit", "emit">>, <<"transfer", "commit", "emit">>,
                    <<"delete", "mark", "release">>, <<"assign", "create", "emit">>,
                    <<"pair", "commit", "emit">>}
    BY <1>1 DEF CommitStatus, CommitTransfer, MarkDeleted, CreateAssignment, CommitPair, Running
  <2>2. QED
    BY <2>1, ContinueShape DEF Moves
<1>2. CASE ReleaseDrivers(w)
  <2>1. task[w] # None /\ task[w].at = "release"
        /\ \/ task[w].call = "assign" /\ Continue(w, "create")
           \/ task[w].call = "delete" /\ Continue(w, "emit")
           \/ Finish(w)
    BY <1>2 DEF ReleaseDrivers, Running
  <2>2. QED
    BY <2>1, ContinueShape, FinishShape DEF Moves
<1>3. CASE CommitIssue(w) \/ CommitUnpair(w) \/ EmitEvent(w)
  BY <1>3, FinishShape DEF CommitIssue, CommitUnpair, EmitEvent, Running
<1>4. CASE SelectPaired(w)
  <2> DEFINE v == task[w].veh
             C == {c \in Codes : code[v][c] = "ACTIVE"}
  <2>1. task[w] # None /\ task[w].call = "unpair" /\ task[w].at = "select"
        /\ task' = [task EXCEPT ![w] = NewTask("unpair", v, "commit", None, None, C)]
        /\ code' = code
    BY <1>4 DEF SelectPaired, Running, rows
  <2>2. task[w].veh \in Vehicles
    BY <2>1, TaskShape
  <2>3. NewTask("unpair", v, "commit", None, None, C) \in Task
    BY <2>2 DEF NewTask, Task, CallNames
  <2>4. task'[w] = NewTask("unpair", v, "commit", None, None, C) /\ Alone(w)
    BY <2>1, <2>3, StartShape
  <2>5. QED
    BY <2>1, <2>4 DEF Moves, NewTask
<1>5. QED
  BY <1>1, <1>2, <1>3, <1>4 DEF TaskStep

\* What a step leaves to the other calls, and to calls of another kind
LEMMA ShapeStep == TypeInv /\ [Next]_vars => Shape'
<1> SUFFICES ASSUME TypeInv, [Next]_vars PROVE Shape'
  OBVIOUS
<1>0. Shape
  BY DEF TypeInv
<1>1. ASSUME NEW w \in Workers, NEW v \in Vehicles, StartCall(w, v) PROVE Shape'
  <2>0. status[v] \in VehicleStatus \cup {"ABSENT"} /\ fleet[v] \in Fleets \cup {None}
    BY DEF TypeInv, TypeOK
  <2>1. ASSUME NEW f \in Fleets \cup {None}, CreateVehicle(w, v, f) PROVE Shape'
    <3>1. NewTask("create", v, "emit", None, None, {}) \in Task
      BY DEF NewTask, Task, CallNames
    <3>2. task'[w] = NewTask("create", v, "emit", None, None, {}) /\ Alone(w)
      BY <2>1, <3>1, StartShape DEF CreateVehicle
    <3>3. QED
      BY <1>0, <3>2 DEF Shape, ShapeOf, Alone, NewTask, Stages
  <2>2. ASSUME NEW call, NEW at, NEW from, NEW to, NEW C,
               Begins(w, v, call, at, from, to, C), <<call, at>> \in Stages,
               call = "status" => from \in VehicleStatus /\ to \in VehicleStatus,
               call = "transfer" => from \in Fleets \cup {None} /\ to \in Fleets
        PROVE  Shape'
    <3>1. ShapeOf(task'[w])
      BY <2>2 DEF Begins, ShapeOf
    <3>2. QED
      BY <1>0, <2>2, <3>1 DEF Shape, Alone, Begins
  <2>3. \A p \in {<<"delete", "mark">>, <<"assign", "release">>,
                  <<"remove", "release">>, <<"unpair", "select">>} :
           <<p[1], p[2]>> \in Stages /\ p[1] # "status" /\ p[1] # "transfer"
    BY DEF Stages
  <2>4. <<"status", "commit">> \in Stages /\ <<"transfer", "commit">> \in Stages
        /\ <<"issue", "commit">> \in Stages /\ <<"pair", "commit">> \in Stages
    BY DEF Stages
  <2>5. QED
    BY <1>1, <2>0, <2>1, <2>2, <2>3, <2>4, StartCases
<1>2. ASSUME NEW w \in Workers, TaskStep(w) PROVE Shape'
  <2>1. task[w] # None /\ Alone(w) /\ (task'[w] = None \/ Moves(w))
    BY <1>2, TaskMoves
  <2>2. ShapeOf(task[w])
    BY <1>0, <2>1 DEF Shape
  <2>3. Moves(w) => ShapeOf(task'[w])
    BY <2>2 DEF Moves, ShapeOf, Stages
  <2>4. QED
    BY <1>0, <2>1, <2>3 DEF Shape, Alone
<1>3. ASSUME NEW w \in Workers, Abort(w) PROVE Shape'
  BY <1>0, <1>3, FinishShape DEF Shape, Alone, Abort
<1>4. ASSUME NEW v \in Vehicles, NEW c \in Codes, ExpireCode(v, c) PROVE Shape'
  BY <1>0, <1>4 DEF Shape, ExpireCode
<1>5. CASE UNCHANGED vars
  BY <1>0, <1>5 DEF Shape, vars
<1>6. QED
  BY <1>1, <1>2, <1>3, <1>4, <1>5 DEF Next, Advance

LEMMA TypeStep == TypeInv /\ [Next]_vars => TypeInv'
<1> SUFFICES ASSUME TypeInv, [Next]_vars PROVE TypeOK'
  BY ShapeStep DEF TypeInv
<1>0. TypeOK
  BY DEF TypeInv
<1>1. ASSUME NEW w \in Workers, Abort(w) PROVE TypeOK'
  BY <1>0, <1>1, FinishShape DEF TypeOK, Abort, rows, history
<1>2. ASSUME NEW v \in Vehicles, NEW c \in Codes, ExpireCode(v, c) PROVE TypeOK'
  BY <1>0, <1>2, SetCodesType DEF TypeOK, ExpireCode, history, CodeStatus
<1>3. CASE UNCHANGED vars
  BY <1>0, <1>3 DEF TypeOK, vars, rows, history
<1>4. QED
  BY <1>1, <1>2, <1>3, BeginType, StepType DEF Next, Advance

LEMMA TypeInit == Init => TypeInv
  BY DEF Init, TypeInv, TypeOK, Shape, ShapeOf, CodeStatus, PairingStatus

\* The type invariant: every column, history row, call in flight and event of the
\* vehicle service is one its tables and topics allow.
THEOREM TypeCorrect == Spec => []TypeOK
<1>1. TypeInv => TypeOK
  BY DEF TypeInv
<1>2. QED
  BY <1>1, TypeInit, TypeStep, PTL DEF Spec

-----------------------------------------------------------------------------
\* What a step does to one vehicle's row and histories

\* g is h and one row more.
Added(h, g, e) ==
    /\ Len(g) = Len(h) + 1
    /\ g[Len(h) + 1] = e
    /\ \A i \in 1 .. Len(h) : g[i] = h[i]

Row(w) == [from |-> task[w].from, to |-> task[w].to]

Same(v) == /\ status'[v] = status[v] /\ deleted'[v] = deleted[v] /\ fleet'[v] = fleet[v]
           /\ changes'[v] = changes[v] /\ moves'[v] = moves[v]

Created(v) == /\ status[v] = "ABSENT" /\ status'[v] = "PENDING"
              /\ deleted'[v] = deleted[v] /\ changes'[v] = changes[v] /\ moves'[v] = moves[v]

Changed(w, v) == /\ Running(w, "status", "commit") /\ task[w].veh = v
                 /\ status'[v] = task[w].to /\ Added(changes[v], changes'[v], Row(w))
                 /\ deleted'[v] = deleted[v] /\ fleet'[v] = fleet[v] /\ moves'[v] = moves[v]

Moved(w, v) == /\ Running(w, "transfer", "commit") /\ task[w].veh = v
               /\ fleet'[v] = task[w].to /\ Added(moves[v], moves'[v], Row(w))
               /\ status'[v] = status[v] /\ deleted'[v] = deleted[v] /\ changes'[v] = changes[v]

Marked(w, v) == /\ Running(w, "delete", "mark") /\ task[w].veh = v
                /\ status'[v] = "DECOMMISSIONED" /\ deleted'[v] = TRUE
                /\ fleet'[v] = fleet[v] /\ changes'[v] = changes[v] /\ moves'[v] = moves[v]

\* The step of a call in flight: what becomes of its vehicle, and of the others
LEMMA StepRows ==
    ASSUME TypeInv, NEW w \in Workers, TaskStep(w), NEW v \in Vehicles
    PROVE  /\ Same(v) \/ Changed(w, v) \/ Moved(w, v) \/ Marked(w, v)
           /\ Running(w, "status", "commit") /\ task[w].veh = v => Changed(w, v)
           /\ Running(w, "transfer", "commit") /\ task[w].veh = v => Moved(w, v)
           /\ Running(w, "delete", "mark") /\ task[w].veh = v => Marked(w, v)
<1>0. TypeOK /\ task[w] # None
  BY TaskMoves DEF TypeInv
<1>1. CASE CommitStatus(w)
  <2>1. Running(w, "status", "commit") /\ task[w].from \in VehicleStatus
        /\ task[w].to \in VehicleStatus /\ task[w].veh \in Vehicles
    BY <1>1, TaskShape DEF CommitStatus, Running
  <2>2. Row(w) \in StatusRow
    BY <2>1 DEF Row, StatusRow
  <2>3. /\ changes' = [changes EXCEPT ![task[w].veh] = Append(@, Row(w))]
        /\ status' = [status EXCEPT ![task[w].veh] = task[w].to]
        /\ UNCHANGED <<deleted, fleet, moves>>
    BY <1>1 DEF CommitStatus, AddChange, Row
  <2>4. CASE v = task[w].veh
    <3>1. Added(changes[v], changes'[v], Row(w))
      BY <1>0, <2>1, <2>2, <2>3, <2>4, AppendType DEF Added, TypeOK
    <3>2. QED
      BY <1>0, <2>1, <2>3, <2>4, <3>1 DEF Changed, Running, TypeOK
  <2>5. CASE v # task[w].veh
    BY <1>0, <2>1, <2>3, <2>5 DEF Same, TypeOK
  <2>6. QED
    BY <2>1, <2>4, <2>5 DEF Running
<1>2. CASE CommitTransfer(w)
  <2>1. Running(w, "transfer", "commit") /\ task[w].from \in Fleets \cup {None}
        /\ task[w].to \in Fleets /\ task[w].veh \in Vehicles
    BY <1>2, TaskShape DEF CommitTransfer, Running
  <2>2. Row(w) \in FleetRow
    BY <2>1 DEF Row, FleetRow
  <2>3. /\ moves' = [moves EXCEPT ![task[w].veh] = Append(@, Row(w))]
        /\ fleet' = [fleet EXCEPT ![task[w].veh] = task[w].to]
        /\ UNCHANGED <<status, deleted, changes>>
    BY <1>2 DEF CommitTransfer, AddMove, Row
  <2>4. CASE v = task[w].veh
    <3>1. Added(moves[v], moves'[v], Row(w))
      BY <1>0, <2>1, <2>2, <2>3, <2>4, AppendType DEF Added, TypeOK
    <3>2. QED
      BY <1>0, <2>1, <2>3, <2>4, <3>1 DEF Moved, Running, TypeOK
  <2>5. CASE v # task[w].veh
    BY <1>0, <2>1, <2>3, <2>5 DEF Same, TypeOK
  <2>6. QED
    BY <2>1, <2>4, <2>5 DEF Running
<1>3. CASE MarkDeleted(w)
  BY <1>0, <1>3 DEF MarkDeleted, Decommission, history, Same, Marked, Running, TypeOK
<1>4. CASE \/ ReleaseDrivers(w) \/ CreateAssignment(w) \/ CommitIssue(w) \/ CommitPair(w)
           \/ SelectPaired(w) \/ CommitUnpair(w) \/ EmitEvent(w)
  BY <1>4 DEF ReleaseDrivers, CreateAssignment, CommitIssue, CommitPair, SelectPaired,
              CommitUnpair, EmitEvent, rows, history, Same, Running
<1>5. QED
  BY <1>1, <1>2, <1>3, <1>4 DEF TaskStep

LEMMA NextRows ==
    ASSUME TypeInv, [Next]_vars, NEW v \in Vehicles
    PROVE  \/ Same(v) \/ Created(v)
           \/ \E w \in Workers : Changed(w, v) \/ Moved(w, v) \/ Marked(w, v)
<1>1. ASSUME NEW w \in Workers, NEW u \in Vehicles, StartCall(w, u)
      PROVE  Same(v) \/ Created(v)
  <2>1. (\E call, at, from, to, C : Begins(w, u, call, at, from, to, C)) => Same(v)
    BY DEF Begins, Same
  <2>2. ASSUME NEW f \in Fleets \cup {None}, CreateVehicle(w, u, f) PROVE Same(v) \/ Created(v)
    BY <2>2 DEF CreateVehicle, history, Same, Created, TypeInv, TypeOK
  <2>3. QED
    BY <1>1, <2>1, <2>2, StartCases
<1>2. ASSUME NEW w \in Workers, Abort(w) PROVE Same(v)
  BY <1>2 DEF Abort, rows, history, Same
<1>3. ASSUME NEW u \in Vehicles, NEW c \in Codes, ExpireCode(u, c) PROVE Same(v)
  BY <1>3 DEF ExpireCode, history, Same
<1>4. CASE UNCHANGED vars
  BY <1>4 DEF vars, rows, history, Same
<1>5. QED
  BY <1>1, <1>2, <1>3, <1>4, StepRows DEF Next, Advance

\* What a call that has just begun has read, by its kind
BegunAs(x, v) ==
    /\ task[x] = None
    /\ task'[x].veh = v
    /\ task'[x].call = "status" => \E to \in VehicleStatus :
          /\ to \in ALLOWED_TRANSITIONS[status[v]]
          /\ Begins(x, v, "status", "commit", status[v], to, {})
    /\ task'[x].call = "transfer" => \E to \in Fleets :
          Begins(x, v, "transfer", "commit", fleet[v], to, {})
    /\ task'[x].call = "issue" => \E c \in Codes :
          /\ code[v][c] = "ABSENT"
          /\ \A w \in Workers : ~(Running(w, "issue", "commit") /\ c \in task[w].codes)
          /\ Begins(x, v, "issue", "commit", None, None, {c})
    /\ task'[x].call = "pair" => \E c \in Codes :
          /\ code[v][c] = "PENDING"
          /\ Begins(x, v, "pair", "commit", None, None, {c})
    /\ task'[x].call = "delete" => task'[x].at = "mark"
    /\ task'[x].call = "assign" => task'[x].at = "release"
    /\ task'[x].call = "unpair" => task'[x].at = "select"

LEMMA StartMeans ==
    ASSUME TypeInv, NEW x \in Workers, NEW v \in Vehicles, StartCall(x, v)
    PROVE  BegunAs(x, v)
<1>1. ASSUME NEW f \in Fleets \cup {None}, CreateVehicle(x, v, f)
      PROVE  task[x] = None /\ task'[x].call = "create" /\ task'[x].veh = v
  <2>1. NewTask("create", v, "emit", None, None, {}) \in Task
    BY DEF NewTask, Task, CallNames
  <2>2. task'[x] = NewTask("create", v, "emit", None, None, {})
    BY <1>1, <2>1, StartShape DEF CreateVehicle
  <2>3. QED
    BY <1>1, <2>2 DEF NewTask, CreateVehicle
<1>2. ASSUME NEW p \in {<<"delete", "mark">>, <<"assign", "release">>,
                       <<"remove", "release">>, <<"unpair", "select">>},
             Begins(x, v, p[1], p[2], None, None, {})
      PROVE  /\ task[x] = None /\ task'[x].veh = v
             /\ <<task'[x].call, task'[x].at>> \in
                  {<<"delete", "mark">>, <<"assign", "release">>,
                   <<"remove", "release">>, <<"unpair", "select">>}
  BY <1>2 DEF Begins
<1>3. ASSUME NEW call, NEW from, NEW to, NEW C, Begins(x, v, call, "commit", from, to, C)
      PROVE  task[x] = None /\ task'[x].call = call /\ task'[x].veh = v
  BY <1>3 DEF Begins
<1>4. ASSUME NEW to \in VehicleStatus, to \in ALLOWED_TRANSITIONS[status[v]],
             Begins(x, v, "status", "commit", status[v], to, {})
      PROVE  BegunAs(x, v)
  BY <1>3, <1>4 DEF BegunAs
<1>5. ASSUME NEW to \in Fleets, Begins(x, v, "transfer", "commit", fleet[v], to, {})
      PROVE  BegunAs(x, v)
  BY <1>3, <1>5 DEF BegunAs
<1>6. ASSUME NEW c \in Codes, code[v][c] = "ABSENT",
             \A w \in Workers : ~(Running(w, "issue", "commit") /\ c \in task[w].codes),
             Begins(x, v, "issue", "commit", None, None, {c})
      PROVE  BegunAs(x, v)
  <2>1. task[x] = None /\ task'[x].call = "issue" /\ task'[x].veh = v
    BY <1>6 DEF Begins
  <2>2. QED
    BY <1>6, <2>1 DEF BegunAs
<1>7. ASSUME NEW c \in Codes, code[v][c] = "PENDING",
             Begins(x, v, "pair", "commit", None, None, {c})
      PROVE  BegunAs(x, v)
  <2>1. task[x] = None /\ task'[x].call = "pair" /\ task'[x].veh = v
    BY <1>7 DEF Begins
  <2>2. QED
    BY <1>7, <2>1 DEF BegunAs
<1>8. ASSUME NEW f \in Fleets \cup {None}, CreateVehicle(x, v, f) PROVE BegunAs(x, v)
  BY <1>1, <1>8 DEF BegunAs
<1>9. ASSUME NEW p \in {<<"delete", "mark">>, <<"assign", "release">>,
                       <<"remove", "release">>, <<"unpair", "select">>},
             Begins(x, v, p[1], p[2], None, None, {})
      PROVE  BegunAs(x, v)
  BY <1>2, <1>9 DEF BegunAs
<1>10. QED
  BY <1>4, <1>5, <1>6, <1>7, <1>8, <1>9, StartCases

\* What a step does to the calls in flight
LEMMA NextTasks ==
    ASSUME TypeInv, [Next]_vars, NEW x \in Workers, task'[x] # None
    PROVE  \/ task'[x] = task[x]
           \/ TaskStep(x) /\ task[x] # None /\ Moves(x)
           \/ \E v \in Vehicles : StartCall(x, v)
<1>1. ASSUME NEW w \in Workers, NEW v \in Vehicles, StartCall(w, v)
      PROVE  task'[x] = task[x] \/ StartCall(x, v)
  <2>1. ASSUME NEW f \in Fleets \cup {None}, CreateVehicle(w, v, f) PROVE Alone(w)
    BY <2>1 DEF CreateVehicle, TypeInv, TypeOK, Alone
  <2>2. Alone(w)
    BY <1>1, <2>1, StartCases DEF Begins
  <2>3. QED
    BY <1>1, <2>2 DEF Alone
<1>2. ASSUME NEW w \in Workers, TaskStep(w)
      PROVE  task'[x] = task[x] \/ (TaskStep(x) /\ task[x] # None /\ Moves(x))
  BY <1>2, TaskMoves DEF Alone
<1>3. ASSUME NEW w \in Workers, Abort(w) PROVE task'[x] = task[x]
  BY <1>3, FinishShape DEF Abort, Alone
<1>4. ASSUME NEW v \in Vehicles, NEW c \in Codes, ExpireCode(v, c) PROVE task'[x] = task[x]
  BY <1>4 DEF ExpireCode
<1>5. CASE UNCHANGED vars
  BY <1>5 DEF vars
<1>6. QED
  BY <1>1, <1>2, <1>3, <1>4, <1>5 DEF Next, Advance

\* A vehicle that does not exist has no history and nobody has read it.
Untouched ==
    \A v \in Vehicles : status[v] = "ABSENT" =>
        changes[v] = <<>> /\ moves[v] = <<>> /\ ~deleted[v] /\ Quiet(v)

LEMMA UntouchedStep == TypeInv /\ Untouched /\ [Next]_vars => Untouched'
<1> SUFFICES ASSUME TypeInv, Untouched, [Next]_vars,
                    NEW v \in Vehicles, status'[v] = "ABSENT"
             PROVE  changes'[v] = <<>> /\ moves'[v] = <<>> /\ ~deleted'[v] /\ Quiet(v)'
  BY DEF Untouched
<1>1. ASSUME NEW w \in Workers, Changed(w, v) PROVE FALSE
  BY <1>1, TaskShape DEF Changed, Running, VehicleStatus
<1>2. status[v] = "ABSENT" /\ Same(v)
  <2>1. ASSUME NEW w \in Workers, Moved(w, v) PROVE FALSE
    BY <2>1 DEF Moved, Running, Untouched, Quiet
  <2>2. QED
    BY <1>1, <2>1, NextRows DEF Same, Created, Marked
<1>3. changes'[v] = <<>> /\ moves'[v] = <<>> /\ ~deleted'[v]
  BY <1>2 DEF Same, Untouched
<1>4. ASSUME NEW x \in Workers, task'[x] # None PROVE task'[x].veh # v
  <2>1. CASE task'[x] = task[x]
    BY <1>2, <1>4, <2>1 DEF Untouched, Quiet
  <2>2. CASE task[x] # None /\ Moves(x)
    BY <1>2, <2>2 DEF Untouched, Quiet, Moves
  <2>3. ASSUME NEW u \in Vehicles, StartCall(x, u) PROVE task'[x].veh # v
    <3>1. ASSUME NEW f \in Fleets \cup {None}, CreateVehicle(x, u, f) PROVE task'[x].veh # v
      <4>1. u # v
        BY <1>2, <3>1 DEF CreateVehicle, Same, TypeInv, TypeOK
      <4>2. NewTask("create", u, "emit", None, None, {}) \in Task
        BY DEF NewTask, Task, CallNames
      <4>3. task'[x] = NewTask("create", u, "emit", None, None, {})
        BY <3>1, <4>2, StartShape DEF CreateVehicle
      <4>4. QED
        BY <4>1, <4>3 DEF NewTask
    <3>2. (\E call, at, from, to, C : Begins(x, u, call, at, from, to, C)) => task'[x].veh # v
      BY <1>2 DEF Begins, Alive
    <3>3. QED
      BY <2>3, <3>1, <3>2, StartCases
  <2>4. QED
    BY <1>4, <2>1, <2>2, <2>3, NextTasks
<1>5. QED
  BY <1>3, <1>4 DEF Quiet

-----------------------------------------------------------------------------
\* The histories

\* What a call has read and will write down: a status or a fleet of the vehicle's
\* past.  A transfer that read before the first one knows the fleet it began with.
StatusReads ==
    \A w \in Workers : Running(w, "status", "commit") =>
        /\ task[w].to \in ALLOWED_TRANSITIONS[task[w].from]
        /\ \/ task[w].from = "PENDING"
           \/ \E j \in 1 .. Len(changes[task[w].veh]) : changes[task[w].veh][j].to = task[w].from

FleetReads ==
    \A w \in Workers : Running(w, "transfer", "commit") =>
        \/ moves[task[w].veh] = <<>> /\ task[w].from = fleet[task[w].veh]
        \/ /\ moves[task[w].veh] # <<>>
           /\ \/ task[w].from = moves[task[w].veh][1].from
              \/ \E j \in 1 .. Len(moves[task[w].veh]) : moves[task[w].veh][j].to = task[w].from

\* What a call is about to announce it has written.
Told ==
    \A w \in Workers : task[w] # None =>
        /\ task[w].call = "status" /\ task[w].at = "emit" =>
              \E i \in DOMAIN changes[task[w].veh] : changes[task[w].veh][i] = Row(w)
        /\ task[w].call = "transfer" /\ task[w].at = "emit" =>
              \E i \in DOMAIN moves[task[w].veh] : moves[task[w].veh][i] = Row(w)
        /\ task[w].call = "delete" /\ task[w].at \in {"release", "emit"} =>
              deleted[task[w].veh]

HistoryInv ==
    /\ TypeInv
    /\ Untouched
    /\ HistoryTellsCurrent
    /\ HistoryIsGrounded
    /\ StatusReads
    /\ FleetReads
    /\ Told
    /\ AnnouncedIsRecorded

\* Sequences of history rows, as SMT sees them
LEMMA HistoryDomains ==
    ASSUME TypeOK, NEW v \in Vehicles
    PROVE  /\ changes[v] \in Seq(StatusRow) /\ moves[v] \in Seq(FleetRow)
           /\ DOMAIN changes[v] = 1 .. Len(changes[v]) /\ Len(changes[v]) \in Nat
           /\ DOMAIN moves[v] = 1 .. Len(moves[v]) /\ Len(moves[v]) \in Nat
           /\ changes[v] = <<>> <=> Len(changes[v]) = 0
           /\ moves[v] = <<>> <=> Len(moves[v]) = 0
  BY DEF TypeOK

\* Rows are added, never taken or changed, and deletedAt is for ever.
LEMMA HistoryGrows ==
    ASSUME TypeInv, [Next]_vars, NEW v \in Vehicles
    PROVE  /\ Len(changes[v]) <= Len(changes'[v]) /\ Len(moves[v]) <= Len(moves'[v])
           /\ \A i \in 1 .. Len(changes[v]) : changes'[v][i] = changes[v][i]
           /\ \A i \in 1 .. Len(moves[v]) : moves'[v][i] = moves[v][i]
           /\ deleted[v] => deleted'[v]
<1> DEFINE Grown == /\ Len(changes[v]) <= Len(changes'[v]) /\ Len(moves[v]) <= Len(moves'[v])
                    /\ \A i \in 1 .. Len(changes[v]) : changes'[v][i] = changes[v][i]
                    /\ \A i \in 1 .. Len(moves[v]) : moves'[v][i] = moves[v][i]
                    /\ deleted[v] => deleted'[v]
<1>0. Len(changes[v]) \in Nat /\ Len(moves[v]) \in Nat
  BY HistoryDomains DEF TypeInv
<1>1. Same(v) \/ Created(v) => Grown
  BY <1>0 DEF Same, Created
<1>2. ASSUME NEW w \in Workers, Changed(w, v) PROVE Grown
  BY <1>0, <1>2 DEF Changed, Added
<1>3. ASSUME NEW w \in Workers, Moved(w, v) PROVE Grown
  BY <1>0, <1>3 DEF Moved, Added
<1>4. ASSUME NEW w \in Workers, Marked(w, v) PROVE Grown
  BY <1>0, <1>4 DEF Marked
<1>5. QED
  BY <1>1, <1>2, <1>3, <1>4, NextRows

LEMMA CurrentStep ==
    HistoryInv /\ [Next]_vars => HistoryTellsCurrent'
<1> SUFFICES ASSUME HistoryInv, [Next]_vars, NEW v \in Vehicles
             PROVE  /\ \/ status'[v] = "ABSENT"
                       \/ deleted'[v] /\ status'[v] = "DECOMMISSIONED"
                       \/ status'[v] = IF changes'[v] = <<>> THEN "PENDING"
                                       ELSE changes'[v][Len(changes'[v])].to
                    /\ moves'[v] # <<>> => fleet'[v] = moves'[v][Len(moves'[v])].to
  BY DEF HistoryTellsCurrent
<1>0. TypeInv /\ TypeOK /\ TypeOK'
  BY TypeStep DEF HistoryInv, TypeInv
<1>1. /\ \/ status[v] = "ABSENT"
         \/ deleted[v] /\ status[v] = "DECOMMISSIONED"
         \/ status[v] = IF changes[v] = <<>> THEN "PENDING" ELSE changes[v][Len(changes[v])].to
      /\ moves[v] # <<>> => fleet[v] = moves[v][Len(moves[v])].to
  BY DEF HistoryInv, HistoryTellsCurrent
<1>2. CASE Same(v)
  BY <1>1, <1>2 DEF Same
<1>3. CASE Created(v)
  BY <1>0, <1>3 DEF Created, HistoryInv, Untouched
<1>4. ASSUME NEW w \in Workers, Changed(w, v)
      PROVE  /\ status'[v] = changes'[v][Len(changes'[v])].to /\ changes'[v] # <<>>
             /\ fleet'[v] = fleet[v] /\ moves'[v] = moves[v]
  <2>1. Len(changes'[v]) = Len(changes[v]) + 1 /\ changes'[v][Len(changes[v]) + 1].to = task[w].to
    BY <1>4 DEF Changed, Added, Row
  <2>2. changes'[v] # <<>> /\ changes'[v][Len(changes'[v])].to = task[w].to
    BY <1>0, <2>1, HistoryDomains
  <2>3. QED
    BY <1>4, <2>2 DEF Changed
<1>5. ASSUME NEW w \in Workers, Moved(w, v)
      PROVE  /\ fleet'[v] = moves'[v][Len(moves'[v])].to
             /\ status'[v] = status[v] /\ deleted'[v] = deleted[v] /\ changes'[v] = changes[v]
  BY <1>0, <1>5, HistoryDomains DEF Moved, Added, Row
<1>6. ASSUME NEW w \in Workers, Marked(w, v)
      PROVE  /\ deleted'[v] /\ status'[v] = "DECOMMISSIONED"
             /\ fleet'[v] = fleet[v] /\ moves'[v] = moves[v]
  BY <1>6 DEF Marked
<1>7. QED
  BY <1>0, <1>1, <1>2, <1>3, <1>4, <1>5, <1>6, NextRows

LEMMA GroundedStep ==
    HistoryInv /\ [Next]_vars => HistoryIsGrounded'
<1> SUFFICES ASSUME HistoryInv, [Next]_vars, NEW v \in Vehicles
             PROVE  /\ \A i \in DOMAIN changes'[v] :
                          /\ changes'[v][i].to \in ALLOWED_TRANSITIONS[changes'[v][i].from]
                          /\ \/ changes'[v][i].from = "PENDING"
                             \/ \E j \in 1 .. (i - 1) : changes'[v][j].to = changes'[v][i].from
                    /\ \A i \in DOMAIN moves'[v] :
                          \/ moves'[v][i].from = moves'[v][1].from
                          \/ \E j \in 1 .. (i - 1) : moves'[v][j].to = moves'[v][i].from
  BY DEF HistoryIsGrounded, ALLOWED_TRANSITIONS, VehicleStatus
<1>0. TypeInv /\ TypeOK /\ TypeOK'
  BY TypeStep DEF HistoryInv, TypeInv
<1>1. /\ Len(changes[v]) \in Nat /\ DOMAIN changes[v] = 1 .. Len(changes[v])
      /\ Len(moves[v]) \in Nat /\ DOMAIN moves[v] = 1 .. Len(moves[v])
      /\ Len(changes'[v]) \in Nat /\ DOMAIN changes'[v] = 1 .. Len(changes'[v])
      /\ Len(moves'[v]) \in Nat /\ DOMAIN moves'[v] = 1 .. Len(moves'[v])
      /\ moves[v] = <<>> <=> Len(moves[v]) = 0
  BY <1>0, HistoryDomains DEF TypeOK
<1>2. /\ \A i \in 1 .. Len(changes[v]) :
            /\ changes[v][i].to \in ALLOWED_TRANSITIONS[changes[v][i].from]
            /\ \/ changes[v][i].from = "PENDING"
               \/ \E j \in 1 .. (i - 1) : changes[v][j].to = changes[v][i].from
      /\ \A i \in 1 .. Len(moves[v]) :
            \/ moves[v][i].from = moves[v][1].from
            \/ \E j \in 1 .. (i - 1) : moves[v][j].to = moves[v][i].from
  BY <1>1 DEF HistoryInv, HistoryIsGrounded
<1>3. CASE changes'[v] = changes[v] /\ moves'[v] = moves[v]
  BY <1>1, <1>2, <1>3
<1>4. ASSUME NEW w \in Workers, Changed(w, v)
      PROVE  /\ \A i \in 1 .. Len(changes'[v]) :
                   /\ changes'[v][i].to \in ALLOWED_TRANSITIONS[changes'[v][i].from]
                   /\ \/ changes'[v][i].from = "PENDING"
                      \/ \E j \in 1 .. (i - 1) : changes'[v][j].to = changes'[v][i].from
             /\ moves'[v] = moves[v]
  <2> DEFINE n == Len(changes[v])
  <2>1. /\ Len(changes'[v]) = n + 1 /\ moves'[v] = moves[v]
        /\ changes'[v][n + 1].from = task[w].from /\ changes'[v][n + 1].to = task[w].to
        /\ \A i \in 1 .. n : changes'[v][i] = changes[v][i]
    BY <1>4 DEF Changed, Added, Row
  <2>2. /\ task[w].to \in ALLOWED_TRANSITIONS[task[w].from]
        /\ task[w].from = "PENDING" \/ \E j \in 1 .. n : changes[v][j].to = task[w].from
    BY <1>4 DEF HistoryInv, StatusReads, Changed
  <2>3. ASSUME NEW i \in 1 .. Len(changes'[v])
        PROVE  /\ changes'[v][i].to \in ALLOWED_TRANSITIONS[changes'[v][i].from]
               /\ \/ changes'[v][i].from = "PENDING"
                  \/ \E j \in 1 .. (i - 1) : changes'[v][j].to = changes'[v][i].from
    <3>1. CASE i = n + 1
      BY <1>1, <2>1, <2>2, <3>1
    <3>2. CASE i \in 1 .. n
      <4>1. \A j \in 1 .. (i - 1) : j \in 1 .. n
        BY <1>1, <3>2
      <4>2. QED
        BY <1>2, <2>1, <3>2, <4>1
    <3>3. QED
      BY <1>1, <2>1, <3>1, <3>2
  <2>4. QED
    BY <2>1, <2>3
<1>5. ASSUME NEW w \in Workers, Moved(w, v)
      PROVE  /\ \A i \in 1 .. Len(moves'[v]) :
                   \/ moves'[v][i].from = moves'[v][1].from
                   \/ \E j \in 1 .. (i - 1) : moves'[v][j].to = moves'[v][i].from
             /\ changes'[v] = changes[v]
  <2> DEFINE n == Len(moves[v])
  <2>1. /\ Len(moves'[v]) = n + 1 /\ changes'[v] = changes[v]
        /\ moves'[v][n + 1].from = task[w].from
        /\ \A i \in 1 .. n : moves'[v][i] = moves[v][i]
    BY <1>5 DEF Moved, Added, Row
  <2>2. \/ n = 0
        \/ n > 0 /\ (\/ task[w].from = moves[v][1].from
                     \/ \E j \in 1 .. n : moves[v][j].to = task[w].from)
    BY <1>1, <1>5 DEF HistoryInv, FleetReads, Moved
  <2>3. ASSUME NEW i \in 1 .. Len(moves'[v])
        PROVE  \/ moves'[v][i].from = moves'[v][1].from
               \/ \E j \in 1 .. (i - 1) : moves'[v][j].to = moves'[v][i].from
    <3>1. CASE i = n + 1
      BY <1>1, <2>1, <2>2, <3>1
    <3>2. CASE i \in 1 .. n
      <4>1. 1 \in 1 .. n /\ \A j \in 1 .. (i - 1) : j \in 1 .. n
        BY <1>1, <3>2
      <4>2. QED
        BY <1>2, <2>1, <3>2, <4>1
    <3>3. QED
      BY <1>1, <2>1, <3>1, <3>2
  <2>4. QED
    BY <2>1, <2>3
<1>6. (Same(v) \/ Created(v) \/ \E w \in Workers : Marked(w, v)) =>
         changes'[v] = changes[v] /\ moves'[v] = moves[v]
  BY DEF Same, Created, Marked
<1>7. (\E w \in Workers : Changed(w, v) \/ Moved(w, v))
      \/ (changes'[v] = changes[v] /\ moves'[v] = moves[v])
  BY <1>0, <1>6, NextRows
<1>8. QED
  BY <1>1, <1>2, <1>3, <1>4, <1>5, <1>7

LEMMA StatusReadsStep ==
    HistoryInv /\ [Next]_vars => StatusReads'
<1> SUFFICES ASSUME HistoryInv, [Next]_vars, NEW x \in Workers,
                    Running(x, "status", "commit")'
             PROVE  /\ task'[x].to \in ALLOWED_TRANSITIONS[task'[x].from]
                    /\ \/ task'[x].from = "PENDING"
                       \/ \E j \in 1 .. Len(changes'[task'[x].veh]) :
                             changes'[task'[x].veh][j].to = task'[x].from
  BY DEF StatusReads, ALLOWED_TRANSITIONS, VehicleStatus
<1>0. TypeInv /\ TypeOK /\ TypeInv'
  BY TypeStep DEF HistoryInv, TypeInv
<1>1. task'[x] # None /\ task'[x].call = "status" /\ task'[x].at = "commit"
  BY DEF Running
<1>2. CASE task'[x] = task[x]
  <2>1. Running(x, "status", "commit") /\ task[x].veh \in Vehicles
    BY <1>0, <1>1, <1>2, TaskShape DEF Running
  <2>2. /\ task[x].to \in ALLOWED_TRANSITIONS[task[x].from]
        /\ \/ task[x].from = "PENDING"
           \/ \E j \in 1 .. Len(changes[task[x].veh]) :
                 changes[task[x].veh][j].to = task[x].from
    BY <2>1 DEF HistoryInv, StatusReads
  <2>3. /\ Len(changes[task[x].veh]) <= Len(changes'[task[x].veh])
        /\ \A i \in 1 .. Len(changes[task[x].veh]) :
              changes'[task[x].veh][i] = changes[task[x].veh][i]
        /\ Len(changes[task[x].veh]) \in Nat /\ Len(changes'[task[x].veh]) \in Nat
    BY <1>0, <2>1, HistoryGrows, HistoryDomains DEF TypeInv, TypeOK
  <2>4. QED
    BY <1>2, <2>2, <2>3
<1>3. CASE task[x] # None /\ Moves(x)
  BY <1>1, <1>3 DEF Moves
<1>4. ASSUME NEW v \in Vehicles, StartCall(x, v)
      PROVE  /\ task'[x].to \in ALLOWED_TRANSITIONS[task'[x].from]
             /\ \/ task'[x].from = "PENDING"
                \/ \E j \in 1 .. Len(changes'[task'[x].veh]) :
                      changes'[task'[x].veh][j].to = task'[x].from
  <2>1. PICK to \in VehicleStatus :
                /\ to \in ALLOWED_TRANSITIONS[status[v]]
                /\ Begins(x, v, "status", "commit", status[v], to, {})
    BY <1>0, <1>1, <1>4, StartMeans DEF BegunAs
  <2>2. /\ task'[x].to = to /\ task'[x].from = status[v] /\ task'[x].veh = v
        /\ changes' = changes /\ Alive(v)
    BY <2>1 DEF Begins
  <2>3. status[v] = IF changes[v] = <<>> THEN "PENDING" ELSE changes[v][Len(changes[v])].to
    BY <2>1, <2>2 DEF HistoryInv, HistoryTellsCurrent, Alive
  <2>4. Len(changes[v]) \in Nat /\ (changes[v] = <<>> <=> Len(changes[v]) = 0)
    BY <1>0, HistoryDomains
  <2>5. QED
    BY <2>1, <2>2, <2>3, <2>4
<1>5. QED
  BY <1>0, <1>1, <1>2, <1>3, <1>4, NextTasks

LEMMA FleetReadsStep ==
    HistoryInv /\ [Next]_vars => FleetReads'
<1> SUFFICES ASSUME HistoryInv, [Next]_vars, NEW x \in Workers,
                    Running(x, "transfer", "commit")'
             PROVE  \/ moves'[task'[x].veh] = <<>> /\ task'[x].from = fleet'[task'[x].veh]
                    \/ /\ moves'[task'[x].veh] # <<>>
                       /\ \/ task'[x].from = moves'[task'[x].veh][1].from
                          \/ \E j \in 1 .. Len(moves'[task'[x].veh]) :
                                moves'[task'[x].veh][j].to = task'[x].from
  BY DEF FleetReads
<1>0. TypeInv /\ TypeOK /\ TypeInv'
  BY TypeStep DEF HistoryInv, TypeInv
<1>1. task'[x] # None /\ task'[x].call = "transfer" /\ task'[x].at = "commit"
  BY DEF Running
<1>2. CASE task'[x] = task[x]
  <2> DEFINE v == task[x].veh
  <2>1. Running(x, "transfer", "commit") /\ v \in Vehicles
    BY <1>0, <1>1, <1>2, TaskShape DEF Running
  <2>2. /\ Len(moves[v]) \in Nat /\ (moves[v] = <<>> <=> Len(moves[v]) = 0)
        /\ Len(moves'[v]) \in Nat /\ (moves'[v] = <<>> <=> Len(moves'[v]) = 0)
    BY <1>0, <2>1, HistoryDomains DEF TypeInv, TypeOK
  <2>3. CASE moves[v] # <<>>
    <3>1. \/ task[x].from = moves[v][1].from
          \/ \E j \in 1 .. Len(moves[v]) : moves[v][j].to = task[x].from
      BY <2>1, <2>3 DEF HistoryInv, FleetReads
    <3>2. Len(moves[v]) <= Len(moves'[v])
          /\ \A i \in 1 .. Len(moves[v]) : moves'[v][i] = moves[v][i]
      BY <1>0, <2>1, HistoryGrows
    <3>3. moves'[v] # <<>> /\ 1 \in 1 .. Len(moves[v])
          /\ \A j \in 1 .. Len(moves[v]) : j \in 1 .. Len(moves'[v])
      BY <2>2, <2>3, <3>2
    <3>4. QED
      BY <1>2, <3>1, <3>2, <3>3
  <2>4. CASE moves[v] = <<>>
    <3>1. task[x].from = fleet[v]
      BY <2>1, <2>4 DEF HistoryInv, FleetReads
    <3>2. CASE Same(v)
      BY <1>2, <2>4, <3>1, <3>2 DEF Same
    <3>3. CASE Created(v)
      BY <2>1, <3>3 DEF Created, HistoryInv, Untouched, Quiet, Running
    <3>4. ASSUME NEW w \in Workers, Moved(w, v)
          PROVE  moves'[v] # <<>> /\ moves'[v][1].from = task[x].from
      <4>1. Running(w, "transfer", "commit") /\ task[w].veh = v
            /\ Added(moves[v], moves'[v], Row(w))
        BY <3>4 DEF Moved
      <4>2. task[w].from = fleet[v]
        BY <2>4, <4>1 DEF HistoryInv, FleetReads
      <4>3. Len(moves'[v]) = 1 /\ moves'[v][1].from = task[w].from
        BY <2>2, <2>4, <4>1 DEF Added, Row
      <4>4. QED
        BY <2>2, <3>1, <4>2, <4>3
    <3>5. ASSUME NEW w \in Workers, Changed(w, v) \/ Marked(w, v)
          PROVE  moves'[v] = <<>> /\ task[x].from = fleet'[v]
      BY <2>4, <3>1, <3>5 DEF Changed, Marked
    <3>6. QED
      BY <1>0, <1>2, <2>1, <3>2, <3>3, <3>4, <3>5, NextRows
  <2>5. QED
    BY <2>3, <2>4
<1>3. CASE task[x] # None /\ Moves(x)
  BY <1>1, <1>3 DEF Moves
<1>4. ASSUME NEW v \in Vehicles, StartCall(x, v)
      PROVE  \/ moves'[task'[x].veh] = <<>> /\ task'[x].from = fleet'[task'[x].veh]
             \/ /\ moves'[task'[x].veh] # <<>>
                /\ \E j \in 1 .. Len(moves'[task'[x].veh]) :
                      moves'[task'[x].veh][j].to = task'[x].from
  <2>1. PICK to \in Fleets : Begins(x, v, "transfer", "commit", fleet[v], to, {})
    BY <1>0, <1>1, <1>4, StartMeans DEF BegunAs
  <2>2. task'[x].from = fleet[v] /\ task'[x].veh = v /\ moves' = moves /\ fleet' = fleet
    BY <2>1 DEF Begins
  <2>3. moves[v] # <<>> => fleet[v] = moves[v][Len(moves[v])].to
    BY DEF HistoryInv, HistoryTellsCurrent
  <2>4. Len(moves[v]) \in Nat /\ (moves[v] = <<>> <=> Len(moves[v]) = 0)
    BY <1>0, HistoryDomains
  <2>5. QED
    BY <2>2, <2>3, <2>4
<1>5. QED
  BY <1>0, <1>1, <1>2, <1>3, <1>4, NextTasks

\* A row that is in a history stays there.
LEMMA RowStays ==
    ASSUME TypeInv, [Next]_vars, NEW v \in Vehicles, NEW row
    PROVE  /\ (\E i \in DOMAIN changes[v] : changes[v][i] = row) =>
                 \E i \in DOMAIN changes'[v] : changes'[v][i] = row
           /\ (\E i \in DOMAIN moves[v] : moves[v][i] = row) =>
                 \E i \in DOMAIN moves'[v] : moves'[v][i] = row
<1>1. TypeOK /\ TypeOK'
  BY TypeStep DEF TypeInv
<1>2. /\ DOMAIN changes[v] = 1 .. Len(changes[v]) /\ Len(changes[v]) \in Nat
      /\ DOMAIN moves[v] = 1 .. Len(moves[v]) /\ Len(moves[v]) \in Nat
      /\ DOMAIN changes'[v] = 1 .. Len(changes'[v]) /\ Len(changes'[v]) \in Nat
      /\ DOMAIN moves'[v] = 1 .. Len(moves'[v]) /\ Len(moves'[v]) \in Nat
  BY <1>1, HistoryDomains DEF TypeOK
<1>3. QED
  BY <1>2, HistoryGrows

LEMMA ToldStep ==
    HistoryInv /\ [Next]_vars => Told'
<1> DEFINE Tells(c, h) == \E i \in DOMAIN h : h[i] = c
<1> SUFFICES ASSUME HistoryInv, [Next]_vars, NEW x \in Workers, task'[x] # None
             PROVE  /\ task'[x].call = "status" /\ task'[x].at = "emit" =>
                          Tells(Row(x)', changes'[task'[x].veh])
                    /\ task'[x].call = "transfer" /\ task'[x].at = "emit" =>
                          Tells(Row(x)', moves'[task'[x].veh])
                    /\ task'[x].call = "delete" /\ task'[x].at \in {"release", "emit"} =>
                          deleted'[task'[x].veh]
  BY DEF Told
<1>0. TypeInv /\ TypeOK /\ TypeOK'
  BY TypeStep DEF HistoryInv, TypeInv
<1>1. CASE task'[x] = task[x]
  <2>1. task[x] # None /\ task[x].veh \in Vehicles /\ Row(x)' = Row(x)
    BY <1>0, <1>1, TaskShape DEF Row
  <2>2. /\ task[x].call = "status" /\ task[x].at = "emit" =>
              Tells(Row(x), changes[task[x].veh])
        /\ task[x].call = "transfer" /\ task[x].at = "emit" =>
              Tells(Row(x), moves[task[x].veh])
        /\ task[x].call = "delete" /\ task[x].at \in {"release", "emit"} =>
              deleted[task[x].veh]
    BY <2>1 DEF HistoryInv, Told
  <2>3. QED
    BY <1>0, <1>1, <2>1, <2>2, RowStays, HistoryGrows
<1>2. CASE TaskStep(x) /\ task[x] # None /\ Moves(x)
  <2> DEFINE v == task[x].veh
  <2>1. v \in Vehicles /\ task'[x].veh = v /\ task'[x].call = task[x].call
    BY <1>0, <1>2, TaskShape DEF Moves
  <2>2. CASE task[x].call \in {"status", "transfer"}
    <3>1. task[x].at = "commit" /\ Row(x)' = Row(x)
      BY <1>2, <2>2 DEF Moves, Row
    <3>2. /\ task[x].call = "status" => Added(changes[v], changes'[v], Row(x))
          /\ task[x].call = "transfer" => Added(moves[v], moves'[v], Row(x))
      BY <1>0, <1>2, <2>1, <3>1, StepRows DEF Running, Changed, Moved
    <3>3. /\ DOMAIN changes'[v] = 1 .. Len(changes'[v]) /\ Len(changes[v]) \in Nat
          /\ DOMAIN moves'[v] = 1 .. Len(moves'[v]) /\ Len(moves[v]) \in Nat
      BY <1>0, <2>1, HistoryDomains DEF TypeOK
    <3>4. /\ task[x].call = "status" => Tells(Row(x), changes'[v])
          /\ task[x].call = "transfer" => Tells(Row(x), moves'[v])
      <4>1. task[x].call = "status" =>
               /\ Len(changes[v]) + 1 \in DOMAIN changes'[v]
               /\ changes'[v][Len(changes[v]) + 1] = Row(x)
        BY <3>2, <3>3 DEF Added
      <4>2. task[x].call = "transfer" =>
               /\ Len(moves[v]) + 1 \in DOMAIN moves'[v]
               /\ moves'[v][Len(moves[v]) + 1] = Row(x)
        BY <3>2, <3>3 DEF Added
      <4>3. QED
        BY <4>1, <4>2
    <3>5. QED
      BY <2>1, <2>2, <3>1, <3>4
  <2>3. CASE task[x].call = "delete" /\ task[x].at = "mark"
    BY <1>0, <1>2, <2>1, <2>3, StepRows DEF Running, Marked
  <2>4. CASE task[x].call = "delete" /\ task[x].at = "release"
    <3>1. deleted[v]
      BY <1>2, <2>4 DEF HistoryInv, Told
    <3>2. QED
      BY <1>0, <2>1, <2>4, <3>1, HistoryGrows
  <2>5. QED
    BY <1>2, <2>1, <2>2, <2>3, <2>4 DEF Moves
<1>3. ASSUME NEW v \in Vehicles, StartCall(x, v)
      PROVE  /\ ~(task'[x].call \in {"status", "transfer"} /\ task'[x].at = "emit")
             /\ task'[x].call = "delete" => task'[x].at = "mark"
  BY <1>0, <1>3, StartMeans DEF BegunAs, Begins
<1>4. QED
  BY <1>0, <1>1, <1>2, <1>3, NextTasks

LEMMA AnnouncedStep ==
    HistoryInv /\ [Next]_vars => AnnouncedIsRecorded'
<1> DEFINE Recorded(e) ==
              /\ e.call = "status" => \E i \in DOMAIN changes[e.veh] :
                                          changes[e.veh][i] = [from |-> e.from, to |-> e.to]
              /\ e.call = "transfer" => \E i \in DOMAIN moves[e.veh] :
                                          moves[e.veh][i] = [from |-> e.from, to |-> e.to]
              /\ e.call = "delete" => deleted[e.veh]
<1> SUFFICES ASSUME HistoryInv, [Next]_vars, NEW e \in events' PROVE Recorded(e)'
  BY DEF AnnouncedIsRecorded
<1>0. TypeInv /\ TypeOK /\ TypeOK'
  BY TypeStep DEF HistoryInv, TypeInv
<1>1. e \in Event /\ e.veh \in Vehicles
  BY <1>0 DEF TypeOK, Event
<1>2. Recorded(e) => Recorded(e)'
  <2> DEFINE row == [from |-> e.from, to |-> e.to]
  <2>1. (\E i \in DOMAIN changes[e.veh] : changes[e.veh][i] = row) =>
           \E i \in DOMAIN changes'[e.veh] : changes'[e.veh][i] = row
    BY <1>0, <1>1, RowStays
  <2>2. (\E i \in DOMAIN moves[e.veh] : moves[e.veh][i] = row) =>
           \E i \in DOMAIN moves'[e.veh] : moves'[e.veh][i] = row
    BY <1>0, <1>1, RowStays
  <2>3. deleted[e.veh] => deleted'[e.veh]
    BY <1>0, <1>1, HistoryGrows
  <2>4. QED
    BY <2>1, <2>2, <2>3
<1>3. e \in events => Recorded(e)
  BY DEF HistoryInv, AnnouncedIsRecorded
<1>4. ASSUME NEW w \in Workers, EmitEvent(w), e \notin events PROVE Recorded(e)
  <2>1. /\ task[w] # None /\ task[w].at = "emit"
        /\ e.call = task[w].call /\ e.veh = task[w].veh
        /\ e.from = task[w].from /\ e.to = task[w].to
    BY <1>4 DEF EmitEvent
  <2>2. QED
    BY <2>1 DEF HistoryInv, Told, Row
<1>5. e \in events \/ \E w \in Workers : EmitEvent(w)
  <2>1. ASSUME NEW w \in Workers, NEW v \in Vehicles, StartCall(w, v) PROVE events' = events
    BY <1>0, <2>1, StartCases DEF CreateVehicle, Begins
  <2>2. ASSUME NEW w \in Workers, TaskStep(w) PROVE EmitEvent(w) \/ events' = events
    BY <2>2 DEF TaskStep, CommitStatus, CommitTransfer, MarkDeleted, ReleaseDrivers,
                CreateAssignment, CommitIssue, CommitPair, SelectPaired, CommitUnpair
  <2>3. QED
    BY <2>1, <2>2 DEF Next, Advance, Abort, ExpireCode, vars
<1>6. QED
  BY <1>2, <1>3, <1>4, <1>5

LEMMA HistoryInit == Init => HistoryInv
  BY TypeInit DEF Init, HistoryInv, Untouched, HistoryTellsCurrent, HistoryIsGrounded,
                  StatusReads, FleetReads, Told, AnnouncedIsRecorded, Running, Quiet

LEMMA HistoryStep == HistoryInv /\ [Next]_vars => HistoryInv'
  BY TypeStep, UntouchedStep, CurrentStep, GroundedStep, StatusReadsStep, FleetReadsStep,
     ToldStep, AnnouncedStep DEF HistoryInv

\* The inductive invariant of the histories: rows, calls in flight and events.
THEOREM Inductive == Spec => []HistoryInv
  BY HistoryInit, HistoryStep, PTL DEF Spec

\* However many calls overlap, the last row of each history says what the vehicle says.
THEOREM CurrentCorrect == Spec => []HistoryTellsCurrent
<1>1. HistoryInv => HistoryTellsCurrent
  BY DEF HistoryInv
<1>2. QED
  BY <1>1, Inductive, PTL

\* A history row begins with a status or fleet the vehicle has had, and records a
\* transition the map allows.
THEOREM GroundedCorrect == Spec => []HistoryIsGrounded
<1>1. HistoryInv => HistoryIsGrounded
  BY DEF HistoryInv
<1>2. QED
  BY <1>1, Inductive, PTL

\* What Kafka was told of a status, a transfer or a deletion is in the tables.
THEOREM AnnouncedCorrect == Spec => []AnnouncedIsRecorded
<1>1. HistoryInv => AnnouncedIsRecorded
  BY DEF HistoryInv
<1>2. QED
  BY <1>1, Inductive, PTL

-----------------------------------------------------------------------------
\* A deleted vehicle

LEMMA FrozenStep ==
    ASSUME HistoryInv, [Next]_vars, NEW v \in Vehicles, deleted[v], Quiet(v)
    PROVE  /\ Quiet(v)'
           /\ <<status[v], deleted[v], fleet[v], pairing[v], drivers[v], changes[v], moves[v]>>'
            = <<status[v], deleted[v], fleet[v], pairing[v], drivers[v], changes[v], moves[v]>>
<1>0. TypeInv /\ TypeOK
  BY DEF HistoryInv, TypeInv
<1>1. status[v] # "ABSENT"
  BY DEF HistoryInv, Untouched
<1>2. \A w \in Workers : task[w] # None => task[w].veh # v
  BY DEF Quiet
<1>3. ASSUME NEW x \in Workers, task'[x] # None PROVE task'[x].veh # v
  <2>1. CASE task'[x] = task[x]
    BY <1>2, <1>3, <2>1
  <2>2. CASE task[x] # None /\ Moves(x)
    BY <1>2, <2>2 DEF Moves
  <2>3. ASSUME NEW u \in Vehicles, StartCall(x, u) PROVE u # v /\ task'[x].veh = u
    <3>1. task'[x].veh = u
      BY <1>0, <2>3, StartMeans DEF BegunAs
    <3>2. (\E call, at, from, to, C : Begins(x, u, call, at, from, to, C)) => u # v
      BY DEF Begins, Alive
    <3>3. ASSUME NEW f \in Fleets \cup {None}, CreateVehicle(x, u, f) PROVE u # v
      BY <1>1, <3>3 DEF CreateVehicle
    <3>4. QED
      BY <1>0, <2>3, <3>1, <3>2, <3>3, StartCases
  <2>4. QED
    BY <1>0, <1>3, <2>1, <2>2, <2>3, NextTasks
<1>4. Same(v)
  <2>1. \A w \in Workers : ~Changed(w, v) /\ ~Moved(w, v) /\ ~Marked(w, v)
    BY <1>2 DEF Changed, Moved, Marked, Running
  <2>2. ~Created(v)
    BY <1>1 DEF Created
  <2>3. QED
    BY <1>0, <2>1, <2>2, NextRows
<1>5. pairing'[v] = pairing[v] /\ drivers'[v] = drivers[v]
  <2>1. ASSUME NEW w \in Workers, NEW u \in Vehicles, StartCall(w, u)
        PROVE  pairing' = pairing /\ drivers' = drivers
    BY <1>0, <2>1, StartCases DEF CreateVehicle, Begins
  <2>2. ASSUME NEW w \in Workers, TaskStep(w)
        PROVE  pairing'[v] = pairing[v] /\ drivers'[v] = drivers[v]
    <3>1. task[w] # None /\ task[w].veh \in Vehicles /\ task[w].veh # v
      BY <1>0, <1>2, <2>2, TaskMoves, TaskShape
    <3>2. CASE ReleaseDrivers(w) \/ CreateAssignment(w)
      BY <1>0, <3>1, <3>2 DEF ReleaseDrivers, Release, CreateAssignment, TypeOK
    <3>3. CASE CommitPair(w) \/ CommitUnpair(w)
      BY <1>0, <3>1, <3>3 DEF CommitPair, CommitUnpair, Revoke, TypeOK
    <3>4. QED
      BY <2>2, <3>2, <3>3 DEF TaskStep, CommitStatus, CommitTransfer, MarkDeleted,
                              CommitIssue, SelectPaired, EmitEvent, rows
  <2>3. QED
    BY <2>1, <2>2 DEF Next, Advance, Abort, ExpireCode, rows, vars
<1>6. QED
  BY <1>3, <1>4, <1>5 DEF Quiet, Same

\* Once the calls in flight have ended, nothing reads or writes a deleted vehicle.
THEOREM FrozenCorrect == Spec => DeletedIsFrozen
<1>1. HistoryInv /\ [Next]_vars =>
         [\A v \in Vehicles : deleted[v] /\ Quiet(v) =>
            /\ Quiet(v)'
            /\ <<status[v], deleted[v], fleet[v], pairing[v], drivers[v], changes[v], moves[v]>>'
             = <<status[v], deleted[v], fleet[v], pairing[v], drivers[v], changes[v], moves[v]>>
         ]_vars
  BY FrozenStep
<1>2. QED
  BY <1>1, Inductive, PTL DEF Spec, DeletedIsFrozen

-----------------------------------------------------------------------------
\* Drivers and pairing

\* assignDriver calls between their two statements count against the bound.
LEMMA DriversStep ==
    TypeInv /\ DriversBounded /\ [Next]_vars => DriversBounded'
<1> SUFFICES ASSUME TypeInv, DriversBounded, [Next]_vars, NEW v \in Vehicles
             PROVE  drivers'[v] + Cardinality(Assigning(v)') <= Cardinality(Workers)
  BY DEF DriversBounded
<1>0. TypeOK /\ TypeOK'
  BY TypeStep DEF TypeInv
<1>1. /\ IsFiniteSet(Workers) /\ Cardinality(Workers) \in Nat
      /\ Assigning(v) \subseteq Workers /\ Assigning(v)' \subseteq Workers
      /\ IsFiniteSet(Assigning(v)) /\ IsFiniteSet(Assigning(v)')
      /\ Cardinality(Assigning(v)) \in Nat /\ Cardinality(Assigning(v)') \in Nat
      /\ Cardinality(Assigning(v)') <= Cardinality(Workers)
  BY LifecycleAssumption, FS_Subset, FS_CardinalityType DEF Assigning
<1>2. drivers[v] \in Nat /\ drivers[v] + Cardinality(Assigning(v)) <= Cardinality(Workers)
  BY <1>0 DEF TypeOK, DriversBounded
<1>3. CASE drivers'[v] = 0
  BY <1>1, <1>3
<1>4. CASE drivers'[v] = drivers[v] /\ Assigning(v)' \subseteq Assigning(v)
  <2>1. Cardinality(Assigning(v)') <= Cardinality(Assigning(v))
    BY <1>1, <1>4, FS_Subset
  <2>2. QED
    BY <1>1, <1>2, <1>4, <2>1
<1>5. ASSUME NEW w \in Workers, CreateAssignment(w), task[w].veh = v
      PROVE  drivers'[v] + Cardinality(Assigning(v)') <= Cardinality(Workers)
  <2>1. w \in Assigning(v) /\ w \notin Assigning(v)'
        /\ Assigning(v)' \subseteq Assigning(v) \ {w}
    <3>1. w \in Assigning(v) /\ task'[w].at = "emit" /\ Alone(w)
      BY <1>5, ContinueShape DEF CreateAssignment, Assigning, Running
    <3>2. QED
      BY <3>1 DEF Alone, Assigning, Running
  <2>2. Cardinality(Assigning(v) \ {w}) = Cardinality(Assigning(v)) - 1
        /\ IsFiniteSet(Assigning(v) \ {w})
    BY <1>1, <2>1, FS_RemoveElement
  <2>3. Cardinality(Assigning(v)') <= Cardinality(Assigning(v) \ {w})
    BY <2>1, <2>2, FS_Subset
  <2>4. drivers'[v] = drivers[v] + 1
    BY <1>0, <1>5 DEF CreateAssignment, TypeOK
  <2>5. QED
    BY <1>1, <1>2, <2>2, <2>3, <2>4
<1>6. ASSUME NEW w \in Workers, ReleaseDrivers(w), task[w].veh = v PROVE drivers'[v] = 0
  BY <1>0, <1>6 DEF ReleaseDrivers, Release, TypeOK
<1>7. \/ drivers'[v] = drivers[v]
      \/ \E w \in Workers : (CreateAssignment(w) \/ ReleaseDrivers(w)) /\ task[w].veh = v
  <2>1. ASSUME NEW w \in Workers, NEW u \in Vehicles, StartCall(w, u) PROVE drivers' = drivers
    BY <2>1, StartCases DEF CreateVehicle, Begins
  <2>2. ASSUME NEW w \in Workers, TaskStep(w), ~CreateAssignment(w), ~ReleaseDrivers(w)
        PROVE  drivers' = drivers
    BY <2>2 DEF TaskStep, CommitStatus, CommitTransfer, MarkDeleted, CommitIssue, CommitPair,
                CommitUnpair, SelectPaired, EmitEvent, rows
  <2>3. ASSUME NEW w \in Workers, CreateAssignment(w) \/ ReleaseDrivers(w), task[w].veh # v
        PROVE  drivers'[v] = drivers[v]
    BY <1>0, <2>3 DEF CreateAssignment, ReleaseDrivers, Release, TypeOK
  <2>4. QED
    BY <2>1, <2>2, <2>3 DEF Next, Advance, Abort, ExpireCode, rows, vars
<1>8. ASSUME NEW x \in Assigning(v)', x \notin Assigning(v)
      PROVE  drivers'[v] = 0
  <2>1. /\ x \in Workers /\ task'[x] # None /\ task'[x].call = "assign"
        /\ task'[x].at = "create" /\ task'[x].veh = v
    BY <1>8 DEF Assigning, Running
  <2>2. task'[x] # task[x]
    BY <1>8, <2>1 DEF Assigning, Running
  <2>3. ~ \E u \in Vehicles : StartCall(x, u)
    BY <2>1, StartMeans DEF BegunAs
  <2>4. TaskStep(x) /\ task[x] # None /\ Moves(x)
    BY <2>1, <2>2, <2>3, NextTasks
  <2>5. Running(x, "assign", "release") /\ task[x].veh = v
    BY <2>1, <2>4 DEF Moves, Running
  <2>6. ReleaseDrivers(x)
    BY <2>4, <2>5 DEF TaskStep, CommitStatus, CommitTransfer, MarkDeleted, CreateAssignment,
                      CommitIssue, CommitPair, SelectPaired, CommitUnpair, EmitEvent, Running
  <2>7. QED
    BY <1>6, <2>1, <2>5, <2>6
<1>9. QED
  BY <1>3, <1>4, <1>5, <1>6, <1>7, <1>8

\* The codes a call will write: new ones for an issue, of which no other call
\* knows, rows that exist for the others, and at least one for a pairing.
CodesRead ==
    \A w \in Workers : task[w] # None =>
        /\ task[w].call = "issue" => \A c \in task[w].codes : code[task[w].veh][c] = "ABSENT"
        /\ task[w].call = "pair" /\ task[w].at = "commit" =>
              /\ task[w].codes # {}
              /\ \A c \in task[w].codes : code[task[w].veh][c] # "ABSENT"
        /\ task[w].call = "unpair" /\ task[w].at = "commit" =>
              \A c \in task[w].codes : code[task[w].veh][c] # "ABSENT"

IssuesApart ==
    \A w, x \in Workers :
        /\ w # x
        /\ task[w] # None /\ task[w].call = "issue"
        /\ task[x] # None /\ task[x].call = "issue"
        => task[w].veh # task[x].veh \/ task[w].codes \cap task[x].codes = {}

PairedInv ==
    /\ TypeInv
    /\ DriversBounded
    /\ CodesRead
    /\ IssuesApart
    /\ \A v \in Vehicles : pairing[v] = "ACTIVE" => \E c \in Codes : code[v][c] = "ACTIVE"

\* What becomes of a code: it is issued, or it was there and stays there.
LEMMA CodeMoves ==
    ASSUME PairedInv, [Next]_vars, NEW v \in Vehicles, NEW c \in Codes
    PROVE  /\ code[v][c] # "ABSENT" => code'[v][c] # "ABSENT"
           /\ code[v][c] = "ABSENT" =>
                 \/ code'[v][c] = "ABSENT"
                 \/ \E w \in Workers : /\ CommitIssue(w) /\ task[w].veh = v
                                       /\ c \in task[w].codes
<1>0. TypeInv /\ TypeOK
  BY DEF PairedInv, TypeInv
<1>1. ASSUME NEW w \in Workers, NEW u \in Vehicles, StartCall(w, u) PROVE code' = code
  BY <1>0, <1>1, StartCases DEF CreateVehicle, Begins
<1>2. ASSUME NEW w \in Workers, TaskStep(w),
             ~CommitIssue(w), ~CommitPair(w), ~CommitUnpair(w)
      PROVE  code' = code
  BY <1>2 DEF TaskStep, CommitStatus, CommitTransfer, MarkDeleted, ReleaseDrivers,
              CreateAssignment, SelectPaired, EmitEvent, rows
<1>3. ASSUME NEW w \in Workers, CommitIssue(w)
      PROVE  /\ code[v][c] # "ABSENT" => code'[v][c] # "ABSENT"
             /\ code'[v][c] = code[v][c] \/ (task[w].veh = v /\ c \in task[w].codes)
  <2>1. SetCodes(task[w].veh, task[w].codes, "PENDING")
    BY <1>3 DEF CommitIssue
  <2>2. QED
    BY <1>0, <2>1, SetCodesType DEF CodeStatus, PairingStatus
<1>4. ASSUME NEW w \in Workers, CommitPair(w)
      PROVE  /\ code[v][c] # "ABSENT" => code'[v][c] # "ABSENT"
             /\ code[v][c] = "ABSENT" => code'[v][c] = "ABSENT"
  <2>1. SetCodes(task[w].veh, task[w].codes, "ACTIVE")
        /\ task[w] # None /\ task[w].call = "pair" /\ task[w].at = "commit"
    BY <1>4 DEF CommitPair, Running
  <2>2. \A d \in task[w].codes : code[task[w].veh][d] # "ABSENT"
    BY <2>1 DEF PairedInv, CodesRead
  <2>3. QED
    BY <1>0, <2>1, <2>2, SetCodesType DEF CodeStatus, PairingStatus
<1>5. ASSUME NEW w \in Workers, CommitUnpair(w)
      PROVE  /\ code[v][c] # "ABSENT" => code'[v][c] # "ABSENT"
             /\ code[v][c] = "ABSENT" => code'[v][c] = "ABSENT"
  <2>1. SetCodes(task[w].veh, task[w].codes, "REVOKED")
        /\ task[w] # None /\ task[w].call = "unpair" /\ task[w].at = "commit"
    BY <1>5 DEF CommitUnpair, Running
  <2>2. \A d \in task[w].codes : code[task[w].veh][d] # "ABSENT"
    BY <2>1 DEF PairedInv, CodesRead
  <2>3. QED
    BY <1>0, <2>1, <2>2, SetCodesType DEF CodeStatus, PairingStatus
<1>6. ASSUME NEW u \in Vehicles, NEW d \in Codes, ExpireCode(u, d)
      PROVE  /\ code[v][c] # "ABSENT" => code'[v][c] # "ABSENT"
             /\ code[v][c] = "ABSENT" => code'[v][c] = "ABSENT"
  <2>1. SetCodes(u, {d}, "LAPSED") /\ code[u][d] = "PENDING"
    BY <1>6 DEF ExpireCode
  <2>2. QED
    BY <1>0, <2>1, SetCodesType DEF CodeStatus
<1>7. QED
  BY <1>1, <1>2, <1>3, <1>4, <1>5, <1>6 DEF Next, Advance, Abort, rows, vars

LEMMA CodesReadStep ==
    PairedInv /\ [Next]_vars => CodesRead'
<1> SUFFICES ASSUME PairedInv, [Next]_vars, NEW x \in Workers, task'[x] # None
             PROVE  /\ task'[x].call = "issue" =>
                          \A c \in task'[x].codes : code'[task'[x].veh][c] = "ABSENT"
                    /\ task'[x].call = "pair" /\ task'[x].at = "commit" =>
                          /\ task'[x].codes # {}
                          /\ \A c \in task'[x].codes : code'[task'[x].veh][c] # "ABSENT"
                    /\ task'[x].call = "unpair" /\ task'[x].at = "commit" =>
                          \A c \in task'[x].codes : code'[task'[x].veh][c] # "ABSENT"
  BY DEF CodesRead
<1>0. TypeInv /\ TypeOK /\ TypeInv'
  BY TypeStep DEF PairedInv, TypeInv
<1>1. CASE task'[x] = task[x]
  <2> DEFINE v == task[x].veh
  <2>1. task[x] # None /\ v \in Vehicles /\ task[x].codes \subseteq Codes
    BY <1>0, <1>1, TaskShape
  <2>2. /\ task[x].call = "issue" => \A c \in task[x].codes : code[v][c] = "ABSENT"
        /\ task[x].call = "pair" /\ task[x].at = "commit" =>
              task[x].codes # {} /\ \A c \in task[x].codes : code[v][c] # "ABSENT"
        /\ task[x].call = "unpair" /\ task[x].at = "commit" =>
              \A c \in task[x].codes : code[v][c] # "ABSENT"
    BY <2>1 DEF PairedInv, CodesRead
  <2>3. ASSUME task[x].call = "issue", NEW c \in task[x].codes PROVE code'[v][c] = "ABSENT"
    <3>1. SUFFICES ASSUME NEW w \in Workers, CommitIssue(w), task[w].veh = v,
                          c \in task[w].codes
                   PROVE  FALSE
      BY <2>1, <2>2, <2>3, CodeMoves
    <3>2. task[w] # None /\ task[w].call = "issue" /\ task'[w] = None
      BY <1>0, <3>1, FinishShape DEF CommitIssue, Running
    <3>3. w # x
      BY <1>1, <2>1, <3>2
    <3>4. QED
      BY <2>1, <2>3, <3>1, <3>2, <3>3 DEF PairedInv, IssuesApart
  <2>4. \A c \in task[x].codes : code[v][c] # "ABSENT" => code'[v][c] # "ABSENT"
    BY <2>1, CodeMoves
  <2>5. QED
    BY <1>1, <2>2, <2>3, <2>4
<1>2. CASE task[x] # None /\ Moves(x)
  <2>1. task'[x].call # "issue" /\ ~(task'[x].call = "pair" /\ task'[x].at = "commit")
    BY <1>2 DEF Moves
  <2>2. ASSUME task'[x].call = "unpair", NEW c \in task'[x].codes
        PROVE  code'[task'[x].veh][c] # "ABSENT"
    BY <1>2, <2>2 DEF Moves
  <2>3. QED
    BY <2>1, <2>2
<1>3. ASSUME NEW v \in Vehicles, StartCall(x, v)
      PROVE  /\ task'[x].call = "issue" =>
                   \A c \in task'[x].codes : code'[task'[x].veh][c] = "ABSENT"
             /\ task'[x].call = "pair" =>
                   /\ task'[x].codes # {}
                   /\ \A c \in task'[x].codes : code'[task'[x].veh][c] # "ABSENT"
             /\ ~(task'[x].call = "unpair" /\ task'[x].at = "commit")
  <2>1. BegunAs(x, v)
    BY <1>0, <1>3, StartMeans
  <2>2. ASSUME task'[x].call = "issue"
        PROVE  \A c \in task'[x].codes : code'[task'[x].veh][c] = "ABSENT"
    <3>1. PICK c \in Codes : code[v][c] = "ABSENT"
                           /\ Begins(x, v, "issue", "commit", None, None, {c})
      BY <2>1, <2>2 DEF BegunAs
    <3>2. task'[x].codes = {c} /\ task'[x].veh = v /\ code' = code
      BY <3>1 DEF Begins
    <3>3. QED
      BY <3>1, <3>2
  <2>3. ASSUME task'[x].call = "pair"
        PROVE  /\ task'[x].codes # {}
               /\ \A c \in task'[x].codes : code'[task'[x].veh][c] # "ABSENT"
    <3>1. PICK c \in Codes : code[v][c] = "PENDING"
                           /\ Begins(x, v, "pair", "commit", None, None, {c})
      BY <2>1, <2>3 DEF BegunAs
    <3>2. task'[x].codes = {c} /\ task'[x].veh = v /\ code' = code
      BY <3>1 DEF Begins
    <3>3. QED
      BY <3>1, <3>2
  <2>4. ~(task'[x].call = "unpair" /\ task'[x].at = "commit")
    BY <2>1 DEF BegunAs
  <2>5. QED
    BY <2>2, <2>3, <2>4
<1>4. QED
  BY <1>0, <1>1, <1>2, <1>3, NextTasks

LEMMA IssuesApartStep ==
    PairedInv /\ [Next]_vars => IssuesApart'
<1> DEFINE Issuing(w) == task[w] # None /\ task[w].call = "issue"
           Apart(w, x) == task[w].veh # task[x].veh \/ task[w].codes \cap task[x].codes = {}
<1> SUFFICES ASSUME PairedInv, [Next]_vars, NEW w \in Workers, NEW x \in Workers,
                    w # x, Issuing(w)', Issuing(x)'
             PROVE  Apart(w, x)'
  BY DEF IssuesApart
<1>0. TypeInv
  BY DEF PairedInv
<1>1. ASSUME NEW y \in Workers, Issuing(y)'
      PROVE  (task'[y] = task[y] /\ Issuing(y)) \/ \E v \in Vehicles : StartCall(y, v)
  <2>1. ~(task[y] # None /\ Moves(y))
    BY <1>1 DEF Moves
  <2>2. QED
    BY <1>0, <1>1, <2>1, NextTasks
<1>2. ASSUME NEW y \in Workers, NEW z \in Workers, y # z, Issuing(y)',
             task'[z] = task[z], Issuing(z), NEW v \in Vehicles, StartCall(y, v)
      PROVE  Apart(y, z)'
  <2>1. PICK c \in Codes :
           /\ \A u \in Workers : ~(Running(u, "issue", "commit") /\ c \in task[u].codes)
           /\ Begins(y, v, "issue", "commit", None, None, {c})
    BY <1>0, <1>2, StartMeans DEF BegunAs
  <2>2. Running(z, "issue", "commit")
    BY <1>0, <1>2, TaskShape DEF Running, Stages
  <2>3. c \notin task[z].codes /\ task'[y].codes = {c}
    BY <2>1, <2>2 DEF Begins
  <2>4. QED
    BY <1>2, <2>3
<1>3. ASSUME NEW u \in Vehicles, NEW v \in Vehicles, StartCall(w, u), StartCall(x, v)
      PROVE  FALSE
  <2>1. task[w] = None /\ task[x] = None
    BY <1>0, <1>3, StartMeans DEF BegunAs
  <2>2. PICK c \in Codes : Begins(w, u, "issue", "commit", None, None, {c})
    BY <1>0, <1>3, StartMeans DEF BegunAs
  <2>3. task'[x] = task[x]
    BY <2>2 DEF Begins, Alone
  <2>4. QED
    BY <2>1, <2>3
<1>4. CASE task'[w] = task[w] /\ Issuing(w) /\ task'[x] = task[x] /\ Issuing(x)
  BY <1>4 DEF PairedInv, IssuesApart
<1>5. QED
  BY <1>1, <1>2, <1>3, <1>4

LEMMA PairingStep ==
    ASSUME PairedInv, [Next]_vars, NEW v \in Vehicles, pairing'[v] = "ACTIVE"
    PROVE  \E c \in Codes : code'[v][c] = "ACTIVE"
<1>0. TypeInv /\ TypeOK
  BY DEF PairedInv, TypeInv
<1>1. ASSUME NEW w \in Workers, CommitPair(w), task[w].veh = v
      PROVE  \E c \in Codes : code'[v][c] = "ACTIVE"
  <2>1. /\ task[w] # None /\ task[w].call = "pair" /\ task[w].at = "commit"
        /\ SetCodes(v, task[w].codes, "ACTIVE")
    BY <1>1 DEF CommitPair, Running
  <2>2. task[w].codes # {} /\ task[w].codes \subseteq Codes
    BY <1>0, <2>1, TaskShape DEF PairedInv, CodesRead
  <2>3. QED
    BY <1>0, <2>1, <2>2, SetCodesType DEF CodeStatus, PairingStatus
<1>2. ASSUME pairing[v] = "ACTIVE",
             \A c \in Codes : code[v][c] = "ACTIVE" => code'[v][c] = "ACTIVE"
      PROVE  \E c \in Codes : code'[v][c] = "ACTIVE"
  BY <1>2 DEF PairedInv
<1>3. ASSUME NEW w \in Workers, CommitPair(w), task[w].veh # v
      PROVE  pairing'[v] = pairing[v] /\ code'[v] = code[v]
  BY <1>0, <1>3, SetCodesType DEF CommitPair, CodeStatus, PairingStatus, TypeOK
<1>4. ASSUME NEW w \in Workers, CommitUnpair(w)
      PROVE  pairing'[v] = pairing[v] /\ code'[v] = code[v]
  <2>1. task[w].veh \in Vehicles
    BY <1>0, <1>4, TaskShape DEF CommitUnpair, Running
  <2>2. task[w].veh # v
    BY <1>0, <1>4, <2>1 DEF CommitUnpair, Revoke, TypeOK
  <2>3. QED
    BY <1>0, <1>4, <2>2, SetCodesType DEF CommitUnpair, Revoke, CodeStatus, PairingStatus, TypeOK
<1>5. ASSUME NEW w \in Workers, CommitIssue(w), NEW c \in Codes, code[v][c] = "ACTIVE"
      PROVE  code'[v][c] = "ACTIVE"
  <2>1. /\ task[w] # None /\ task[w].call = "issue"
        /\ SetCodes(task[w].veh, task[w].codes, "PENDING")
    BY <1>5 DEF CommitIssue, Running
  <2>2. \A d \in task[w].codes : code[task[w].veh][d] = "ABSENT"
    BY <2>1 DEF PairedInv, CodesRead
  <2>3. QED
    BY <1>0, <1>5, <2>1, <2>2, SetCodesType DEF CodeStatus, PairingStatus
<1>6. ASSUME NEW u \in Vehicles, NEW d \in Codes, ExpireCode(u, d),
             NEW c \in Codes, code[v][c] = "ACTIVE"
      PROVE  code'[v][c] = "ACTIVE"
  <2>1. SetCodes(u, {d}, "LAPSED") /\ code[u][d] = "PENDING"
    BY <1>6 DEF ExpireCode
  <2>2. QED
    BY <1>0, <1>6, <2>1, SetCodesType DEF CodeStatus
<1>7. ASSUME NEW w \in Workers, NEW u \in Vehicles, StartCall(w, u)
      PROVE  pairing' = pairing /\ code' = code
  BY <1>0, <1>7, StartCases DEF CreateVehicle, Begins
<1>8. ASSUME NEW w \in Workers, TaskStep(w), ~CommitPair(w), ~CommitUnpair(w)
      PROVE  pairing' = pairing /\ (CommitIssue(w) \/ code' = code)
  BY <1>8 DEF TaskStep, CommitStatus, CommitTransfer, MarkDeleted, ReleaseDrivers,
              CreateAssignment, CommitIssue, SelectPaired, EmitEvent, rows
<1>9. CASE \E w \in Workers, u \in Vehicles : StartCall(w, u)
  BY <1>2, <1>7, <1>9
<1>10. CASE \E w \in Workers : TaskStep(w)
  BY <1>1, <1>2, <1>3, <1>4, <1>5, <1>8, <1>10
<1>11. CASE \E u \in Vehicles, d \in Codes : ExpireCode(u, d)
  BY <1>2, <1>6, <1>11 DEF ExpireCode
<1>12. CASE (\E w \in Workers : Abort(w)) \/ UNCHANGED vars
  BY <1>2, <1>12 DEF Abort, rows, vars
<1>13. QED
  BY <1>9, <1>10, <1>11, <1>12 DEF Next, Advance

LEMMA PairedInit == Init => PairedInv
<1>1. Init => DriversBounded
  <2> SUFFICES ASSUME Init, NEW v \in Vehicles
               PROVE  drivers[v] + Cardinality(Assigning(v)) <= Cardinality(Workers)
    BY DEF DriversBounded
  <2>1. drivers[v] = 0 /\ Assigning(v) = {}
    BY DEF Init, Assigning, Running
  <2>2. QED
    BY <2>1, FS_EmptySet, FS_CardinalityType, LifecycleAssumption
<1>2. QED
  BY <1>1, TypeInit DEF Init, PairedInv, CodesRead, IssuesApart

LEMMA PairedStep == PairedInv /\ [Next]_vars => PairedInv'
  BY TypeStep, DriversStep, CodesReadStep, IssuesApartStep, PairingStep DEF PairedInv

\* A vehicle shown as paired has a code that paired it, and no more ACTIVE drivers
\* than calls overlap.
THEOREM PairedCorrect == Spec => []PairedHasCode
<1>1. PairedInv => PairedHasCode
  BY DEF PairedInv, PairedHasCode
<1>2. QED
  BY <1>1, PairedInit, PairedStep, PTL DEF Spec

\* "Ensures ONLY 1 active driver", vehicles.service.ts:278, where calls do not overlap.
THEOREM OneDriverAlone == ASSUME NEW w, Workers = {w} PROVE Spec => []OneActiveDriver
<1>1. PairedInv => OneActiveDriver
  <2> SUFFICES ASSUME PairedInv, NEW v \in Vehicles PROVE drivers[v] <= 1
    BY DEF OneActiveDriver
  <2>1. Cardinality(Workers) = 1
    BY FS_Singleton
  <2>2. Cardinality(Assigning(v)) \in Nat /\ drivers[v] \in Nat
    BY LifecycleAssumption, FS_Subset, FS_CardinalityType
       DEF Assigning, PairedInv, TypeInv, TypeOK
  <2>3. QED
    BY <2>1, <2>2 DEF PairedInv, DriversBounded
<1>2. QED
  BY <1>1, PairedInit, PairedStep, PTL DEF Spec

-----------------------------------------------------------------------------
\* Calls that neither overlap nor fail

\* What the one call in flight has read is still so, and only deleteVehicle goes
\* on with a vehicle that is deleted, by its own first statement.
InTurn(w) ==
    /\ Running(w, "status", "commit") => task[w].from = status[task[w].veh]
    /\ Running(w, "transfer", "commit") => task[w].from = fleet[task[w].veh]
    /\ Running(w, "assign", "create") => drivers[task[w].veh] = 0
    /\ Running(w, "unpair", "commit") =>
          task[w].codes = {c \in Codes : code[task[w].veh][c] = "ACTIVE"}
    /\ deleted[task[w].veh] => task[w].call = "delete" /\ task[w].at # "mark"

\* The drivers a deleted vehicle still has are about to be released.
Released(v) ==
    deleted[v] /\ drivers[v] # 0 =>
        \E w \in Workers : Running(w, "delete", "release") /\ task[w].veh = v

Paired(v) == pairing[v] = "ACTIVE" <=> \E c \in Codes : code[v][c] = "ACTIVE"

Chained(h) == \A i \in 2 .. Len(h) : h[i].from = h[i - 1].to

VehicleInTurn(v) ==
    /\ drivers[v] <= 1
    /\ Released(v)
    /\ Paired(v)
    /\ Chained(changes[v]) /\ Chained(moves[v])

OneCall == \A w, x \in Workers : task[w] # None /\ task[x] # None => w = x

SerialInv ==
    /\ OneCall
    /\ \A w \in Workers : task[w] # None => InTurn(w)
    /\ \A v \in Vehicles : VehicleInTurn(v)

LEMMA SerialInit == Init => SerialInv
  BY DEF Init, SerialInv, OneCall, VehicleInTurn, Released, Paired, Chained

\* A row that begins where the last one ended goes on with the chain.
LEMMA ChainGrows ==
    ASSUME NEW h, NEW g, NEW e, Len(h) \in Nat, Added(h, g, e), Chained(h),
           Len(h) # 0 => e.from = h[Len(h)].to
    PROVE  Chained(g)
<1> SUFFICES ASSUME NEW i \in 2 .. Len(g) PROVE g[i].from = g[i - 1].to
  BY DEF Chained
<1>1. CASE i <= Len(h)
  <2>1. g[i] = h[i] /\ g[i - 1] = h[i - 1]
    BY <1>1 DEF Added
  <2>2. QED
    BY <1>1, <2>1 DEF Chained
<1>2. CASE i = Len(h) + 1
  <2>1. g[i] = e /\ g[i - 1] = h[Len(h)] /\ Len(h) # 0
    BY <1>2 DEF Added
  <2>2. QED
    BY <2>1
<1>3. QED
  BY <1>1, <1>2 DEF Added

\* Alone is the call whose task it is.
LEMMA OnlyCall ==
    ASSUME TypeInv, OneCall, NEW w \in Workers, TaskStep(w)
    PROVE  /\ task[w] # None
           /\ \A x \in Workers : x # w => task[x] = None /\ task'[x] = None
  BY TaskMoves DEF OneCall, Alone

\* A statement leaves the other vehicles as they are.
LEMMA StepElsewhere ==
    ASSUME TypeInv, NEW w \in Workers, TaskStep(w), NEW v \in Vehicles, task[w].veh # v
    PROVE  /\ Same(v)
           /\ drivers'[v] = drivers[v] /\ pairing'[v] = pairing[v] /\ code'[v] = code[v]
<1>0. TypeOK /\ task[w] # None /\ task[w].veh \in Vehicles
  BY TaskMoves, TaskShape DEF TypeInv
<1>1. Same(v)
  BY StepRows DEF Changed, Moved, Marked
<1>2. drivers'[v] = drivers[v]
  BY <1>0 DEF TaskStep, CommitStatus, CommitTransfer, MarkDeleted, ReleaseDrivers, Release,
              CreateAssignment, CommitIssue, CommitPair, SelectPaired, CommitUnpair,
              EmitEvent, rows, TypeOK
<1>3. pairing'[v] = pairing[v]
  BY <1>0 DEF TaskStep, CommitStatus, CommitTransfer, MarkDeleted, ReleaseDrivers,
              CreateAssignment, CommitIssue, CommitPair, SelectPaired, CommitUnpair, Revoke,
              EmitEvent, rows, TypeOK
<1>4. code'[v] = code[v]
  BY <1>0, SetCodesType
     DEF TaskStep, CommitStatus, CommitTransfer, MarkDeleted, ReleaseDrivers,
         CreateAssignment, CommitIssue, CommitPair, SelectPaired, CommitUnpair,
         EmitEvent, rows, CodeStatus, PairingStatus
<1>5. QED
  BY <1>1, <1>2, <1>3, <1>4

\* So it is enough to look at the vehicle of the call.
LEMMA SerialElsewhere ==
    ASSUME TypeInv, SerialInv, NEW w \in Workers, TaskStep(w),
           NEW v \in Vehicles, task[w].veh = v,
           task'[w] # None => InTurn(w)',
           drivers'[v] <= 1, Released(v)', Paired(v)',
           Chained(changes'[v]), Chained(moves'[v])
    PROVE  SerialInv'
<1>1. /\ task[w] # None
      /\ \A x \in Workers : x # w => task[x] = None /\ task'[x] = None
  BY OnlyCall DEF SerialInv
<1>2. OneCall' /\ \A x \in Workers : task'[x] # None => InTurn(x)'
  BY <1>1 DEF OneCall
<1>3. VehicleInTurn(v)'
  BY DEF VehicleInTurn
<1>4. ASSUME NEW u \in Vehicles, u # v PROVE VehicleInTurn(u)'
  <2>1. /\ Same(u)
        /\ drivers'[u] = drivers[u] /\ pairing'[u] = pairing[u] /\ code'[u] = code[u]
    BY <1>4, StepElsewhere
  <2>2. VehicleInTurn(u)
    BY DEF SerialInv
  <2>3. ~deleted[u] \/ drivers[u] = 0
    BY <1>1, <1>4, <2>2 DEF VehicleInTurn, Released, Running
  <2>4. QED
    BY <2>1, <2>2, <2>3 DEF VehicleInTurn, Released, Paired, Same
<1>5. QED
  BY <1>2, <1>3, <1>4 DEF SerialInv

\* What the statement of the call finds: a vehicle that is there, as it was read.
LEMMA SerialFinds ==
    ASSUME HistoryInv, PairedInv, SerialInv, NEW w \in Workers, TaskStep(w),
           NEW v \in Vehicles, task[w].veh = v
    PROVE  /\ TypeOK /\ TypeInv /\ task[w] # None /\ InTurn(w)
           /\ drivers[v] \in Nat /\ drivers[v] <= 1
           /\ Released(v) /\ Paired(v) /\ Chained(changes[v]) /\ Chained(moves[v])
           /\ Len(changes[v]) \in Nat /\ Len(moves[v]) \in Nat
           /\ ~deleted[v] /\ Len(changes[v]) # 0 => status[v] = changes[v][Len(changes[v])].to
           /\ Len(moves[v]) # 0 => fleet[v] = moves[v][Len(moves[v])].to
           /\ ~deleted[v] => drivers[v] = 0 \/ drivers[v] = 1
<1>1. TypeInv /\ TypeOK /\ task[w] # None
  BY TaskMoves DEF HistoryInv, TypeInv
<1>2. status[v] # "ABSENT"
  BY <1>1 DEF HistoryInv, Untouched, Quiet
<1>3. InTurn(w) /\ VehicleInTurn(v) /\ drivers[v] \in Nat
  BY <1>1 DEF SerialInv, TypeOK
<1>4. /\ Len(changes[v]) \in Nat /\ Len(moves[v]) \in Nat
      /\ changes[v] = <<>> <=> Len(changes[v]) = 0
      /\ moves[v] = <<>> <=> Len(moves[v]) = 0
  BY <1>1, HistoryDomains
<1>5. /\ ~deleted[v] /\ Len(changes[v]) # 0 => status[v] = changes[v][Len(changes[v])].to
      /\ Len(moves[v]) # 0 => fleet[v] = moves[v][Len(moves[v])].to
  BY <1>2, <1>4 DEF HistoryInv, HistoryTellsCurrent
<1>6. QED
  BY <1>1, <1>3, <1>4, <1>5 DEF VehicleInTurn

\* changeStatus and transferVehicle: the new row begins where the last one ended.
LEMMA SerialCommits ==
    ASSUME HistoryInv, PairedInv, SerialInv, NEW w \in Workers,
           CommitStatus(w) \/ CommitTransfer(w)
    PROVE  SerialInv'
<1>1. PICK v \in Vehicles : task[w].veh = v
  BY TaskShape DEF CommitStatus, CommitTransfer, Running, HistoryInv
<1>2. TaskStep(w)
  BY DEF TaskStep
<1>3. /\ TypeOK /\ TypeInv /\ task[w] # None /\ InTurn(w) /\ drivers[v] <= 1
      /\ Released(v) /\ Paired(v) /\ Chained(changes[v]) /\ Chained(moves[v])
      /\ Len(changes[v]) \in Nat /\ Len(moves[v]) \in Nat
      /\ ~deleted[v] /\ Len(changes[v]) # 0 => status[v] = changes[v][Len(changes[v])].to
      /\ Len(moves[v]) # 0 => fleet[v] = moves[v][Len(moves[v])].to
  BY <1>1, <1>2, SerialFinds
<1>4. ~deleted[v]
  BY <1>1, <1>3 DEF InTurn, CommitStatus, CommitTransfer, Running
<1>5. /\ UNCHANGED <<deleted, drivers, pairing, code>>
      /\ Continue(w, "emit")
  BY DEF CommitStatus, CommitTransfer
<1>6. Released(v)' /\ Paired(v)' /\ drivers'[v] <= 1
  BY <1>3, <1>4, <1>5 DEF Released, Paired
<1>7. InTurn(w)'
  <2>1. task'[w].at = "emit" /\ task'[w].veh = v
    BY <1>1, <1>3, <1>5, ContinueShape
  <2>2. QED
    BY <1>4, <1>5, <2>1 DEF InTurn, Running
<1>8. Chained(changes'[v]) /\ Chained(moves'[v])
  <2>1. CASE CommitStatus(w)
    <3>1. Running(w, "status", "commit")
      BY <2>1 DEF CommitStatus
    <3>2. Changed(w, v)
      BY <1>1, <1>2, <1>3, <3>1, StepRows
    <3>3. Row(w).from = status[v]
      BY <1>1, <1>3, <3>1 DEF InTurn, Row
    <3>4. Chained(changes'[v])
      BY <1>3, <1>4, <3>2, <3>3, ChainGrows DEF Changed
    <3>5. QED
      BY <1>3, <3>2, <3>4 DEF Changed
  <2>2. CASE CommitTransfer(w)
    <3>1. Running(w, "transfer", "commit")
      BY <2>2 DEF CommitTransfer
    <3>2. Moved(w, v)
      BY <1>1, <1>2, <1>3, <3>1, StepRows
    <3>3. Row(w).from = fleet[v]
      BY <1>1, <1>3, <3>1 DEF InTurn, Row
    <3>4. Chained(moves'[v])
      BY <1>3, <3>2, <3>3, ChainGrows DEF Moved
    <3>5. QED
      BY <1>3, <3>2, <3>4 DEF Moved
  <2>3. QED
    BY <2>1, <2>2
<1>9. QED
  BY <1>1, <1>2, <1>3, <1>6, <1>7, <1>8, SerialElsewhere

\* The statements that leave the histories: what remains to be shown of them.
LEMMA SerialColumns ==
    ASSUME HistoryInv, PairedInv, SerialInv, NEW w \in Workers, TaskStep(w),
           UNCHANGED history, NEW v \in Vehicles, task[w].veh = v,
           task'[w] # None => InTurn(w)',
           drivers'[v] <= 1, Released(v)', Paired(v)'
    PROVE  SerialInv'
<1>1. TypeInv /\ Chained(changes[v]) /\ Chained(moves[v])
  BY SerialFinds
<1>2. Chained(changes'[v]) /\ Chained(moves'[v])
  BY <1>1 DEF history
<1>3. QED
  BY <1>1, <1>2, SerialElsewhere

\* deleteVehicle, assignDriver and removeDriver: the drivers are released by the call
\* that marks or creates, before another one begins.
LEMMA SerialDrivers ==
    ASSUME HistoryInv, PairedInv, SerialInv, NEW w \in Workers,
           MarkDeleted(w) \/ ReleaseDrivers(w) \/ CreateAssignment(w)
    PROVE  SerialInv'
<1>1. PICK v \in Vehicles : task[w].veh = v
  BY TaskShape DEF MarkDeleted, ReleaseDrivers, CreateAssignment, Running, HistoryInv
<1>2. TaskStep(w) /\ UNCHANGED <<history, pairing, code>>
  BY DEF TaskStep, MarkDeleted, ReleaseDrivers, CreateAssignment
<1>3. /\ TypeOK /\ TypeInv /\ task[w] # None /\ InTurn(w)
      /\ drivers[v] \in Nat /\ drivers[v] <= 1 /\ Released(v) /\ Paired(v)
  BY <1>1, <1>2, SerialFinds
<1>4. Paired(v)'
  BY <1>2, <1>3 DEF Paired
<1>5. CASE MarkDeleted(w)
  <2>1. Running(w, "delete", "mark") /\ Continue(w, "release") /\ UNCHANGED drivers
    BY <1>5 DEF MarkDeleted
  <2>2. /\ task'[w] = [task[w] EXCEPT !.at = "release"] /\ task'[w].call = "delete"
        /\ task'[w].veh = v /\ task'[w].at = "release"
    BY <1>1, <1>3, <2>1, ContinueShape DEF Running
  <2>3. task'[w] # None
    <3>1. task[w] \in Task
      BY <1>3, TaskShape
    <3>2. task'[w] \in Task
      BY <2>2, <3>1 DEF Task
    <3>3. QED
      BY <3>2, NoneAssumption
  <2>4. Released(v)'
    BY <2>2, <2>3 DEF Released, Running
  <2>5. InTurn(w)'
    BY <2>2 DEF InTurn, Running
  <2>6. QED
    BY <1>1, <1>2, <1>3, <1>4, <2>1, <2>4, <2>5, SerialColumns
<1>6. CASE ReleaseDrivers(w)
  <2>1. drivers'[v] = 0 /\ UNCHANGED deleted
    BY <1>1, <1>3, <1>6 DEF ReleaseDrivers, Release, TypeOK
  <2>2. Released(v)'
    BY <2>1 DEF Released
  <2>3. \/ task[w].call = "assign" /\ Continue(w, "create")
        \/ task[w].call = "delete" /\ Continue(w, "emit")
        \/ Finish(w)
    BY <1>6 DEF ReleaseDrivers, Running
  <2>4. task'[w] # None => InTurn(w)'
    <3>1. CASE task[w].call = "assign" /\ Continue(w, "create")
      <4>1. task'[w].call = "assign" /\ task'[w].veh = v /\ task'[w].at = "create"
        BY <1>1, <1>3, <3>1, ContinueShape
      <4>2. ~deleted'[v]
        BY <1>1, <1>3, <2>1, <3>1 DEF InTurn
      <4>3. QED
        BY <2>1, <4>1, <4>2 DEF InTurn, Running
    <3>2. CASE task[w].call = "delete" /\ Continue(w, "emit")
      <4>1. task'[w].call = "delete" /\ task'[w].veh = v /\ task'[w].at = "emit"
        BY <1>1, <1>3, <3>2, ContinueShape
      <4>2. QED
        BY <4>1 DEF InTurn, Running
    <3>3. CASE Finish(w)
      BY <1>3, <3>3, FinishShape
    <3>4. QED
      BY <2>3, <3>1, <3>2, <3>3
  <2>5. drivers'[v] <= 1
    BY <2>1
  <2>6. QED
    BY <1>1, <1>2, <1>4, <2>2, <2>4, <2>5, SerialColumns
<1>7. CASE CreateAssignment(w)
  <2>1. Running(w, "assign", "create") /\ Continue(w, "emit") /\ UNCHANGED deleted
    BY <1>7 DEF CreateAssignment
  <2>2. drivers[v] = 0 /\ ~deleted[v]
    BY <1>1, <1>3, <2>1 DEF InTurn, Running
  <2>3. drivers'[v] <= 1
    BY <1>1, <1>3, <1>7, <2>2 DEF CreateAssignment, TypeOK
  <2>4. Released(v)'
    BY <2>1, <2>2 DEF Released
  <2>5. task'[w].veh = v /\ task'[w].at = "emit"
    BY <1>1, <1>3, <2>1, ContinueShape
  <2>6. InTurn(w)'
    BY <2>1, <2>2, <2>5 DEF InTurn, Running
  <2>7. QED
    BY <1>1, <1>2, <1>4, <2>3, <2>4, <2>6, SerialColumns
<1>8. QED
  BY <1>5, <1>6, <1>7

\* pairVehicle and unpairVehicle: what is written to the codes is written to the
\* vehicle, and nothing comes between the rows the updateMany sees and the commit.
LEMMA SerialPairing ==
    ASSUME HistoryInv, PairedInv, SerialInv, NEW w \in Workers,
           CommitIssue(w) \/ CommitPair(w) \/ SelectPaired(w) \/ CommitUnpair(w)
    PROVE  SerialInv'
<1>1. PICK v \in Vehicles : task[w].veh = v
  BY TaskShape DEF CommitIssue, CommitPair, SelectPaired, CommitUnpair, Running, HistoryInv
<1>2. TaskStep(w) /\ UNCHANGED <<history, deleted, drivers>>
  BY DEF TaskStep, CommitIssue, CommitPair, SelectPaired, CommitUnpair, rows
<1>3. /\ TypeOK /\ TypeInv /\ task[w] # None /\ InTurn(w)
      /\ drivers[v] <= 1 /\ Released(v) /\ Paired(v)
  BY <1>1, <1>2, SerialFinds
<1>4. ~deleted[v] /\ ~deleted'[v]
  BY <1>1, <1>2, <1>3
     DEF InTurn, CommitIssue, CommitPair, SelectPaired, CommitUnpair, Running
<1>5. drivers'[v] <= 1 /\ Released(v)'
  BY <1>2, <1>3, <1>4 DEF Released
<1>6. CASE CommitIssue(w)
  <2>1. /\ SetCodes(v, task[w].codes, "PENDING") /\ UNCHANGED pairing /\ Finish(w)
        /\ task[w].call = "issue"
    BY <1>1, <1>6 DEF CommitIssue, Running
  <2>2. \A c \in task[w].codes : code[v][c] = "ABSENT"
    BY <1>1, <1>3, <2>1 DEF PairedInv, CodesRead
  <2>3. \A c \in Codes : code'[v][c] = "ACTIVE" <=> code[v][c] = "ACTIVE"
    BY <1>3, <2>1, <2>2, SetCodesType DEF CodeStatus, PairingStatus
  <2>4. Paired(v)'
    BY <1>3, <2>1, <2>3 DEF Paired
  <2>5. task'[w] = None
    BY <1>3, <2>1, FinishShape
  <2>6. QED
    BY <1>1, <1>2, <1>5, <2>4, <2>5, SerialColumns
<1>7. CASE CommitPair(w)
  <2>1. /\ SetCodes(v, task[w].codes, "ACTIVE") /\ Continue(w, "emit")
        /\ pairing'[v] = "ACTIVE" /\ task[w].call = "pair" /\ task[w].at = "commit"
    BY <1>1, <1>3, <1>7 DEF CommitPair, Running, TypeOK
  <2>2. task[w].codes # {} /\ task[w].codes \subseteq Codes
    BY <1>3, <2>1, TaskShape DEF PairedInv, CodesRead
  <2>3. \E c \in Codes : code'[v][c] = "ACTIVE"
    BY <1>3, <2>1, <2>2, SetCodesType DEF CodeStatus, PairingStatus
  <2>4. Paired(v)'
    BY <2>1, <2>3 DEF Paired
  <2>5. task'[w].veh = v /\ task'[w].at = "emit"
    BY <1>1, <1>3, <2>1, ContinueShape
  <2>6. InTurn(w)'
    BY <1>4, <2>5 DEF InTurn, Running
  <2>7. QED
    BY <1>1, <1>2, <1>5, <2>4, <2>6, SerialColumns
<1>8. CASE SelectPaired(w)
  <2>1. /\ task' = [task EXCEPT ![w] = NewTask("unpair", v, "commit", None, None,
                                               {c \in Codes : code[v][c] = "ACTIVE"})]
        /\ UNCHANGED <<pairing, code>>
    BY <1>1, <1>8 DEF SelectPaired, rows
  <2>2. NewTask("unpair", v, "commit", None, None, {c \in Codes : code[v][c] = "ACTIVE"})
            \in Task
    BY DEF NewTask, Task, CallNames
  <2>3. task'[w] = NewTask("unpair", v, "commit", None, None,
                          {c \in Codes : code[v][c] = "ACTIVE"})
    BY <1>3, <2>1, <2>2, StartShape
  <2>4. /\ task'[w].call = "unpair" /\ task'[w].veh = v
        /\ task'[w].codes = {c \in Codes : code[v][c] = "ACTIVE"}
    BY <2>3 DEF NewTask
  <2>5. InTurn(w)'
    BY <1>4, <2>1, <2>4 DEF InTurn, Running
  <2>6. Paired(v)'
    BY <1>3, <2>1 DEF Paired
  <2>7. QED
    BY <1>1, <1>2, <1>5, <2>5, <2>6, SerialColumns
<1>9. CASE CommitUnpair(w)
  <2>1. /\ SetCodes(v, task[w].codes, "REVOKED") /\ Finish(w)
        /\ pairing'[v] = "REVOKED" /\ Running(w, "unpair", "commit")
    BY <1>1, <1>3, <1>9 DEF CommitUnpair, Revoke, TypeOK
  <2>2. task[w].codes = {c \in Codes : code[v][c] = "ACTIVE"}
    BY <1>1, <1>3, <2>1 DEF InTurn
  <2>3. \A c \in Codes : code'[v][c] # "ACTIVE"
    BY <1>3, <2>1, <2>2, SetCodesType DEF CodeStatus, PairingStatus
  <2>4. Paired(v)'
    BY <2>1, <2>3 DEF Paired
  <2>5. task'[w] = None
    BY <1>3, <2>1, FinishShape
  <2>6. QED
    BY <1>1, <1>2, <1>5, <2>4, <2>5, SerialColumns
<1>10. QED
  BY <1>6, <1>7, <1>8, <1>9

\* A call begins where no other is in flight, and reads what is so.
LEMMA SerialBegins ==
    ASSUME HistoryInv, SerialInv, OneBusy, NEW w \in Workers, NEW v \in Vehicles,
           StartCall(w, v)
    PROVE  SerialInv'
<1>0. TypeInv /\ TypeOK
  BY DEF HistoryInv, TypeInv
<1>1. OneCall'
  BY DEF OneBusy, OneCall
<1>2. task[w] = None /\ Alone(w)
  <2>1. ASSUME NEW f \in Fleets \cup {None}, CreateVehicle(w, v, f) PROVE task[w] = None /\ Alone(w)
    BY <1>0, <2>1 DEF CreateVehicle, TypeOK, Alone
  <2>2. QED
    BY <1>0, <2>1, StartCases DEF Begins
<1>3. UNCHANGED <<deleted, pairing, drivers, code, changes, moves>>
  BY <1>0, StartCases DEF CreateVehicle, Begins, history
<1>4. ASSUME NEW u \in Vehicles PROVE VehicleInTurn(u)'
  <2>1. VehicleInTurn(u)
    BY DEF SerialInv
  <2>2. Released(u)'
    BY <1>2, <1>3, <2>1 DEF VehicleInTurn, Released, Running, Alone
  <2>3. QED
    BY <1>3, <2>1, <2>2 DEF VehicleInTurn, Paired
<1>5. ASSUME NEW x \in Workers, x # w, task'[x] # None PROVE InTurn(x)'
  <2>1. task'[x] = task[x] /\ InTurn(x) /\ task[x].veh \in Vehicles
    BY <1>0, <1>2, <1>5, TaskShape DEF Alone, SerialInv
  <2>2. status'[task[x].veh] = status[task[x].veh] /\ fleet'[task[x].veh] = fleet[task[x].veh]
    <3>1. ASSUME NEW f \in Fleets \cup {None}, CreateVehicle(w, v, f)
          PROVE  /\ status'[task[x].veh] = status[task[x].veh]
                 /\ fleet'[task[x].veh] = fleet[task[x].veh]
      <4>1. task[x].veh # v
        BY <1>5, <2>1, <3>1 DEF CreateVehicle, HistoryInv, Untouched, Quiet
      <4>2. QED
        BY <1>0, <2>1, <3>1, <4>1 DEF CreateVehicle, TypeOK
    <3>2. QED
      BY <1>0, <3>1, StartCases DEF Begins
  <2>3. QED
    BY <1>3, <2>1, <2>2 DEF InTurn, Running
<1>6. ASSUME task'[w] # None PROVE InTurn(w)'
  <2>1. ASSUME NEW f \in Fleets \cup {None}, CreateVehicle(w, v, f) PROVE InTurn(w)'
    <3>1. NewTask("create", v, "emit", None, None, {}) \in Task
      BY DEF NewTask, Task, CallNames
    <3>2. task'[w] = NewTask("create", v, "emit", None, None, {})
      BY <1>0, <2>1, <3>1, StartShape DEF CreateVehicle
    <3>3. task'[w].veh = v /\ task'[w].at = "emit" /\ ~deleted'[v]
      BY <1>3, <2>1, <3>2 DEF NewTask, CreateVehicle, HistoryInv, Untouched
    <3>4. QED
      BY <3>3 DEF InTurn, Running
  <2>2. ASSUME NEW call, NEW at, NEW from, NEW to, NEW C,
               Begins(w, v, call, at, from, to, C),
               call = "status" => from = status[v],
               call = "transfer" => from = fleet[v],
               <<call, at>> \notin {<<"assign", "create">>, <<"unpair", "commit">>}
        PROVE  InTurn(w)'
    BY <2>2 DEF Begins, Alive, InTurn, Running
  <2>3. ASSUME NEW p \in {<<"delete", "mark">>, <<"assign", "release">>,
                          <<"remove", "release">>, <<"unpair", "select">>},
               Begins(w, v, p[1], p[2], None, None, {})
        PROVE  InTurn(w)'
    BY <2>2, <2>3
  <2>4. QED
    BY <1>0, <2>1, <2>2, <2>3, StartCases
<1>7. QED
  BY <1>1, <1>4, <1>5, <1>6 DEF SerialInv

\* A code that lapses was not the one that paired the vehicle.
LEMMA SerialExpires ==
    ASSUME TypeInv, SerialInv, NEW v \in Vehicles, NEW c \in Codes, ExpireCode(v, c)
    PROVE  SerialInv'
<1>1. SetCodes(v, {c}, "LAPSED") /\ code[v][c] = "PENDING" /\ TypeOK
      /\ UNCHANGED <<status, deleted, fleet, pairing, drivers, changes, moves, task>>
  BY DEF ExpireCode, TypeInv, history
<1>2. \A u \in Vehicles, d \in Codes : code'[u][d] = "ACTIVE" <=> code[u][d] = "ACTIVE"
  BY <1>1, SetCodesType DEF CodeStatus
<1>3. OneCall'
  BY <1>1 DEF SerialInv, OneCall
<1>4. ASSUME NEW w \in Workers, task'[w] # None PROVE InTurn(w)'
  <2>1. InTurn(w) /\ task[w].veh \in Vehicles
    BY <1>1, <1>4, TaskShape DEF SerialInv
  <2>2. {d \in Codes : code'[task[w].veh][d] = "ACTIVE"}
          = {d \in Codes : code[task[w].veh][d] = "ACTIVE"}
    BY <1>2, <2>1
  <2>3. QED
    BY <1>1, <2>1, <2>2 DEF InTurn, Running
<1>5. ASSUME NEW u \in Vehicles PROVE VehicleInTurn(u)'
  BY <1>1, <1>2 DEF SerialInv, VehicleInTurn, Released, Paired, Running
<1>6. QED
  BY <1>3, <1>4, <1>5 DEF SerialInv

LEMMA SerialStep ==
    ASSUME HistoryInv, PairedInv, SerialInv, Advance, OneBusy
    PROVE  SerialInv'
<1>1. ASSUME NEW w \in Workers, EmitEvent(w) PROVE SerialInv'
  <2>1. PICK v \in Vehicles : task[w].veh = v
    BY <1>1, TaskShape DEF EmitEvent, HistoryInv
  <2>2. TaskStep(w) /\ UNCHANGED <<history, deleted, pairing, drivers, code>>
        /\ Finish(w) /\ task[w].at = "emit"
    BY <1>1 DEF TaskStep, EmitEvent, rows
  <2>3. /\ TypeInv /\ drivers[v] <= 1 /\ Released(v) /\ Paired(v)
        /\ \A x \in Workers : x # w => task[x] = None
    BY <2>1, <2>2, SerialFinds, OnlyCall DEF SerialInv
  <2>4. ~deleted[v] \/ drivers[v] = 0
    BY <2>2, <2>3 DEF Released, Running
  <2>5. Released(v)' /\ Paired(v)' /\ drivers'[v] <= 1
    BY <2>2, <2>3, <2>4 DEF Released, Paired
  <2>6. task'[w] = None
    BY <2>2, <2>3, FinishShape
  <2>7. QED
    BY <2>1, <2>2, <2>5, <2>6, SerialColumns
<1>2. QED
  BY <1>1, SerialBegins, SerialCommits, SerialDrivers, SerialPairing, SerialExpires
     DEF Advance, TaskStep, HistoryInv

\* Apart from deleteVehicle, a step of the status is one of ALLOWED_TRANSITIONS.
LEMMA SerialFollowsMap ==
    ASSUME HistoryInv, SerialInv, [Next]_vars
    PROVE  StatusFollowsMap
<1> SUFFICES ASSUME NEW v \in Vehicles, status'[v] # status[v], status[v] # "ABSENT",
                    deleted[v] \/ ~deleted'[v]
             PROVE  status'[v] \in ALLOWED_TRANSITIONS[status[v]]
  BY DEF StatusFollowsMap
<1>1. TypeInv
  BY DEF HistoryInv
<1>2. ~Same(v) /\ ~Created(v) /\ \A w \in Workers : ~Moved(w, v)
  BY DEF Same, Created, Moved
<1>3. ASSUME NEW w \in Workers, Marked(w, v) PROVE FALSE
  <2>1. ~deleted[v]
    BY <1>3 DEF Marked, Running, SerialInv, InTurn
  <2>2. QED
    BY <1>3, <2>1 DEF Marked
<1>4. PICK w \in Workers : Changed(w, v)
  BY <1>1, <1>2, <1>3, NextRows
<1>5. /\ status'[v] = task[w].to
      /\ task[w].to \in ALLOWED_TRANSITIONS[task[w].from]
      /\ task[w].from = status[v]
  BY <1>4 DEF Changed, Running, HistoryInv, StatusReads, SerialInv, InTurn
<1>6. QED
  BY <1>5

\* Where calls neither overlap nor fail, a vehicle has one driver and none once it is
\* deleted, its pairing columns agree, its history rows join, and its status follows
\* the map: of any number of vehicles, fleets and codes, and calls one after another.
THEOREM SerialCorrect == ServiceSpec => SerialAgrees
<1> DEFINE AloneInv == HistoryInv /\ PairedInv /\ (alone => SerialInv)
<1>1. Init => AloneInv
  BY HistoryInit, PairedInit, SerialInit
<1>2. [ServiceNext]_<<vars, alone>> => [Next]_vars /\ alone' = alone
  BY DEF ServiceNext, Next
<1>3. AloneInv /\ [ServiceNext]_<<vars, alone>> => AloneInv'
  <2> SUFFICES ASSUME AloneInv, [ServiceNext]_<<vars, alone>> PROVE AloneInv'
    OBVIOUS
  <2>1. HistoryInv' /\ PairedInv'
    BY <1>2, HistoryStep, PairedStep
  <2>2. CASE alone /\ Advance /\ OneBusy
    BY <1>2, <2>1, <2>2, SerialStep
  <2>3. CASE UNCHANGED <<vars, alone>>
    BY <2>1, <2>3
       DEF vars, rows, history, SerialInv, OneCall, InTurn, VehicleInTurn, Released, Paired,
           Chained, Running
  <2>4. QED
    BY <1>2, <2>1, <2>2, <2>3 DEF ServiceNext
<1>4. SerialInv => OneActiveDriver /\ DeletedHasNoDriver /\ PairingAgrees /\ HistoryIsChain
  BY DEF SerialInv, VehicleInTurn, Released, Paired, Chained, Running, Quiet,
         OneActiveDriver, DeletedHasNoDriver, PairingAgrees, HistoryIsChain
<1>5. (SerialInv => OneActiveDriver /\ DeletedHasNoDriver /\ PairingAgrees /\ HistoryIsChain)'
  BY <1>4, PTL
<1>6. AloneInv /\ AloneInv' /\ [ServiceNext]_<<vars, alone>> =>
        [alone => /\ OneActiveDriver' /\ DeletedHasNoDriver' /\ PairingAgrees'
                  /\ HistoryIsChain'
                  /\ StatusFollowsMap]_vars
  BY <1>2, <1>5, SerialFollowsMap
<1> HIDE DEF AloneInv
<1>7. QED
  BY <1>1, <1>3, <1>6, PTL DEF ServiceSpec, SerialAgrees
=============================================================================
