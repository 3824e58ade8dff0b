------------------------------- MODULE Reports -------------------------------
(***************************************************************************)
(* The reporting service: apps/reporting-service.  createReport writes a   *)
(* row, gathers the data, and then writes row, MongoDB and Kafka one after *)
(* the other; the daily job makes one finished report for each schedule.   *)
(***************************************************************************)
EXTENDS Calls, Sequences

CONSTANTS
    Rows,       \* bound: the reports there can be
    Schedules   \* bound: the report_schedules there can be

ReportsAssumption == MayFail \in BOOLEAN /\ None \notin Rows

VARIABLES
    report,     \* reports: the status of each row
    cachedData, \* MongoDB: the reports whose data is kept
    schedules,  \* report_schedules, each of them active
    announced   \* vis.report.generated

vars == <<task, report, cachedData, schedules, announced>>

ReportStatus == {"PENDING", "PROCESSING", "COMPLETED", "FAILED"}

\* row: of this call; todo: the schedules the job has still to look at
Task == [at : {"gather", "complete", "cache", "tell", "remove", "daily", "file", "tellDaily"},
         row : Rows \cup {None}, todo : SUBSET Schedules]

TypeOK ==
    /\ task \in [Workers -> Task \cup {None}]
    /\ report \in [Rows -> ReportStatus \cup {"ABSENT", "DELETED"}]
    /\ cachedData \subseteq Rows
    /\ schedules \subseteq Schedules
    /\ announced \in Seq(Rows)

Init ==
    /\ CallsInit
    /\ report = [r \in Rows |-> "ABSENT"]
    /\ cachedData = {} /\ schedules = {} /\ announced = <<>>

NewTask(at, r, S) == [at |-> at, row |-> r, todo |-> S]
SetReport(r, st) == report' = [report EXCEPT ![r] = st]
Row(w) == task[w].row
Exists(r) == report[r] \notin {"ABSENT", "DELETED"}

-----------------------------------------------------------------------------
\* createReport

CreateReport(w, r) ==
    /\ report[r] = "ABSENT"
    /\ SetReport(r, "PROCESSING")
    /\ Begin(w, NewTask("gather", r, {}))
    /\ UNCHANGED <<cachedData, schedules, announced>>

GatherData(w) ==
    /\ Running(w, "gather")
    /\ Continue(w, "complete")
    /\ UNCHANGED <<report, cachedData, schedules, announced>>

\* The update of a row that deleteReport has deleted rejects.
\* Mutant: it does not, as updateMany would not
Completes_Any(r) == TRUE
Completes(r) == Exists(r)

CompleteReport(w) ==
    /\ Running(w, "complete")
    /\ IF Completes(Row(w))
       THEN SetReport(Row(w), "COMPLETED") /\ Continue(w, "cache")
       ELSE Finish(w) /\ UNCHANGED report
    /\ UNCHANGED <<cachedData, schedules, announced>>

CacheData(w) ==
    /\ Running(w, "cache")
    /\ cachedData' = cachedData \cup {Row(w)}
    /\ Continue(w, "tell")
    /\ UNCHANGED <<report, schedules, announced>>

AnnounceReport(w) ==
    /\ Running(w, "tell")
    /\ announced' = Append(announced, Row(w))
    /\ Finish(w)
    /\ UNCHANGED <<report, cachedData, schedules>>

-----------------------------------------------------------------------------
\* deleteReport

StartDelete(w, r) ==
    /\ Exists(r)
    /\ Begin(w, NewTask("remove", r, {}))
    /\ UNCHANGED <<report, cachedData, schedules, announced>>

\* Its data stays in MongoDB.
DeleteReport(w) ==
    /\ Running(w, "remove")
    /\ SetReport(Row(w), "DELETED")
    /\ Finish(w)
    /\ UNCHANGED <<cachedData, schedules, announced>>

-----------------------------------------------------------------------------
\* scheduleReport, and processScheduledDailyReports

ScheduleReport(s) ==
    /\ s \notin schedules
    /\ schedules' = schedules \cup {s}
    /\ UNCHANGED <<task, report, cachedData, announced>>

\* Each replica of the service runs the job, without a lock.
StartDaily(w) ==
    /\ schedules # {}
    /\ Begin(w, NewTask("file", None, schedules))
    /\ UNCHANGED <<report, cachedData, schedules, announced>>

\* What follows when those of S are left
GoOn(w, S) ==
    IF S = {} THEN Finish(w) ELSE task' = [task EXCEPT ![w] = NewTask("file", None, S)]

FileReport(w, s, r) ==
    /\ Running(w, "file")
    /\ s \in task[w].todo
    /\ report[r] = "ABSENT"
    /\ SetReport(r, "COMPLETED")
    /\ task' = [task EXCEPT ![w] = NewTask("tellDaily", r, task[w].todo \ {s})]
    /\ UNCHANGED <<cachedData, schedules, announced>>

AnnounceDaily(w) ==
    /\ Running(w, "tellDaily")
    /\ announced' = Append(announced, Row(w))
    /\ GoOn(w, task[w].todo)
    /\ UNCHANGED <<report, cachedData, schedules>>

\* A schedule that fails is caught, and the job goes on with the next.
SkipSchedule(w) ==
    /\ MayFail
    /\ \/ \E s \in Schedules : Running(w, "file") /\ s \in task[w].todo
                               /\ GoOn(w, task[w].todo \ {s})
       \/ Running(w, "tellDaily") /\ GoOn(w, task[w].todo)
    /\ UNCHANGED <<report, cachedData, schedules, announced>>

Reject(w) == Abandon(w) /\ UNCHANGED <<report, cachedData, schedules, announced>>

Call(w) ==
    \/ \E r \in Rows : CreateReport(w, r) \/ StartDelete(w, r)
    \/ GatherData(w) \/ CompleteReport(w) \/ CacheData(w) \/ AnnounceReport(w)
    \/ DeleteReport(w)

Daily(w) ==
    \/ StartDaily(w)
    \/ \E s \in Schedules, r \in Rows : FileReport(w, s, r)
    \/ AnnounceDaily(w)

Next ==
    \/ \E w \in Workers : Call(w) \/ Daily(w) \/ SkipSchedule(w) \/ Reject(w)
    \/ \E s \in Schedules : ScheduleReport(s)

Spec == Init /\ [][Next]_vars
-----------------------------------------------------------------------------
\* However calls overlap and fail: a report is announced once, after it was
\* completed, and one that is deleted while it is made is never announced.
ReportIsFiled ==
    /\ \A i, j \in DOMAIN announced : announced[i] = announced[j] => i = j
    /\ \A r \in Rows : (\E i \in DOMAIN announced : announced[i] = r) \/ r \in cachedData =>
          report[r] \in {"COMPLETED", "DELETED"}

\* Without a failure: when nothing is running, no report is left PROCESSING.  (One
\* whose call has failed stays so: no code sets FAILED.)
ReportsAreDone == Quiet => \A r \in Rows : report[r] # "PROCESSING"

\* Of each step: a report deleted, if only while it is made, stays so.
DeletedStays == \A r \in Rows : report[r] = "DELETED" => report'[r] = "DELETED"
=============================================================================
