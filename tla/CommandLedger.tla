--------------------------- MODULE CommandLedger ---------------------------
(***************************************************************************)
(* What the remote command service promises about a command, however its   *)
(* requests and handlers interleave: each status it shows rests on a fact  *)
(* that cannot be taken back.  A command is published at most once, and    *)
(* only after it was recorded; SENT means it was published; ACKNOWLEDGED,  *)
(* COMPLETED and FAILED that its vehicle reported so; TIMED_OUT that the   *)
(* retries were used up.  It does not promise that a status is final.      *)
(***************************************************************************)
EXTENDS Integers

CONSTANTS Commands, MaxRetries

VARIABLES status, retryCount, published, reports

vars == <<status, retryCount, published, reports>>

Init ==
    /\ status = [c \in Commands |-> "ABSENT"]
    /\ retryCount = [c \in Commands |-> 0]
    /\ published = {}
    /\ reports = {}

SetStatus(c, st) == status' = [status EXCEPT ![c] = st]

Recorded(c) == status[c] # "ABSENT"

\* The command is recorded, or queued again, before it goes out.
Record(c) ==
    /\ ~Recorded(c)
    /\ SetStatus(c, "PENDING")
    /\ UNCHANGED <<retryCount, published, reports>>

Enqueue(c) ==
    /\ Recorded(c)
    /\ c \notin published
    /\ SetStatus(c, "QUEUED")
    /\ UNCHANGED <<retryCount, published, reports>>

Send(c) ==
    /\ status[c] \notin {"ABSENT", "PENDING"}
    /\ c \notin published
    /\ published' = published \cup {c}
    /\ UNCHANGED <<status, retryCount, reports>>

ConfirmSent(c) ==
    /\ c \in published
    /\ SetStatus(c, "SENT")
    /\ UNCHANGED <<retryCount, published, reports>>

Answer(c, r) ==
    /\ c \in published
    /\ reports' = reports \cup {<<c, r>>}
    /\ UNCHANGED <<status, retryCount, published>>

RecordAnswer(c, r) ==
    /\ <<c, r>> \in reports
    /\ SetStatus(c, r)
    /\ UNCHANGED <<retryCount, published, reports>>

Cancel(c) ==
    /\ Recorded(c)
    /\ SetStatus(c, "CANCELLED")
    /\ UNCHANGED <<retryCount, published, reports>>

Retry(c) ==
    /\ Recorded(c)
    /\ SetStatus(c, "QUEUED")
    /\ retryCount' = [retryCount EXCEPT ![c] = @ + 1]
    /\ UNCHANGED <<published, reports>>

DeadLetter(c) ==
    /\ Recorded(c)
    /\ retryCount[c] >= MaxRetries
    /\ SetStatus(c, "TIMED_OUT")
    /\ UNCHANGED <<retryCount, published, reports>>

Next ==
    \E c \in Commands :
        \/ Record(c) \/ Enqueue(c) \/ Send(c) \/ ConfirmSent(c)
        \/ Cancel(c) \/ Retry(c) \/ DeadLetter(c)
        \/ \E r \in {"ACKNOWLEDGED", "COMPLETED", "FAILED"} :
              Answer(c, r) \/ RecordAnswer(c, r)

Spec == Init /\ [][Next]_vars
=============================================================================
