---------------------------- MODULE SignalsProofs ----------------------------
(***************************************************************************)
(* Theorems about Signals, for every number of workers, messages, fences,  *)
(* codes, drivers and alerts.  A part for each of the five services: what  *)
(* holds however its calls overlap and fail, then what holds where each    *)
(* takes one message at a time, in order, and nothing fails.  The last     *)
(* part puts them together.  Cardinalities are those of this module, which *)
(* the instances' own equal.                                               *)
(***************************************************************************)
EXTENDS Signals, LocationProofs, FiniteSetTheorems
-----------------------------------------------------------------------------
\* Counting

\* The instances count as FiniteSets does.
LEMMA SameCount ==
    /\ \A S : D!IsFiniteSet(S) <=> IsFiniteSet(S)
    /\ \A S : B!IsFiniteSet(S) <=> IsFiniteSet(S)
    /\ \A S : D!Cardinality(S) = Cardinality(S)
    /\ \A S : N!Cardinality(S) = Cardinality(S)
  BY DEF D!IsFiniteSet, B!IsFiniteSet, IsFiniteSet, D!Cardinality, N!Cardinality, Cardinality

LEMMA FewWorkers == IsFiniteSet(Workers)
  BY SignalsAssumption, SameCount DEF D!DiagnosticsAssumption

\* Where only w comes or goes, a set of workers differs from what it was by w.
LEMMA OthersStay ==
    ASSUME NEW S \in SUBSET Workers, NEW U \in SUBSET Workers, NEW w, S \ {w} = U \ {w}
    PROVE  \E n \in Nat : /\ Cardinality(S) = IF w \in S THEN n + 1 ELSE n
                          /\ Cardinality(U) = IF w \in U THEN n + 1 ELSE n
<1>1. IsFiniteSet(Workers)
  BY FewWorkers
<1>2. IsFiniteSet(S) /\ IsFiniteSet(U)
  BY <1>1, FS_Subset
<1>3. /\ Cardinality(S) \in Nat /\ Cardinality(U) \in Nat /\ Cardinality(S \ {w}) \in Nat
      /\ Cardinality(S \ {w}) = IF w \in S THEN Cardinality(S) - 1 ELSE Cardinality(S)
      /\ Cardinality(S \ {w}) = IF w \in U THEN Cardinality(U) - 1 ELSE Cardinality(U)
  BY <1>2, FS_CardinalityType, FS_RemoveElement
<1>4. QED
  BY <1>3

\* A set of workers is counted, and smaller sets are smaller.
LEMMA WorkersCount ==
    ASSUME NEW S \in SUBSET Workers, NEW U \in SUBSET S
    PROVE  /\ Cardinality(S) \in Nat /\ Cardinality(U) \in Nat /\ Cardinality(Workers) \in Nat
           /\ Cardinality(U) <= Cardinality(S) /\ Cardinality(S) <= Cardinality(Workers)
<1>1. IsFiniteSet(Workers)
  BY FewWorkers
<1>2. IsFiniteSet(S) /\ IsFiniteSet(U)
  BY <1>1, FS_Subset
<1>3. QED
  BY <1>1, <1>2, FS_Subset, FS_CardinalityType


\* Behind its first statement, the message of a call is stored.
TelemetryTaskInv ==
    \A w \in Workers : telemetryTask[w] # None /\ telemetryTask[w].at # "store" =>
        doc[telemetryTask[w].msg] # "ABSENT"

TelemetryInv == T!TypeOK /\ TelemetryTaskInv /\ T!ProcessedIsStored

LEMMA TelemetryTaskType ==
    ASSUME T!TypeOK, NEW w \in Workers, telemetryTask[w] # None
    PROVE  telemetryTask[w] \in T!Task
  BY DEF T!TypeOK

LEMMA TelemetryContinueType ==
    ASSUME T!TypeOK, NEW w \in Workers, telemetryTask[w] # None,
           NEW at \in {"store", "odometer", "cache", "emit", "fill"}, T!Continue(w, at)
    PROVE  /\ telemetryTask' \in [Workers -> T!Task \cup {None}]
           /\ telemetryTask'[w].at = at /\ telemetryTask'[w].msg = telemetryTask[w].msg
           /\ telemetryTask'[w].read = telemetryTask[w].read
           /\ \A x \in Workers : x # w => telemetryTask'[x] = telemetryTask[x]
<1>1. telemetryTask[w] \in T!Task /\ telemetryTask \in [Workers -> T!Task \cup {None}]
  BY TelemetryTaskType DEF T!TypeOK
<1>2. [telemetryTask[w] EXCEPT !.at = at] \in T!Task
  BY <1>1 DEF T!Task
<1>3. QED
  BY <1>1, <1>2 DEF T!Continue, T!Task

LEMMA TelemetryFinishType ==
    ASSUME T!TypeOK, NEW w \in Workers, T!Finish(w)
    PROVE  /\ telemetryTask' \in [Workers -> T!Task \cup {None}]
           /\ telemetryTask'[w] = None
           /\ \A x \in Workers : x # w => telemetryTask'[x] = telemetryTask[x]
  BY DEF T!TypeOK, T!Finish

LEMMA TelemetryInvInit == T!Init => TelemetryInv
  BY SignalsAssumption
     DEF T!Init, TelemetryInv, T!TypeOK, TelemetryTaskInv, T!ProcessedIsStored, T!TelemetryAssumption

\* A call that begins has stored nothing, or serves what is stored.
LEMMA TelemetryStartStep ==
    ASSUME TelemetryInv, NEW w \in Workers, NEW t \in T!Task, T!Start(w, t),
           t.at # "store" => doc[t.msg] # "ABSENT"
    PROVE  TelemetryInv'
<1>1. telemetryTask' \in [Workers -> T!Task \cup {None}] /\ telemetryTask'[w] = t
      /\ \A x \in Workers : x # w => telemetryTask'[x] = telemetryTask[x]
  BY DEF TelemetryInv, T!TypeOK, T!Start
<1>2. QED
  BY <1>1 DEF TelemetryInv, T!TypeOK, TelemetryTaskInv, T!ProcessedIsStored, T!Start

LEMMA TelemetryIngestStep ==
    ASSUME TelemetryInv, NEW w \in Workers, T!Ingest(w)
    PROVE  TelemetryInv'
<1>0. T!TypeOK /\ T!TelemetryAssumption /\ None \notin T!Task
  BY SignalsAssumption, PlaceholderAssumption DEF TelemetryInv
<1>1. ASSUME NEW m \in Messages, T!StartIngest(w, m) PROVE TelemetryInv'
  <2>1. [at |-> "store", msg |-> m, read |-> odometer] \in T!Task
    BY <1>0 DEF T!Task, T!TypeOK
  <2>2. QED
    BY <1>1, <2>1, TelemetryStartStep DEF T!StartIngest
<1>2. ASSUME T!Store(w) PROVE TelemetryInv'
  <2>1. telemetryTask[w] \in T!Task /\ telemetryTask[w].msg \in Messages
    BY <1>0, <1>2, TelemetryTaskType DEF T!Store, T!Running, T!Task
  <2>2. /\ doc' \in [Messages -> {"ABSENT", "STORED", "DELETED"}]
        /\ doc'[telemetryTask[w].msg] = "STORED"
        /\ \A m \in Messages : doc[m] # "ABSENT" => doc'[m] # "ABSENT"
    BY <1>0, <1>2, <2>1 DEF T!Store, T!TypeOK
  <2>3. PICK at \in {"odometer", "cache"} : T!Continue(w, at)
    BY <1>2 DEF T!Store
  <2>4. /\ telemetryTask' \in [Workers -> T!Task \cup {None}]
        /\ telemetryTask'[w].msg = telemetryTask[w].msg
        /\ \A x \in Workers : x # w => telemetryTask'[x] = telemetryTask[x]
    BY <1>0, <1>2, <2>3, TelemetryContinueType DEF T!Store, T!Running
  <2>5. \A x \in Workers : telemetryTask[x] # None => telemetryTask[x].msg \in Messages
    BY <1>0, TelemetryTaskType DEF T!Task
  <2>6. TelemetryTaskInv'
    BY <2>2, <2>4, <2>5 DEF TelemetryInv, TelemetryTaskInv
  <2>7. T!ProcessedIsStored'
    BY <1>0, <1>2, <2>2 DEF TelemetryInv, T!ProcessedIsStored, T!TypeOK, T!Store
  <2>8. claims' \subseteq Nat
    BY <1>0, <1>2, <2>1 DEF T!Store, T!TypeOK, T!TelemetryAssumption
  <2>9. QED
    BY <1>0, <1>2, <2>2, <2>4, <2>6, <2>7, <2>8 DEF TelemetryInv, T!TypeOK, T!Store
<1>3. ASSUME T!WriteOdometer(w) PROVE TelemetryInv'
  <2>1. /\ telemetryTask[w].msg \in Messages /\ doc[telemetryTask[w].msg] # "ABSENT"
        /\ OdoOf[telemetryTask[w].msg] \in Nat
    BY <1>0, <1>3, TelemetryTaskType DEF T!WriteOdometer, T!Running, T!Task, TelemetryInv,
           TelemetryTaskInv, T!TelemetryAssumption
  <2>2. /\ telemetryTask' \in [Workers -> T!Task \cup {None}]
        /\ telemetryTask'[w].msg = telemetryTask[w].msg
        /\ \A x \in Workers : x # w => telemetryTask'[x] = telemetryTask[x]
    BY <1>0, <1>3, TelemetryContinueType DEF T!WriteOdometer, T!Running
  <2>3. TelemetryTaskInv'
    BY <1>3, <2>1, <2>2 DEF TelemetryInv, TelemetryTaskInv, T!WriteOdometer
  <2>4. T!ProcessedIsStored'
    BY <1>3, <2>1 DEF TelemetryInv, T!ProcessedIsStored, T!WriteOdometer, T!NewOdometer
  <2>5. QED
    BY <1>0, <1>3, <2>1, <2>2, <2>3, <2>4
       DEF TelemetryInv, T!TypeOK, T!WriteOdometer, T!NewOdometer
<1>4. ASSUME T!CacheLatest(w) PROVE TelemetryInv'
  <2>1. telemetryTask[w].msg \in Messages /\ doc[telemetryTask[w].msg] # "ABSENT"
    BY <1>0, <1>4, TelemetryTaskType
       DEF T!CacheLatest, T!Running, T!Task, TelemetryInv, TelemetryTaskInv
  <2>2. /\ telemetryTask' \in [Workers -> T!Task \cup {None}]
        /\ telemetryTask'[w].msg = telemetryTask[w].msg
        /\ \A x \in Workers : x # w => telemetryTask'[x] = telemetryTask[x]
    BY <1>0, <1>4, TelemetryContinueType DEF T!CacheLatest, T!Running
  <2>3. TelemetryTaskInv'
    BY <1>4, <2>1, <2>2 DEF TelemetryInv, TelemetryTaskInv, T!CacheLatest
  <2>4. T!ProcessedIsStored'
    BY <1>4, <2>1 DEF TelemetryInv, T!ProcessedIsStored, T!CacheLatest
  <2>5. QED
    BY <1>0, <1>4, <2>1, <2>2, <2>3, <2>4 DEF TelemetryInv, T!TypeOK, T!CacheLatest
<1>5. ASSUME T!EmitProcessed(w) PROVE TelemetryInv'
  <2>1. telemetryTask[w].msg \in Messages /\ doc[telemetryTask[w].msg] # "ABSENT"
    BY <1>0, <1>5, TelemetryTaskType
       DEF T!EmitProcessed, T!Running, T!Task, TelemetryInv, TelemetryTaskInv
  <2>2. /\ telemetryTask' \in [Workers -> T!Task \cup {None}] /\ telemetryTask'[w] = None
        /\ \A x \in Workers : x # w => telemetryTask'[x] = telemetryTask[x]
    BY <1>0, <1>5, TelemetryFinishType DEF T!EmitProcessed
  <2>3. TelemetryTaskInv'
    BY <1>5, <2>2 DEF TelemetryInv, TelemetryTaskInv, T!EmitProcessed
  <2>4. inbox' \in Seq(Messages)
        /\ \A i \in DOMAIN inbox' :
              \/ inbox'[i] = telemetryTask[w].msg
              \/ (i \in DOMAIN inbox /\ inbox'[i] = inbox[i])
    BY <1>0, <1>5, <2>1 DEF T!EmitProcessed, T!TypeOK
  <2>5. T!ProcessedIsStored'
    BY <1>5, <2>1, <2>4 DEF TelemetryInv, T!ProcessedIsStored, T!EmitProcessed
  <2>6. QED
    BY <1>0, <1>5, <2>2, <2>3, <2>4, <2>5 DEF TelemetryInv, T!TypeOK, T!EmitProcessed
<1>6. QED
  BY <1>1, <1>2, <1>3, <1>4, <1>5 DEF T!Ingest

LEMMA TelemetryServeStep ==
    ASSUME TelemetryInv, NEW w \in Workers, T!Serve(w)
    PROVE  TelemetryInv'
<1>0. T!TypeOK /\ None \notin T!Task
  BY PlaceholderAssumption DEF TelemetryInv
<1>1. ASSUME T!StartLatest(w) PROVE TelemetryInv'
  <2>1. PICK m \in T!Stored : T!Start(w, [at |-> "fill", msg |-> m, read |-> 0])
    BY <1>1 DEF T!StartLatest
  <2>2. m \in Messages /\ doc[m] # "ABSENT"
    BY <2>1 DEF T!Stored
  <2>3. [at |-> "fill", msg |-> m, read |-> 0] \in T!Task
    BY <2>2 DEF T!Task
  <2>4. QED
    BY <2>1, <2>2, <2>3, TelemetryStartStep
<1>2. ASSUME T!FillLatest(w) PROVE TelemetryInv'
  <2>1. telemetryTask[w].msg \in Messages /\ doc[telemetryTask[w].msg] # "ABSENT"
    BY <1>0, <1>2, TelemetryTaskType
       DEF T!FillLatest, T!Running, T!Task, TelemetryInv, TelemetryTaskInv
  <2>2. /\ telemetryTask' \in [Workers -> T!Task \cup {None}] /\ telemetryTask'[w] = None
        /\ \A x \in Workers : x # w => telemetryTask'[x] = telemetryTask[x]
    BY <1>0, <1>2, TelemetryFinishType DEF T!FillLatest
  <2>3. TelemetryTaskInv'
    BY <1>2, <2>2 DEF TelemetryInv, TelemetryTaskInv, T!FillLatest
  <2>4. QED
    BY <1>0, <1>2, <2>1, <2>2, <2>3
       DEF TelemetryInv, T!TypeOK, T!ProcessedIsStored, T!FillLatest
<1>3. QED
  BY <1>1, <1>2 DEF T!Serve

LEMMA TelemetryInvStep == TelemetryInv /\ [T!Next]_(T!vars) => TelemetryInv'
<1> SUFFICES ASSUME TelemetryInv, [T!Next]_(T!vars) PROVE TelemetryInv'
  OBVIOUS
<1>0. T!TypeOK /\ None \notin T!Task
  BY PlaceholderAssumption DEF TelemetryInv
<1>1. ASSUME NEW w \in Workers, T!Reject(w) PROVE TelemetryInv'
  <2>1. /\ telemetryTask' \in [Workers -> T!Task \cup {None}] /\ telemetryTask'[w] = None
        /\ \A x \in Workers : x # w => telemetryTask'[x] = telemetryTask[x]
    BY <1>0, <1>1, TelemetryFinishType DEF T!Reject
  <2>2. QED
    BY <1>0, <1>1, <2>1
       DEF TelemetryInv, T!TypeOK, TelemetryTaskInv, T!ProcessedIsStored, T!Reject
<1>2. ASSUME NEW m \in Messages, T!DeleteTelemetry(m) PROVE TelemetryInv'
  <2>1. /\ doc' \in [Messages -> {"ABSENT", "STORED", "DELETED"}]
        /\ \A n \in Messages : doc[n] # "ABSENT" => doc'[n] # "ABSENT"
    BY <1>0, <1>2 DEF T!DeleteTelemetry, T!TypeOK
  <2>2. \A x \in Workers : telemetryTask[x] # None => telemetryTask[x].msg \in Messages
    BY <1>0, TelemetryTaskType DEF T!Task
  <2>3. QED
    BY <1>0, <1>2, <2>1, <2>2
       DEF TelemetryInv, T!TypeOK, TelemetryTaskInv, T!ProcessedIsStored, T!DeleteTelemetry
<1>3. ASSUME NEW n \in Odometers, T!UpdateVehicle(n) PROVE TelemetryInv'
  BY <1>0, <1>3, SignalsAssumption DEF TelemetryInv, T!TypeOK, TelemetryTaskInv,
         T!ProcessedIsStored, T!UpdateVehicle, T!TelemetryAssumption
<1>4. CASE T!ExpireLatest \/ T!DeleteVehicle \/ UNCHANGED T!vars
  BY <1>0, <1>4 DEF TelemetryInv, T!TypeOK, TelemetryTaskInv, T!ProcessedIsStored,
         T!ExpireLatest, T!DeleteVehicle, T!vars
<1>5. QED
  BY <1>1, <1>2, <1>3, <1>4, TelemetryIngestStep, TelemetryServeStep DEF T!Next

\* However messages and updates of the vehicle overlap and fail: what Redis or
\* vis.telemetry.processed tells is in MongoDB or was, and the odometer is the one
\* entered last or one that a stored message reported.
THEOREM TelemetryStoredCorrect == T!Spec => []T!ProcessedIsStored
<1>1. TelemetryInv => T!ProcessedIsStored
  BY DEF TelemetryInv
<1>2. QED
  BY <1>1, TelemetryInvInit, TelemetryInvStep, PTL DEF T!Spec

-----------------------------------------------------------------------------
\* The diagnostics service

DiagnosticsAlone(w) == \A x \in Workers \ {w} : diagnosticsTask'[x] = diagnosticsTask[x]

DiagnosticsStages == {"detect", "write", "log", "tell", "score", "cache", "advise", "emit"}

\* What was announced on vis.telemetry.processed
Sent(m) == \E i \in DOMAIN inbox : inbox[i] = m

\* A call handles a message of the topic, has rules left while it handles one, and
\* knows only of rows there are.
DiagnosticsTold(w) ==
    diagnosticsTask[w] # None =>
        /\ Sent(diagnosticsTask[w].pos)
        /\ diagnosticsTask[w].at \in {"detect", "write", "log", "tell"} =>
              Len(diagnosticsTask[w].left) # 0
        /\ D!Running(w, "write") /\ diagnosticsTask[w].row # 0 =>
              diagnosticsTask[w].row \in DOMAIN dtc[D!Code(w)]
        /\ diagnosticsTask[w].seen \subseteq D!ActiveRows

\* The workers that are about to add a row of a code, to log and to announce it
Adding(c) == {w \in Workers : D!Running(w, "write") /\ D!Code(w) = c
                                /\ diagnosticsTask[w].row = 0}
Logging(c) == {w \in Workers : D!Running(w, "log") /\ D!Code(w) = c}
Telling(c) == {w \in Workers : D!Running(w, "tell") /\ D!Code(w) = c}

\* Each of those has made room for what it is about to do.
CodeIsCounted(c) ==
    /\ IsFiniteSet(D!Occurrences(c))
    /\ Len(dtc[c]) + Cardinality(Adding(c)) <= Cardinality(Workers)
    /\ logged[c] + Cardinality(Logging(c)) <= Cardinality(D!Occurrences(c))
    /\ told[c] + Cardinality(Telling(c)) <= logged[c]

DiagnosticsInv ==
    /\ D!TypeOK
    /\ \A w \in Workers : DiagnosticsTold(w)
    /\ \A c \in Codes : CodeIsCounted(c)
    /\ D!HealthIsGrounded
    /\ \A m \in advised : Sent(m)

LEMMA DiagnosticsTaskType ==
    ASSUME D!TypeOK, NEW w \in Workers, diagnosticsTask[w] # None
    PROVE  /\ diagnosticsTask[w] \in D!Task
           /\ Len(diagnosticsTask[w].left) # 0 =>
                 /\ D!Code(w) \in Codes
                 /\ Tail(diagnosticsTask[w].left) \in Seq(Codes)
                 /\ Len(Tail(diagnosticsTask[w].left)) = Len(diagnosticsTask[w].left) - 1
<1>1. diagnosticsTask[w] \in D!Task
  BY DEF D!TypeOK
<1>2. diagnosticsTask[w].left \in Seq(Codes)
  BY <1>1 DEF D!Task
<1>3. QED
  BY <1>1, <1>2 DEF D!Code

LEMMA DiagnosticsBecomes ==
    ASSUME D!TypeOK, NEW w \in Workers, NEW t \in D!Task,
           diagnosticsTask' = [diagnosticsTask EXCEPT ![w] = t]
    PROVE  /\ diagnosticsTask' \in [Workers -> D!Task \cup {None}]
           /\ diagnosticsTask'[w] = t /\ diagnosticsTask'[w] # None /\ DiagnosticsAlone(w)
  BY PlaceholderAssumption DEF D!TypeOK, DiagnosticsAlone

LEMMA DiagnosticsContinues ==
    ASSUME D!TypeOK, NEW w \in Workers, diagnosticsTask[w] # None,
           NEW at \in DiagnosticsStages, D!Continue(w, at)
    PROVE  /\ diagnosticsTask' \in [Workers -> D!Task \cup {None}]
           /\ diagnosticsTask'[w] # None /\ DiagnosticsAlone(w)
           /\ diagnosticsTask'[w] = [diagnosticsTask[w] EXCEPT !.at = at]
           /\ diagnosticsTask'[w].at = at /\ diagnosticsTask'[w].pos = diagnosticsTask[w].pos
           /\ diagnosticsTask'[w].left = diagnosticsTask[w].left
           /\ diagnosticsTask'[w].row = diagnosticsTask[w].row
           /\ diagnosticsTask'[w].seen = diagnosticsTask[w].seen
<1> DEFINE t == [diagnosticsTask[w] EXCEPT !.at = at]
<1>1. diagnosticsTask[w] \in D!Task
  BY DiagnosticsTaskType
<1>2. /\ t \in D!Task /\ t.at = at /\ t.pos = diagnosticsTask[w].pos
      /\ t.left = diagnosticsTask[w].left /\ t.row = diagnosticsTask[w].row
      /\ t.seen = diagnosticsTask[w].seen
  BY <1>1 DEF D!Task, DiagnosticsStages
<1>3. diagnosticsTask' = [diagnosticsTask EXCEPT ![w] = t]
  BY DEF D!Continue
<1>4. QED
  <2> HIDE DEF t
  <2>1. /\ diagnosticsTask' \in [Workers -> D!Task \cup {None}]
        /\ diagnosticsTask'[w] = t /\ diagnosticsTask'[w] # None /\ DiagnosticsAlone(w)
    BY <1>2, <1>3, DiagnosticsBecomes
  <2>2. QED
    BY <1>2, <2>1 DEF t

LEMMA DiagnosticsFinishes ==
    ASSUME D!TypeOK, NEW w \in Workers, D!Finish(w)
    PROVE  /\ diagnosticsTask' \in [Workers -> D!Task \cup {None}]
           /\ diagnosticsTask'[w] = None /\ DiagnosticsAlone(w)
  BY DEF D!TypeOK, D!Finish, DiagnosticsAlone

LEMMA DiagnosticsInvInit == D!Init => DiagnosticsInv
<1> SUFFICES ASSUME D!Init PROVE DiagnosticsInv
  OBVIOUS
<1>1. D!TypeOK
  BY DEF D!Init, D!DeliveryInit, D!TypeOK
<1>2. \A w \in Workers : DiagnosticsTold(w)
  BY DEF D!Init, D!DeliveryInit, DiagnosticsTold
<1>3. ASSUME NEW c \in Codes PROVE CodeIsCounted(c)
  <2>1. /\ dtc[c] = <<>> /\ logged[c] = 0 /\ told[c] = 0
        /\ Adding(c) = {} /\ Logging(c) = {} /\ Telling(c) = {}
    BY DEF D!Init, D!DeliveryInit, Adding, Logging, Telling, D!Running
  <2>2. D!Occurrences(c) = {}
    BY <2>1 DEF D!Occurrences
  <2>3. Cardinality(Workers) \in Nat
    BY WorkersCount
  <2>4. QED
    BY <2>1, <2>2, <2>3, FS_EmptySet DEF CodeIsCounted
<1>4. D!HealthIsGrounded /\ advised = {}
  BY DEF D!Init, D!HealthIsGrounded
<1>5. QED
  BY <1>1, <1>2, <1>3, <1>4 DEF DiagnosticsInv

\* No row is ever taken back, nor a message.
DiagnosticsGrows ==
    /\ \A c \in Codes : DOMAIN dtc[c] \subseteq DOMAIN dtc'[c]
    /\ \A i \in DOMAIN inbox : i \in DOMAIN inbox' /\ inbox'[i] = inbox[i]

LEMMA RowsStay ==
    ASSUME DiagnosticsGrows
    PROVE  D!ActiveRows \subseteq D!ActiveRows' /\ \A m : Sent(m) => Sent(m)'
  BY DEF DiagnosticsGrows, D!ActiveRows, Sent

\* The other workers still know of rows there are.
LEMMA OthersToldStay ==
    ASSUME DiagnosticsInv, DiagnosticsGrows, NEW w \in Workers, DiagnosticsAlone(w),
           DiagnosticsTold(w)'
    PROVE  \A x \in Workers : DiagnosticsTold(x)'
<1> SUFFICES ASSUME NEW x \in Workers, x # w PROVE DiagnosticsTold(x)'
  OBVIOUS
<1>1. diagnosticsTask'[x] = diagnosticsTask[x] /\ DiagnosticsTold(x) /\ D!Code(x)' = D!Code(x)
  BY DEF DiagnosticsAlone, DiagnosticsInv, D!Code
<1>2. diagnosticsTask[x] # None /\ Len(diagnosticsTask[x].left) # 0 => D!Code(x) \in Codes
  BY DiagnosticsTaskType DEF DiagnosticsInv
<1>3. D!ActiveRows \subseteq D!ActiveRows' /\ \A m : Sent(m) => Sent(m)'
  BY RowsStay
<1>4. QED
  BY <1>1, <1>2, <1>3 DEF DiagnosticsTold, DiagnosticsGrows, D!Running

\* A step that records nothing of a code and after which w is not about to
LEMMA CountsStay ==
    ASSUME DiagnosticsInv, NEW w \in Workers, DiagnosticsAlone(w), NEW c \in Codes,
           UNCHANGED <<dtc[c], logged[c], told[c]>>,
           w \notin Adding(c)', w \notin Logging(c)', w \notin Telling(c)'
    PROVE  CodeIsCounted(c)'
<1>1. /\ Adding(c)' \subseteq Adding(c) /\ Logging(c)' \subseteq Logging(c)
      /\ Telling(c)' \subseteq Telling(c)
  BY DEF DiagnosticsAlone, Adding, Logging, Telling, D!Running, D!Code
<1>2. Adding(c) \subseteq Workers /\ Logging(c) \subseteq Workers /\ Telling(c) \subseteq Workers
  BY DEF Adding, Logging, Telling
<1>3. /\ Cardinality(Adding(c)) \in Nat /\ Cardinality(Adding(c)') \in Nat
      /\ Cardinality(Adding(c)') <= Cardinality(Adding(c))
      /\ Cardinality(Logging(c)) \in Nat /\ Cardinality(Logging(c)') \in Nat
      /\ Cardinality(Logging(c)') <= Cardinality(Logging(c))
      /\ Cardinality(Telling(c)) \in Nat /\ Cardinality(Telling(c)') \in Nat
      /\ Cardinality(Telling(c)') <= Cardinality(Telling(c))
      /\ Cardinality(Workers) \in Nat
  BY <1>1, <1>2, WorkersCount
<1>4. D!Occurrences(c)' = D!Occurrences(c)
  BY DEF D!Occurrences
<1>5. CodeIsCounted(c) /\ dtc[c] \in Seq(Nat \ {0}) /\ logged[c] \in Nat /\ told[c] \in Nat
  BY DEF DiagnosticsInv, D!TypeOK
<1>6. Cardinality(D!Occurrences(c)) \in Nat /\ Len(dtc[c]) \in Nat
  BY <1>5, FS_CardinalityType DEF CodeIsCounted
<1>7. /\ Len(dtc[c]) + Cardinality(Adding(c)') <= Cardinality(Workers)
      /\ logged[c] + Cardinality(Logging(c)') <= Cardinality(D!Occurrences(c))
      /\ told[c] + Cardinality(Telling(c)') <= logged[c]
  <2>1. ASSUME NEW a \in Nat, NEW b \in Nat, NEW d \in Nat, NEW e \in Nat,
               a + b <= d, e <= b
        PROVE  a + e <= d
    BY <2>1
  <2>2. /\ Len(dtc[c]) + Cardinality(Adding(c)) <= Cardinality(Workers)
        /\ logged[c] + Cardinality(Logging(c)) <= Cardinality(D!Occurrences(c))
        /\ told[c] + Cardinality(Telling(c)) <= logged[c]
    BY <1>5 DEF CodeIsCounted
  <2>3. QED
    BY <1>3, <1>5, <1>6, <2>1, <2>2
<1>8. QED
  BY <1>4, <1>5, <1>7 DEF CodeIsCounted

\* A step of w that records nothing
LEMMA DiagnosticsReads ==
    ASSUME DiagnosticsInv, D!TypeOK', UNCHANGED <<inbox, dtc, logged, told>>,
           NEW w \in Workers, DiagnosticsAlone(w), DiagnosticsTold(w)',
           diagnosticsTask'[w] = None \/ diagnosticsTask'[w].at \notin {"write", "log", "tell"},
           D!HealthIsGrounded', \A m \in advised' : Sent(m)
    PROVE  DiagnosticsInv'
<1>1. DiagnosticsGrows
  BY DEF DiagnosticsGrows
<1>2. \A x \in Workers : DiagnosticsTold(x)'
  BY <1>1, OthersToldStay
<1>3. ASSUME NEW c \in Codes PROVE CodeIsCounted(c)'
  <2>1. w \notin Adding(c)' /\ w \notin Logging(c)' /\ w \notin Telling(c)'
    BY DEF Adding, Logging, Telling, D!Running
  <2>2. QED
    BY <2>1, CountsStay
<1>4. \A m \in advised' : Sent(m)'
  BY <1>1, RowsStay
<1>5. QED
  BY <1>2, <1>3, <1>4 DEF DiagnosticsInv

\* The occurrences that rows count
Counted(rows) == UNION {{r} \X (1 .. rows[r]) : r \in DOMAIN rows}

LEMMA CountedMember ==
    ASSUME NEW rows \in Seq(Nat \ {0}), NEW e
    PROVE  e \in Counted(rows) <=>
               \E r \in DOMAIN rows, k \in Nat \ {0} : e = <<r, k>> /\ k <= rows[r]
<1>1. \A r \in DOMAIN rows : rows[r] \in Nat
  OBVIOUS
<1>2. QED
  BY <1>1 DEF Counted

\* handleDtcDetection counts one more occurrence, in a row of its own or not.
LEMMA CountAddsOne ==
    ASSUME NEW rows \in Seq(Nat \ {0}), NEW r \in {0} \cup DOMAIN rows
    PROVE  /\ D!Count(rows, r) \in Seq(Nat \ {0})
           /\ DOMAIN rows \subseteq DOMAIN D!Count(rows, r)
           /\ Len(D!Count(rows, r)) = IF r = 0 THEN Len(rows) + 1 ELSE Len(rows)
           /\ \E e : e \notin Counted(rows) /\ Counted(D!Count(rows, r)) = Counted(rows) \cup {e}
<1> DEFINE new == D!Count(rows, r)
<1>0. 0 \notin DOMAIN rows /\ DOMAIN rows = 1 .. Len(rows) /\ Len(rows) \in Nat
  OBVIOUS
<1>1. CASE r = 0
  <2>1. new = Append(rows, 1)
    BY <1>1 DEF D!Count
  <2>2. /\ new \in Seq(Nat \ {0}) /\ Len(new) = Len(rows) + 1
        /\ DOMAIN new = DOMAIN rows \cup {Len(rows) + 1} /\ new[Len(rows) + 1] = 1
        /\ \A i \in DOMAIN rows : new[i] = rows[i]
    BY <2>1
  <2> HIDE DEF new
  <2>3. <<Len(rows) + 1, 1>> \notin Counted(rows)
    BY <1>0, CountedMember
  <2>4. \A e : e \in Counted(new) <=> e \in Counted(rows) \cup {<<Len(rows) + 1, 1>>}
    <3> TAKE e
    <3>1. ASSUME e \in Counted(new) PROVE e \in Counted(rows) \cup {<<Len(rows) + 1, 1>>}
      <4>1. PICK i \in DOMAIN new, k \in Nat \ {0} : e = <<i, k>> /\ k <= new[i]
        BY <2>2, <3>1, CountedMember
      <4>2. CASE i \in DOMAIN rows
        <5>1. k <= rows[i]
          BY <2>2, <4>1, <4>2
        <5>2. QED
          BY <4>1, <4>2, <5>1, CountedMember
      <4>3. CASE i = Len(rows) + 1
        <5>1. k = 1
          BY <2>2, <4>1, <4>3
        <5>2. QED
          BY <4>1, <4>3, <5>1
      <4>4. QED
        BY <2>2, <4>1, <4>2, <4>3
    <3>2. e \in Counted(rows) => e \in Counted(new)
      <4> SUFFICES ASSUME NEW i \in DOMAIN rows, NEW k \in Nat \ {0},
                          e = <<i, k>>, k <= rows[i]
                   PROVE  i \in DOMAIN new /\ k <= new[i]
        BY <2>2, CountedMember
      <4>1. QED
        BY <2>2
    <3>3. <<Len(rows) + 1, 1>> \in Counted(new)
      BY <2>2, CountedMember
    <3>4. QED
      BY <3>1, <3>2, <3>3
  <2>5. Counted(new) = Counted(rows) \cup {<<Len(rows) + 1, 1>>}
    BY <2>4
  <2>6. QED
    BY <1>1, <2>2, <2>3, <2>5 DEF new
<1>2. CASE r \in DOMAIN rows
  <2>1. new = [rows EXCEPT ![r] = rows[r] + 1] /\ r # 0
    BY <1>0, <1>2 DEF D!Count
  <2>2. /\ new \in Seq(Nat \ {0}) /\ Len(new) = Len(rows) /\ DOMAIN new = DOMAIN rows
        /\ new[r] = rows[r] + 1 /\ rows[r] \in Nat
        /\ \A i \in DOMAIN rows : i # r => new[i] = rows[i]
    BY <1>2, <2>1
  <2> HIDE DEF new
  <2>3. <<r, rows[r] + 1>> \notin Counted(rows)
    BY <2>2, CountedMember
  <2>4. \A e : e \in Counted(new) <=> e \in Counted(rows) \cup {<<r, rows[r] + 1>>}
    <3> TAKE e
    <3>1. e \in Counted(new) => e \in Counted(rows) \cup {<<r, rows[r] + 1>>}
      <4> SUFFICES ASSUME e \in Counted(new), e \notin Counted(rows)
                   PROVE  e = <<r, rows[r] + 1>>
        OBVIOUS
      <4>1. PICK i \in DOMAIN rows, k \in Nat \ {0} : e = <<i, k>> /\ k <= new[i]
        BY <2>2, CountedMember
      <4>2. ~(k <= rows[i])
        BY <4>1, CountedMember
      <4>3. i = r
        BY <2>2, <4>1, <4>2
      <4>4. k = rows[r] + 1
        BY <2>2, <4>1, <4>2, <4>3
      <4>5. QED
        BY <4>1, <4>3, <4>4
    <3>2. e \in Counted(rows) => e \in Counted(new)
      <4> SUFFICES ASSUME NEW i \in DOMAIN rows, NEW k \in Nat \ {0},
                          e = <<i, k>>, k <= rows[i]
                   PROVE  k <= new[i]
        BY <2>2, CountedMember
      <4>1. QED
        BY <2>2
    <3>3. <<r, rows[r] + 1>> \in Counted(new)
      <4>1. r \in DOMAIN new /\ rows[r] + 1 \in Nat \ {0} /\ rows[r] + 1 <= new[r]
        BY <1>2, <2>2
      <4>2. QED
        BY <2>2, <4>1, CountedMember
    <3>4. QED
      BY <3>1, <3>2, <3>3
  <2>5. Counted(new) = Counted(rows) \cup {<<r, rows[r] + 1>>}
    BY <2>4
  <2>6. QED
    BY <2>1, <2>2, <2>3, <2>5 DEF new
<1>3. QED
  BY <1>1, <1>2

LEMMA DiagnosticsReceiveStep ==
    ASSUME DiagnosticsInv, NEW w \in Workers, NEW i \in DOMAIN inbox, D!Receive(w, i)
    PROVE  DiagnosticsInv'
<1> DEFINE at == IF CodesOf[inbox[i]] = <<>> THEN "score" ELSE "detect"
           t == [at |-> at, msg |-> i, pos |-> inbox[i], left |-> CodesOf[inbox[i]],
                 row |-> 0, seen |-> {}]
<1>1. D!TypeOK /\ inbox[i] \in Messages /\ i \in Nat /\ CodesOf[inbox[i]] \in Seq(Codes)
  BY SignalsAssumption DEF DiagnosticsInv, D!TypeOK, D!DiagnosticsAssumption
<1>2. at \in {"score", "detect"} /\ (at = "detect" => Len(CodesOf[inbox[i]]) # 0)
  BY <1>1
<1>3. /\ t \in D!Task /\ t.at = at /\ t.pos = inbox[i] /\ t.left = CodesOf[inbox[i]]
      /\ t.seen = {}
  <2> HIDE DEF at
  <2>1. QED
    BY <1>1, <1>2 DEF D!Task
<1>4. /\ diagnosticsTask' = [diagnosticsTask EXCEPT ![w] = t]
      /\ diagnosticsTaken' = diagnosticsTaken \cup {i}
      /\ UNCHANGED <<inbox, dtc, logged, told, health, advised, updates, diagnosticsAgain>>
  BY DEF D!Receive, D!Deliver, D!store
<1> HIDE DEF at, t
<1>5. /\ diagnosticsTask' \in [Workers -> D!Task \cup {None}]
      /\ diagnosticsTask'[w] = t /\ DiagnosticsAlone(w)
  BY <1>1, <1>3, <1>4, DiagnosticsBecomes
<1>6. D!TypeOK'
  BY <1>1, <1>4, <1>5 DEF D!TypeOK
<1>7. DiagnosticsTold(w)'
  BY <1>2, <1>3, <1>4, <1>5 DEF DiagnosticsTold, Sent, D!Running
<1>8. D!HealthIsGrounded'
  BY <1>4 DEF DiagnosticsInv, D!HealthIsGrounded, D!ActiveRows
<1>9. QED
  BY <1>2, <1>3, <1>4, <1>5, <1>6, <1>7, <1>8, DiagnosticsReads DEF DiagnosticsInv

\* findFirst: a row is added only of a code that has none.
LEMMA FindDtcStep ==
    ASSUME DiagnosticsInv, NEW w \in Workers, D!FindDtc(w)
    PROVE  DiagnosticsInv'
<1> DEFINE c0 == D!Code(w)
<1>1. D!TypeOK /\ diagnosticsTask[w] # None /\ diagnosticsTask[w].at = "detect"
      /\ DiagnosticsTold(w)
  BY DEF DiagnosticsInv, D!FindDtc, D!Running
<1>2. diagnosticsTask[w] \in D!Task /\ Len(diagnosticsTask[w].left) # 0 /\ c0 \in Codes
  BY <1>1, DiagnosticsTaskType DEF DiagnosticsTold
<1>3. PICK r \in D!FoundRows(c0) :
          diagnosticsTask' = [diagnosticsTask EXCEPT ![w].at = "write", ![w].row = r]
  BY DEF D!FindDtc
<1>4. UNCHANGED <<inbox, dtc, logged, told, health, advised, updates,
                  diagnosticsTaken, diagnosticsAgain>>
  BY DEF D!FindDtc, D!store
<1>5. dtc[c0] \in Seq(Nat \ {0}) /\ r \in Nat
      /\ (r = 0 => dtc[c0] = <<>>) /\ (r # 0 => r \in DOMAIN dtc[c0])
  BY <1>1, <1>2, <1>3 DEF D!TypeOK, D!FoundRows
<1> DEFINE t == [diagnosticsTask[w] EXCEPT !.at = "write", !.row = r]
<1>6. /\ t \in D!Task /\ t.at = "write" /\ t.row = r /\ t.pos = diagnosticsTask[w].pos
      /\ t.left = diagnosticsTask[w].left /\ t.seen = diagnosticsTask[w].seen
  BY <1>2, <1>5 DEF D!Task
<1>7. diagnosticsTask' = [diagnosticsTask EXCEPT ![w] = t]
  BY <1>1, <1>3 DEF D!TypeOK
<1> HIDE DEF t
<1>8. /\ diagnosticsTask' \in [Workers -> D!Task \cup {None}]
      /\ diagnosticsTask'[w] = t /\ DiagnosticsAlone(w)
  BY <1>1, <1>6, <1>7, DiagnosticsBecomes
<1>9. D!TypeOK'
  BY <1>1, <1>4, <1>8 DEF D!TypeOK
<1>10. D!Code(w)' = c0
  BY <1>6, <1>8 DEF D!Code
<1>11. DiagnosticsTold(w)' /\ DiagnosticsGrows
  BY <1>1, <1>2, <1>4, <1>5, <1>6, <1>8, <1>10
     DEF DiagnosticsTold, Sent, D!Running, D!ActiveRows, DiagnosticsGrows
<1>12. \A x \in Workers : DiagnosticsTold(x)'
  BY <1>8, <1>11, OthersToldStay
<1>13. ASSUME NEW c \in Codes PROVE CodeIsCounted(c)'
  <2>1. w \notin Logging(c)' /\ w \notin Telling(c)'
    BY <1>6, <1>8 DEF Logging, Telling, D!Running
  <2>2. CASE w \notin Adding(c)'
    BY <1>4, <1>8, <2>1, <2>2, CountsStay
  <2>3. CASE w \in Adding(c)'
    <3>1. c = c0 /\ r = 0 /\ dtc[c] = <<>> /\ Len(dtc[c]) = 0
      BY <1>5, <1>6, <1>8, <1>10, <2>3 DEF Adding
    <3>2. Adding(c)' \subseteq Workers /\ Logging(c)' \subseteq Logging(c)
          /\ Telling(c)' \subseteq Telling(c)
      BY <1>8, <2>1 DEF DiagnosticsAlone, Adding, Logging, Telling, D!Running, D!Code
    <3>3. Logging(c) \subseteq Workers /\ Telling(c) \subseteq Workers
      BY DEF Logging, Telling
    <3>4. /\ Cardinality(Adding(c)') \in Nat /\ Cardinality(Adding(c)') <= Cardinality(Workers)
          /\ Cardinality(Logging(c)) \in Nat /\ Cardinality(Logging(c)') \in Nat
          /\ Cardinality(Logging(c)') <= Cardinality(Logging(c))
          /\ Cardinality(Telling(c)) \in Nat /\ Cardinality(Telling(c)') \in Nat
          /\ Cardinality(Telling(c)') <= Cardinality(Telling(c))
      BY <3>2, <3>3, WorkersCount
    <3>5. CodeIsCounted(c) /\ logged[c] \in Nat /\ told[c] \in Nat
      BY <1>1 DEF DiagnosticsInv, D!TypeOK
    <3>6. D!Occurrences(c)' = D!Occurrences(c) /\ Cardinality(D!Occurrences(c)) \in Nat
      BY <1>4, <3>5, FS_CardinalityType DEF D!Occurrences, CodeIsCounted
    <3>7. /\ logged[c] + Cardinality(Logging(c)') <= Cardinality(D!Occurrences(c))
          /\ told[c] + Cardinality(Telling(c)') <= logged[c]
      BY <3>4, <3>5, <3>6 DEF CodeIsCounted
    <3>8. Len(dtc[c]) + Cardinality(Adding(c)') <= Cardinality(Workers)
      BY <3>1, <3>4
    <3>9. QED
      BY <1>4, <3>5, <3>6, <3>7, <3>8 DEF CodeIsCounted
  <2>4. QED
    BY <2>2, <2>3
<1>14. D!HealthIsGrounded' /\ \A m \in advised' : Sent(m)'
  BY <1>4 DEF DiagnosticsInv, D!HealthIsGrounded, D!ActiveRows, Sent
<1>15. QED
  BY <1>9, <1>12, <1>13, <1>14 DEF DiagnosticsInv

\* What the sets of those that are about to record become in a step of w
LEMMA RecordersChange ==
    ASSUME NEW w \in Workers, DiagnosticsAlone(w), NEW c \in Codes
    PROVE  /\ \E n \in Nat : /\ Cardinality(Adding(c)) = IF w \in Adding(c) THEN n + 1 ELSE n
                             /\ Cardinality(Adding(c)') = IF w \in Adding(c)' THEN n + 1 ELSE n
           /\ \E n \in Nat : /\ Cardinality(Logging(c)) = IF w \in Logging(c) THEN n + 1 ELSE n
                             /\ Cardinality(Logging(c)') = IF w \in Logging(c)' THEN n + 1 ELSE n
           /\ \E n \in Nat : /\ Cardinality(Telling(c)) = IF w \in Telling(c) THEN n + 1 ELSE n
                             /\ Cardinality(Telling(c)') = IF w \in Telling(c)' THEN n + 1 ELSE n
<1>1. /\ Adding(c) \ {w} = Adding(c)' \ {w} /\ Logging(c) \ {w} = Logging(c)' \ {w}
      /\ Telling(c) \ {w} = Telling(c)' \ {w}
  BY DEF DiagnosticsAlone, Adding, Logging, Telling, D!Running, D!Code
<1>2. /\ Adding(c) \in SUBSET Workers /\ Logging(c) \in SUBSET Workers
      /\ Telling(c) \in SUBSET Workers /\ Adding(c)' \in SUBSET Workers
      /\ Logging(c)' \in SUBSET Workers /\ Telling(c)' \in SUBSET Workers
  BY DEF Adding, Logging, Telling
<1>3. QED
  BY <1>1, <1>2, OthersStay

\* A step of w that records what it has found
LEMMA DiagnosticsRecords ==
    ASSUME DiagnosticsInv, D!TypeOK', DiagnosticsGrows, NEW w \in Workers, DiagnosticsAlone(w),
           DiagnosticsTold(w)', UNCHANGED <<health, advised, updates>>,
           \A c \in Codes : CodeIsCounted(c)'
    PROVE  DiagnosticsInv'
<1>1. \A x \in Workers : DiagnosticsTold(x)'
  BY OthersToldStay
<1>2. D!ActiveRows \subseteq D!ActiveRows' /\ \A m : Sent(m) => Sent(m)'
  BY RowsStay
<1>3. D!HealthIsGrounded' /\ \A m \in advised' : Sent(m)'
  BY <1>2 DEF DiagnosticsInv, D!HealthIsGrounded
<1>4. QED
  BY <1>1, <1>3 DEF DiagnosticsInv

LEMMA WriteDtcStep ==
    ASSUME DiagnosticsInv, NEW w \in Workers, D!WriteDtc(w)
    PROVE  DiagnosticsInv'
<1> DEFINE c0 == D!Code(w)
           r == diagnosticsTask[w].row
<1>1. D!TypeOK /\ diagnosticsTask[w] # None /\ diagnosticsTask[w].at = "write"
      /\ DiagnosticsTold(w) /\ D!Continue(w, "log")
  BY DEF DiagnosticsInv, D!WriteDtc, D!Running
<1>2. /\ diagnosticsTask[w] \in D!Task /\ Len(diagnosticsTask[w].left) # 0 /\ c0 \in Codes
      /\ dtc[c0] \in Seq(Nat \ {0}) /\ r \in {0} \cup DOMAIN dtc[c0]
  BY <1>1, DiagnosticsTaskType DEF DiagnosticsTold, D!TypeOK, D!Running
<1>3. /\ diagnosticsTask' \in [Workers -> D!Task \cup {None}] /\ diagnosticsTask'[w] # None
      /\ DiagnosticsAlone(w) /\ diagnosticsTask'[w].at = "log"
      /\ diagnosticsTask'[w].pos = diagnosticsTask[w].pos
      /\ diagnosticsTask'[w].left = diagnosticsTask[w].left
      /\ diagnosticsTask'[w].seen = diagnosticsTask[w].seen
  BY <1>1, DiagnosticsContinues DEF DiagnosticsStages
<1>4. UNCHANGED <<inbox, logged, told, health, advised, updates,
                  diagnosticsTaken, diagnosticsAgain>>
  BY DEF D!WriteDtc
<1>5. PICK e : /\ D!Count(dtc[c0], r) \in Seq(Nat \ {0})
               /\ DOMAIN dtc[c0] \subseteq DOMAIN D!Count(dtc[c0], r)
               /\ Len(D!Count(dtc[c0], r)) = IF r = 0 THEN Len(dtc[c0]) + 1 ELSE Len(dtc[c0])
               /\ e \notin Counted(dtc[c0])
               /\ Counted(D!Count(dtc[c0], r)) = Counted(dtc[c0]) \cup {e}
  BY <1>2, CountAddsOne
<1>6. dtc' = [dtc EXCEPT ![c0] = D!Count(dtc[c0], r)]
  BY DEF D!WriteDtc
<1>7. /\ dtc' \in [Codes -> Seq(Nat \ {0})] /\ dtc'[c0] = D!Count(dtc[c0], r)
      /\ \A c \in Codes : c # c0 => dtc'[c] = dtc[c]
  BY <1>1, <1>2, <1>5, <1>6 DEF D!TypeOK
<1>8. D!TypeOK'
  BY <1>1, <1>3, <1>4, <1>7 DEF D!TypeOK
<1>9. DiagnosticsGrows
  BY <1>4, <1>5, <1>7 DEF DiagnosticsGrows
<1>10. DiagnosticsTold(w)'
  BY <1>1, <1>3, <1>9, RowsStay DEF DiagnosticsTold, D!Running
<1>11. D!Code(w)' = c0
  BY <1>3 DEF D!Code
<1>12. ASSUME NEW c \in Codes PROVE CodeIsCounted(c)'
  <2>1. CASE c # c0
    <3>1. w \notin Adding(c)' /\ w \notin Logging(c)' /\ w \notin Telling(c)'
      BY <1>3, <1>11, <2>1 DEF Adding, Logging, Telling, D!Running
    <3>2. QED
      BY <1>3, <1>4, <1>7, <2>1, <3>1, CountsStay
  <2>2. CASE c = c0
    <3>1. /\ w \notin Adding(c)' /\ w \in Logging(c)' /\ w \notin Telling(c)'
          /\ (w \in Adding(c) <=> r = 0) /\ w \notin Logging(c) /\ w \notin Telling(c)
      BY <1>1, <1>3, <1>11, <2>2 DEF Adding, Logging, Telling, D!Running
    <3>2. PICK n \in Nat : /\ Cardinality(Adding(c)) = IF w \in Adding(c) THEN n + 1 ELSE n
                           /\ Cardinality(Adding(c)') = IF w \in Adding(c)' THEN n + 1 ELSE n
      BY <1>3, RecordersChange
    <3>3. PICK m \in Nat : /\ Cardinality(Logging(c)) = IF w \in Logging(c) THEN m + 1 ELSE m
                           /\ Cardinality(Logging(c)') = IF w \in Logging(c)' THEN m + 1 ELSE m
      BY <1>3, RecordersChange
    <3>4. PICK k \in Nat : /\ Cardinality(Telling(c)) = IF w \in Telling(c) THEN k + 1 ELSE k
                           /\ Cardinality(Telling(c)') = IF w \in Telling(c)' THEN k + 1 ELSE k
      BY <1>3, RecordersChange
    <3>5. CodeIsCounted(c) /\ logged[c] \in Nat /\ told[c] \in Nat /\ Len(dtc[c]) \in Nat
      BY <1>1 DEF DiagnosticsInv, D!TypeOK
    <3>6. /\ IsFiniteSet(D!Occurrences(c)') /\ Cardinality(D!Occurrences(c)) \in Nat
          /\ Cardinality(D!Occurrences(c)') = Cardinality(D!Occurrences(c)) + 1
      <4>1. D!Occurrences(c) = Counted(dtc[c]) /\ D!Occurrences(c)' = Counted(dtc'[c])
        BY DEF D!Occurrences, Counted
      <4>2. D!Occurrences(c)' = D!Occurrences(c) \cup {e} /\ e \notin D!Occurrences(c)
        BY <1>5, <1>7, <2>2, <4>1
      <4>3. IsFiniteSet(D!Occurrences(c))
        BY <3>5 DEF CodeIsCounted
      <4>4. QED
        BY <4>2, <4>3, FS_AddElement, FS_CardinalityType
    <3>7. Len(dtc'[c]) + Cardinality(Adding(c)') <= Cardinality(Workers)
      <4>1. Len(dtc'[c]) = IF r = 0 THEN Len(dtc[c]) + 1 ELSE Len(dtc[c])
        BY <1>5, <1>7, <2>2
      <4>2. Len(dtc[c]) + Cardinality(Adding(c)) <= Cardinality(Workers)
        BY <3>5 DEF CodeIsCounted
      <4>3. /\ Cardinality(Adding(c)) = IF r = 0 THEN n + 1 ELSE n
            /\ Cardinality(Adding(c)') = n
        BY <3>1, <3>2
      <4>4. Len(dtc'[c]) + Cardinality(Adding(c)') = Len(dtc[c]) + Cardinality(Adding(c))
        BY <3>5, <4>1, <4>3
      <4>5. QED
        BY <4>2, <4>4
    <3>8. /\ logged[c] + Cardinality(Logging(c)') <= Cardinality(D!Occurrences(c)')
          /\ told[c] + Cardinality(Telling(c)') <= logged[c]
      <4>1. /\ logged[c] + Cardinality(Logging(c)) <= Cardinality(D!Occurrences(c))
            /\ told[c] + Cardinality(Telling(c)) <= logged[c]
        BY <3>5 DEF CodeIsCounted
      <4>2. QED
        BY <3>1, <3>3, <3>4, <3>5, <3>6, <4>1
    <3>9. QED
      BY <1>4, <3>6, <3>7, <3>8 DEF CodeIsCounted
  <2>3. QED
    BY <2>1, <2>2
<1>13. QED
  BY <1>3, <1>4, <1>8, <1>9, <1>10, <1>12, DiagnosticsRecords

LEMMA LogDtcStep ==
    ASSUME DiagnosticsInv, NEW w \in Workers, D!LogDtc(w)
    PROVE  DiagnosticsInv'
<1> DEFINE c0 == D!Code(w)
<1>1. D!TypeOK /\ diagnosticsTask[w] # None /\ diagnosticsTask[w].at = "log"
      /\ DiagnosticsTold(w) /\ D!Continue(w, "tell")
  BY DEF DiagnosticsInv, D!LogDtc, D!Running
<1>2. Len(diagnosticsTask[w].left) # 0 /\ c0 \in Codes
  BY <1>1, DiagnosticsTaskType DEF DiagnosticsTold
<1>3. /\ diagnosticsTask' \in [Workers -> D!Task \cup {None}] /\ diagnosticsTask'[w] # None
      /\ DiagnosticsAlone(w) /\ diagnosticsTask'[w].at = "tell"
      /\ diagnosticsTask'[w].pos = diagnosticsTask[w].pos
      /\ diagnosticsTask'[w].left = diagnosticsTask[w].left
      /\ diagnosticsTask'[w].seen = diagnosticsTask[w].seen
  BY <1>1, DiagnosticsContinues DEF DiagnosticsStages
<1>4. UNCHANGED <<inbox, dtc, told, health, advised, updates,
                  diagnosticsTaken, diagnosticsAgain>>
  BY DEF D!LogDtc
<1>5. /\ logged' \in [Codes -> Nat] /\ logged'[c0] = logged[c0] + 1
      /\ \A c \in Codes : c # c0 => logged'[c] = logged[c]
  BY <1>1, <1>2 DEF D!TypeOK, D!LogDtc
<1>6. D!TypeOK'
  BY <1>1, <1>3, <1>4, <1>5 DEF D!TypeOK
<1>7. DiagnosticsGrows
  BY <1>4 DEF DiagnosticsGrows
<1>8. DiagnosticsTold(w)'
  BY <1>1, <1>3, <1>7, RowsStay DEF DiagnosticsTold, D!Running
<1>9. D!Code(w)' = c0
  BY <1>3 DEF D!Code
<1>10. ASSUME NEW c \in Codes PROVE CodeIsCounted(c)'
  <2>1. CASE c # c0
    <3>1. w \notin Adding(c)' /\ w \notin Logging(c)' /\ w \notin Telling(c)'
      BY <1>3, <1>9, <2>1 DEF Adding, Logging, Telling, D!Running
    <3>2. QED
      BY <1>3, <1>4, <1>5, <2>1, <3>1, CountsStay
  <2>2. CASE c = c0
    <3>1. /\ w \notin Adding(c)' /\ w \notin Logging(c)' /\ w \in Telling(c)'
          /\ w \notin Adding(c) /\ w \in Logging(c) /\ w \notin Telling(c)
      BY <1>1, <1>3, <1>9, <2>2 DEF Adding, Logging, Telling, D!Running
    <3>2. PICK n \in Nat : /\ Cardinality(Adding(c)) = IF w \in Adding(c) THEN n + 1 ELSE n
                           /\ Cardinality(Adding(c)') = IF w \in Adding(c)' THEN n + 1 ELSE n
      BY <1>3, RecordersChange
    <3>3. PICK m \in Nat : /\ Cardinality(Logging(c)) = IF w \in Logging(c) THEN m + 1 ELSE m
                           /\ Cardinality(Logging(c)') = IF w \in Logging(c)' THEN m + 1 ELSE m
      BY <1>3, RecordersChange
    <3>4. PICK k \in Nat : /\ Cardinality(Telling(c)) = IF w \in Telling(c) THEN k + 1 ELSE k
                           /\ Cardinality(Telling(c)') = IF w \in Telling(c)' THEN k + 1 ELSE k
      BY <1>3, RecordersChange
    <3>5. CodeIsCounted(c) /\ logged[c] \in Nat /\ told[c] \in Nat
      BY <1>1 DEF DiagnosticsInv, D!TypeOK
    <3>6. D!Occurrences(c)' = D!Occurrences(c) /\ Cardinality(D!Occurrences(c)) \in Nat
      BY <1>4, <3>5, FS_CardinalityType DEF D!Occurrences, CodeIsCounted
    <3>7. /\ logged[c] + Cardinality(Logging(c)) <= Cardinality(D!Occurrences(c))
          /\ told[c] + Cardinality(Telling(c)) <= logged[c]
      BY <3>5 DEF CodeIsCounted
    <3>8. /\ Cardinality(Adding(c)') = Cardinality(Adding(c))
          /\ logged'[c] + Cardinality(Logging(c)') <= Cardinality(D!Occurrences(c))
          /\ told[c] + Cardinality(Telling(c)') <= logged'[c]
      BY <1>5, <2>2, <3>1, <3>2, <3>3, <3>4, <3>5, <3>6, <3>7
    <3>9. QED
      BY <1>4, <3>5, <3>6, <3>8 DEF CodeIsCounted
  <2>3. QED
    BY <2>1, <2>2
<1>11. QED
  BY <1>3, <1>4, <1>6, <1>7, <1>8, <1>10, DiagnosticsRecords

LEMMA TellDtcStep ==
    ASSUME DiagnosticsInv, NEW w \in Workers, D!TellDtc(w)
    PROVE  DiagnosticsInv'
<1> DEFINE c0 == D!Code(w)
           at == IF Len(diagnosticsTask[w].left) = 1 THEN "score" ELSE "detect"
           t == [diagnosticsTask[w] EXCEPT !.left = Tail(@), !.at = at]
<1>1. D!TypeOK /\ diagnosticsTask[w] # None /\ diagnosticsTask[w].at = "tell"
      /\ DiagnosticsTold(w)
  BY DEF DiagnosticsInv, D!TellDtc, D!Running
<1>2. /\ diagnosticsTask[w] \in D!Task /\ Len(diagnosticsTask[w].left) # 0 /\ c0 \in Codes
      /\ Tail(diagnosticsTask[w].left) \in Seq(Codes)
      /\ Len(Tail(diagnosticsTask[w].left)) = Len(diagnosticsTask[w].left) - 1
      /\ Len(diagnosticsTask[w].left) \in Nat
  <2>1. diagnosticsTask[w] \in D!Task /\ Len(diagnosticsTask[w].left) # 0
    BY <1>1, DiagnosticsTaskType DEF DiagnosticsTold
  <2>2. diagnosticsTask[w].left \in Seq(Codes)
    BY <2>1 DEF D!Task
  <2>3. QED
    BY <1>1, <2>1, <2>2, DiagnosticsTaskType
<1>3. at \in {"score", "detect"} /\ (at = "detect" => Len(diagnosticsTask[w].left) # 1)
  OBVIOUS
<1>4. /\ t \in D!Task /\ t.at = at /\ t.left = Tail(diagnosticsTask[w].left)
      /\ t.pos = diagnosticsTask[w].pos /\ t.seen = diagnosticsTask[w].seen
  <2> HIDE DEF at
  <2>1. QED
    BY <1>2, <1>3 DEF D!Task
<1>5. diagnosticsTask' = [diagnosticsTask EXCEPT ![w] = t]
  BY <1>1 DEF D!TellDtc, D!TypeOK
<1>6. UNCHANGED <<inbox, dtc, logged, health, advised, updates,
                  diagnosticsTaken, diagnosticsAgain>>
  BY DEF D!TellDtc
<1> HIDE DEF at, t
<1>7. /\ diagnosticsTask' \in [Workers -> D!Task \cup {None}]
      /\ diagnosticsTask'[w] = t /\ DiagnosticsAlone(w)
  BY <1>1, <1>4, <1>5, DiagnosticsBecomes
<1>8. /\ told' \in [Codes -> Nat] /\ told'[c0] = told[c0] + 1
      /\ \A c \in Codes : c # c0 => told'[c] = told[c]
  BY <1>1, <1>2 DEF D!TypeOK, D!TellDtc
<1>9. D!TypeOK'
  BY <1>1, <1>6, <1>7, <1>8 DEF D!TypeOK
<1>10. DiagnosticsGrows
  BY <1>6 DEF DiagnosticsGrows
<1>11. DiagnosticsTold(w)'
  <2>1. at = "detect" => Len(t.left) # 0
    BY <1>2, <1>3, <1>4
  <2>2. D!ActiveRows \subseteq D!ActiveRows' /\ \A m : Sent(m) => Sent(m)'
    BY <1>10, RowsStay
  <2>3. QED
    BY <1>1, <1>3, <1>4, <1>7, <2>1, <2>2 DEF DiagnosticsTold, D!Running
<1>12. ASSUME NEW c \in Codes PROVE CodeIsCounted(c)'
  <2>0. w \notin Adding(c)' /\ w \notin Logging(c)' /\ w \notin Telling(c)'
    BY <1>3, <1>4, <1>7 DEF Adding, Logging, Telling, D!Running
  <2>1. CASE c # c0
    BY <1>6, <1>7, <1>8, <2>0, <2>1, CountsStay
  <2>2. CASE c = c0
    <3>1. w \notin Adding(c) /\ w \notin Logging(c) /\ w \in Telling(c)
      BY <1>1, <2>2 DEF Adding, Logging, Telling, D!Running
    <3>2. PICK n \in Nat : /\ Cardinality(Adding(c)) = IF w \in Adding(c) THEN n + 1 ELSE n
                           /\ Cardinality(Adding(c)') = IF w \in Adding(c)' THEN n + 1 ELSE n
      BY <1>7, RecordersChange
    <3>3. PICK m \in Nat : /\ Cardinality(Logging(c)) = IF w \in Logging(c) THEN m + 1 ELSE m
                           /\ Cardinality(Logging(c)') = IF w \in Logging(c)' THEN m + 1 ELSE m
      BY <1>7, RecordersChange
    <3>4. PICK k \in Nat : /\ Cardinality(Telling(c)) = IF w \in Telling(c) THEN k + 1 ELSE k
                           /\ Cardinality(Telling(c)') = IF w \in Telling(c)' THEN k + 1 ELSE k
      BY <1>7, RecordersChange
    <3>5. CodeIsCounted(c) /\ logged[c] \in Nat /\ told[c] \in Nat
      BY <1>1 DEF DiagnosticsInv, D!TypeOK
    <3>6. D!Occurrences(c)' = D!Occurrences(c)
      BY <1>6 DEF D!Occurrences
    <3>7. told[c] + Cardinality(Telling(c)) <= logged[c]
      BY <3>5 DEF CodeIsCounted
    <3>8. /\ Cardinality(Adding(c)') = Cardinality(Adding(c))
          /\ Cardinality(Logging(c)') = Cardinality(Logging(c))
          /\ told'[c] + Cardinality(Telling(c)') <= logged[c]
      BY <1>8, <2>0, <2>2, <3>1, <3>2, <3>3, <3>4, <3>5, <3>7
    <3>9. QED
      BY <1>6, <3>5, <3>6, <3>8 DEF CodeIsCounted
  <2>3. QED
    BY <2>1, <2>2
<1>13. QED
  BY <1>6, <1>7, <1>9, <1>10, <1>11, <1>12, DiagnosticsRecords

\* The score: it is of rows there are, whatever the others add meanwhile.
LEMMA ScoreHealthStep ==
    ASSUME DiagnosticsInv, NEW w \in Workers,
           D!ReadActive(w) \/ D!CacheHealth(w) \/ D!Advise(w) \/ D!EmitHealth(w)
    PROVE  DiagnosticsInv'
<1>1. /\ D!TypeOK /\ diagnosticsTask[w] # None /\ DiagnosticsTold(w)
      /\ diagnosticsTask[w].at \in {"score", "cache", "advise", "emit"}
      /\ diagnosticsTask[w] \in D!Task
  BY DiagnosticsTaskType
     DEF DiagnosticsInv, D!ReadActive, D!CacheHealth, D!Advise, D!EmitHealth, D!Running
<1>2. /\ diagnosticsTask[w].seen \subseteq D!ActiveRows /\ Sent(diagnosticsTask[w].pos)
      /\ diagnosticsTask[w].seen \subseteq D!Rows /\ diagnosticsTask[w].pos \in Messages
  BY <1>1 DEF DiagnosticsTold, D!Task
<1>3. UNCHANGED <<inbox, dtc, logged, told, diagnosticsTaken, diagnosticsAgain>>
  BY DEF D!ReadActive, D!CacheHealth, D!Advise, D!EmitHealth, D!store
<1>4. D!ActiveRows' = D!ActiveRows /\ D!ActiveRows \subseteq D!Rows
  BY <1>1, <1>3 DEF D!ActiveRows, D!TypeOK, D!Rows
<1>5. ASSUME NEW at \in {"advise", "emit"}, D!Continue(w, at)
      PROVE  /\ diagnosticsTask' \in [Workers -> D!Task \cup {None}] /\ DiagnosticsAlone(w)
             /\ DiagnosticsTold(w)'
             /\ diagnosticsTask'[w].at \notin {"write", "log", "tell"}
  <2>1. /\ diagnosticsTask' \in [Workers -> D!Task \cup {None}] /\ DiagnosticsAlone(w)
        /\ diagnosticsTask'[w] # None /\ diagnosticsTask'[w].at = at
        /\ diagnosticsTask'[w].pos = diagnosticsTask[w].pos
        /\ diagnosticsTask'[w].seen = diagnosticsTask[w].seen
    BY <1>1, <1>5, DiagnosticsContinues DEF DiagnosticsStages
  <2>2. QED
    BY <1>2, <1>3, <1>4, <2>1 DEF DiagnosticsTold, Sent, D!Running
<1>6. CASE D!ReadActive(w)
  <2> DEFINE t == [diagnosticsTask[w] EXCEPT !.at = "cache", !.seen = D!ActiveRows]
  <2>1. /\ t \in D!Task /\ t.at = "cache" /\ t.pos = diagnosticsTask[w].pos
        /\ t.seen = D!ActiveRows
    BY <1>1, <1>4 DEF D!Task
  <2>2. diagnosticsTask' = [diagnosticsTask EXCEPT ![w] = t]
    BY <1>1, <1>6 DEF D!ReadActive, D!TypeOK
  <2> HIDE DEF t
  <2>3. /\ diagnosticsTask' \in [Workers -> D!Task \cup {None}]
        /\ diagnosticsTask'[w] = t /\ DiagnosticsAlone(w)
    BY <1>1, <2>1, <2>2, DiagnosticsBecomes
  <2>4. UNCHANGED <<health, advised, updates>>
    BY <1>6 DEF D!ReadActive, D!store
  <2>5. D!TypeOK' /\ D!HealthIsGrounded'
    BY <1>1, <1>3, <1>4, <2>3, <2>4 DEF D!TypeOK, DiagnosticsInv, D!HealthIsGrounded
  <2>6. DiagnosticsTold(w)'
    BY <1>2, <1>3, <1>4, <2>1, <2>3 DEF DiagnosticsTold, Sent, D!Running
  <2>7. QED
    BY <1>3, <2>1, <2>3, <2>4, <2>5, <2>6, DiagnosticsReads DEF DiagnosticsInv
<1>7. CASE D!CacheHealth(w)
  <2>1. PICK at \in {"advise", "emit"} : D!Continue(w, at)
    BY <1>7 DEF D!CacheHealth
  <2>2. health' = diagnosticsTask[w].seen /\ UNCHANGED <<advised, updates>>
    BY <1>7 DEF D!CacheHealth
  <2>3. D!TypeOK' /\ D!HealthIsGrounded'
    BY <1>1, <1>2, <1>3, <1>4, <1>5, <2>1, <2>2 DEF D!TypeOK, DiagnosticsInv, D!HealthIsGrounded
  <2>4. QED
    BY <1>3, <1>5, <2>1, <2>2, <2>3, DiagnosticsReads DEF DiagnosticsInv
<1>8. CASE D!Advise(w)
  <2>1. D!Continue(w, "emit") /\ advised' = advised \cup {diagnosticsTask[w].pos}
        /\ UNCHANGED <<health, updates>>
    BY <1>8 DEF D!Advise
  <2>2. D!TypeOK' /\ D!HealthIsGrounded'
    BY <1>1, <1>2, <1>3, <1>4, <1>5, <2>1 DEF D!TypeOK, DiagnosticsInv, D!HealthIsGrounded
  <2>3. \A m \in advised' : Sent(m)
    BY <1>2, <2>1 DEF DiagnosticsInv
  <2>4. QED
    BY <1>3, <1>5, <2>1, <2>2, <2>3, DiagnosticsReads
<1>9. CASE D!EmitHealth(w)
  <2>1. /\ diagnosticsTask' \in [Workers -> D!Task \cup {None}]
        /\ diagnosticsTask'[w] = None /\ DiagnosticsAlone(w)
    BY <1>1, <1>9, DiagnosticsFinishes DEF D!EmitHealth
  <2>2. updates' = updates \cup {diagnosticsTask[w].seen} /\ UNCHANGED <<health, advised>>
    BY <1>9 DEF D!EmitHealth
  <2>3. D!TypeOK' /\ D!HealthIsGrounded'
    BY <1>1, <1>2, <1>3, <1>4, <2>1, <2>2 DEF D!TypeOK, DiagnosticsInv, D!HealthIsGrounded
  <2>4. DiagnosticsTold(w)'
    BY <2>1 DEF DiagnosticsTold
  <2>5. QED
    BY <1>3, <2>1, <2>2, <2>3, <2>4, DiagnosticsReads DEF DiagnosticsInv
<1>10. QED
  BY <1>6, <1>7, <1>8, <1>9

LEMMA DiagnosticsFailStep ==
    ASSUME DiagnosticsInv, NEW w \in Workers, D!Fail(w)
    PROVE  DiagnosticsInv'
<1>1. /\ D!Finish(w) /\ UNCHANGED <<inbox, dtc, logged, told, health, advised, updates>>
      /\ UNCHANGED <<diagnosticsTaken, diagnosticsAgain>>
  BY DEF D!Fail, D!Reject, D!store
<1>2. D!TypeOK
  BY DEF DiagnosticsInv
<1>3. /\ diagnosticsTask' \in [Workers -> D!Task \cup {None}]
      /\ diagnosticsTask'[w] = None /\ DiagnosticsAlone(w)
  BY <1>1, <1>2, DiagnosticsFinishes
<1>4. D!TypeOK' /\ D!HealthIsGrounded'
  BY <1>1, <1>2, <1>3 DEF D!TypeOK, DiagnosticsInv, D!HealthIsGrounded, D!ActiveRows
<1>5. DiagnosticsTold(w)'
  BY <1>3 DEF DiagnosticsTold
<1>6. QED
  BY <1>1, <1>3, <1>4, <1>5, DiagnosticsReads DEF DiagnosticsInv

LEMMA DiagnosticsInvStep == DiagnosticsInv /\ [D!Next]_(D!vars) => DiagnosticsInv'
<1> SUFFICES ASSUME DiagnosticsInv, [D!Next]_(D!vars) PROVE DiagnosticsInv'
  OBVIOUS
<1>1. D!TypeOK
  BY DEF DiagnosticsInv
<1>2. ASSUME UNCHANGED <<diagnosticsTask, dtc, logged, told, advised, updates>>, D!TypeOK',
             health' \in {health, None},
             \A i \in DOMAIN inbox : i \in DOMAIN inbox' /\ inbox'[i] = inbox[i]
      PROVE  DiagnosticsInv'
  <2>1. \A m : Sent(m) => Sent(m)'
    BY <1>2 DEF Sent
  <2>2. D!ActiveRows' = D!ActiveRows
    BY <1>2 DEF D!ActiveRows
  <2>3. \A w \in Workers : DiagnosticsTold(w)'
    BY <1>2, <2>1, <2>2 DEF DiagnosticsInv, DiagnosticsTold, D!Running, D!Code
  <2>4. ASSUME NEW c \in Codes PROVE CodeIsCounted(c)'
    <3>1. Adding(c)' = Adding(c) /\ Logging(c)' = Logging(c) /\ Telling(c)' = Telling(c)
      BY <1>2 DEF Adding, Logging, Telling, D!Running, D!Code
    <3>2. D!Occurrences(c)' = D!Occurrences(c)
      BY <1>2 DEF D!Occurrences
    <3>3. QED
      BY <1>2, <3>1, <3>2 DEF DiagnosticsInv, CodeIsCounted
  <2>5. D!HealthIsGrounded'
    BY <1>2, <2>2 DEF DiagnosticsInv, D!HealthIsGrounded
  <2>6. QED
    BY <1>2, <2>1, <2>3, <2>4, <2>5 DEF DiagnosticsInv
<1>3. CASE D!ExpireHealth
  <2>1. /\ UNCHANGED <<inbox, diagnosticsTaken, diagnosticsAgain, diagnosticsTask, dtc, logged,
                       told, advised, updates>>
        /\ health' = None
    BY <1>3 DEF D!ExpireHealth, D!delivery
  <2>2. D!TypeOK'
    BY <1>1, <2>1 DEF D!TypeOK
  <2>3. QED
    BY <1>2, <2>1, <2>2
<1>4. ASSUME NEW m \in Messages, D!Arrive(m) PROVE DiagnosticsInv'
  <2>1. /\ inbox' = Append(inbox, m)
        /\ UNCHANGED <<diagnosticsTaken, diagnosticsAgain, diagnosticsTask, dtc, logged,
                       told, health, advised, updates>>
    BY <1>4 DEF D!Arrive, D!delivery, D!store
  <2>2. /\ inbox' \in Seq(Messages)
        /\ \A i \in DOMAIN inbox : i \in DOMAIN inbox' /\ inbox'[i] = inbox[i]
    BY <1>1, <2>1 DEF D!TypeOK
  <2>3. D!TypeOK'
    BY <1>1, <2>1, <2>2 DEF D!TypeOK
  <2>4. QED
    BY <1>2, <2>1, <2>2, <2>3
<1>5. CASE UNCHANGED D!vars
  <2>1. UNCHANGED <<inbox, diagnosticsTaken, diagnosticsAgain, diagnosticsTask, dtc, logged,
                    told, health, advised, updates>>
    BY <1>5 DEF D!vars, D!delivery, D!store
  <2>2. D!TypeOK'
    BY <1>1, <2>1 DEF D!TypeOK
  <2>3. QED
    BY <1>2, <2>1, <2>2
<1>6. ASSUME NEW i \in diagnosticsTaken, D!Recommit(i) PROVE DiagnosticsInv'
  <2>1. /\ UNCHANGED <<inbox, diagnosticsTask, dtc, logged, told, health, advised, updates>>
        /\ diagnosticsTaken' = diagnosticsTaken \ {i}
        /\ diagnosticsAgain' = diagnosticsAgain \cup {i}
    BY <1>6 DEF D!Recommit, D!Redeliver, D!store
  <2>2. D!TypeOK'
    BY <1>1, <2>1 DEF D!TypeOK
  <2>3. QED
    BY <1>2, <2>1, <2>2
<1>7. QED
  BY <1>3, <1>4, <1>5, <1>6, DiagnosticsReceiveStep, FindDtcStep, WriteDtcStep, LogDtcStep,
     TellDtcStep, ScoreHealthStep, DiagnosticsFailStep DEF D!Next, D!Own, D!Handle

LEMMA DiagnosticsGrounded == DiagnosticsInv => D!DetectionsAreCounted /\ D!HealthIsGrounded
<1> SUFFICES ASSUME DiagnosticsInv, NEW c \in Codes
             PROVE  /\ told[c] <= logged[c] /\ logged[c] <= D!Cardinality(D!Occurrences(c))
                    /\ Len(dtc[c]) <= D!Cardinality(Workers)
  BY DEF DiagnosticsInv, D!DetectionsAreCounted
<1>1. Adding(c) \in SUBSET Workers /\ Logging(c) \in SUBSET Workers
      /\ Telling(c) \in SUBSET Workers
  BY DEF Adding, Logging, Telling
<1>2. /\ Cardinality(Adding(c)) \in Nat /\ Cardinality(Logging(c)) \in Nat
      /\ Cardinality(Telling(c)) \in Nat /\ Cardinality(Workers) \in Nat
  BY <1>1, WorkersCount
<1>3. CodeIsCounted(c) /\ logged[c] \in Nat /\ told[c] \in Nat /\ Len(dtc[c]) \in Nat
  BY DEF DiagnosticsInv, D!TypeOK
<1>4. Cardinality(D!Occurrences(c)) \in Nat
  BY <1>3, FS_CardinalityType DEF CodeIsCounted
<1>5. /\ told[c] <= logged[c] /\ logged[c] <= Cardinality(D!Occurrences(c))
      /\ Len(dtc[c]) <= Cardinality(Workers)
  <2>1. /\ Len(dtc[c]) + Cardinality(Adding(c)) <= Cardinality(Workers)
        /\ logged[c] + Cardinality(Logging(c)) <= Cardinality(D!Occurrences(c))
        /\ told[c] + Cardinality(Telling(c)) <= logged[c]
    BY <1>3 DEF CodeIsCounted
  <2>2. QED
    BY <1>2, <1>3, <1>4, <2>1
<1>6. QED
  BY <1>5, SameCount

\* However replicas, failures and redeliveries interleave, no trouble code that was
\* logged or announced is lost in dtcs, a code has at most a row for each replica, and
\* the health that Redis and Kafka tell is scored from rows there are.
THEOREM DiagnosticsCorrect ==
    D!Spec => [](D!TypeOK /\ D!DetectionsAreCounted /\ D!HealthIsGrounded)
<1>1. DiagnosticsInv => D!TypeOK
  BY DEF DiagnosticsInv
<1>2. QED
  BY <1>1, DiagnosticsInvInit, DiagnosticsInvStep, DiagnosticsGrounded, PTL DEF D!Spec
-----------------------------------------------------------------------------
\* The driver behaviour service

DriverAlone(w) == \A x \in Workers \ {w} : driverTask'[x] = driverTask[x]

DriverStages == {"driver", "record", "detect", "risk", "again", "count", "upsert",
                 "cache", "emit", "fill"}

\* What a call has counted is recorded, and what it is about to cache has a row.
DriverTold(w) ==
    driverTask[w] # None =>
        /\ driverTask[w].at \in {"count", "upsert", "cache", "emit", "fill"} =>
              driverTask[w].who \in Drivers
        /\ driverTask[w].at \in {"upsert", "cache", "emit", "fill"} =>
              driverTask[w].count <= recorded[driverTask[w].who]
        /\ driverTask[w].at \in {"cache", "emit", "fill"} =>
              score[driverTask[w].who] # None

\* The workers that are about to announce an event, and a risk
Detecting(d) == {w \in Workers : B!Running(w, "detect") /\ driverTask[w].who = d}
Risking(d) == {w \in Workers : B!Running(w, "risk") /\ driverTask[w].who = d}

\* The events of a driver make room for what is announced of them.
EventsAreCounted(d) ==
    /\ detected[d] + Cardinality(Detecting(d)) <= recorded[d]
    /\ risks[d] + Cardinality(Risking(d)) <= detected[d]

ScoreIsCounted(d) ==
    /\ score[d] # None => score[d] <= recorded[d]
    /\ cachedScore[d] # None => score[d] # None /\ cachedScore[d] <= recorded[d]
    /\ \A n \in scored[d] : n <= recorded[d]

DriverInv ==
    /\ B!TypeOK
    /\ \A w \in Workers : DriverTold(w)
    /\ \A d \in B!Anyone : EventsAreCounted(d)
    /\ \A d \in Drivers : ScoreIsCounted(d)

LEMMA DriverTaskType ==
    ASSUME B!TypeOK, NEW w \in Workers, driverTask[w] # None
    PROVE  /\ driverTask[w] \in B!Task
           /\ driverTask[w].who \in B!Anyone /\ driverTask[w].count \in Nat
  BY DEF B!TypeOK, B!Task

LEMMA DriverBecomes ==
    ASSUME B!TypeOK, NEW w \in Workers, NEW t \in B!Task,
           driverTask' = [driverTask EXCEPT ![w] = t]
    PROVE  /\ driverTask' \in [Workers -> B!Task \cup {None}]
           /\ driverTask'[w] = t /\ driverTask'[w] # None /\ DriverAlone(w)
  BY PlaceholderAssumption DEF B!TypeOK, DriverAlone

LEMMA DriverContinues ==
    ASSUME B!TypeOK, NEW w \in Workers, driverTask[w] # None, NEW at \in DriverStages,
           B!Continue(w, at)
    PROVE  /\ driverTask' \in [Workers -> B!Task \cup {None}]
           /\ driverTask'[w] # None /\ DriverAlone(w) /\ driverTask'[w].at = at
           /\ driverTask'[w].who = driverTask[w].who
           /\ driverTask'[w].count = driverTask[w].count
<1> DEFINE t == [driverTask[w] EXCEPT !.at = at]
<1>1. driverTask[w] \in B!Task
  BY DriverTaskType
<1>2. /\ t \in B!Task /\ t.at = at /\ t.who = driverTask[w].who
      /\ t.count = driverTask[w].count
  BY <1>1 DEF B!Task, DriverStages
<1>3. driverTask' = [driverTask EXCEPT ![w] = t]
  BY DEF B!Continue
<1> HIDE DEF t
<1>4. QED
  BY <1>2, <1>3, DriverBecomes

LEMMA DriverFinishes ==
    ASSUME B!TypeOK, NEW w \in Workers, B!Finish(w)
    PROVE  /\ driverTask' \in [Workers -> B!Task \cup {None}]
           /\ driverTask'[w] = None /\ DriverAlone(w)
  BY DEF B!TypeOK, B!Finish, DriverAlone

LEMMA DriverInvInit == B!Init => DriverInv
<1> SUFFICES ASSUME B!Init PROVE DriverInv
  OBVIOUS
<1>1. B!TypeOK
  BY DEF B!Init, B!DeliveryInit, B!TypeOK, B!Anyone
<1>2. \A w \in Workers : DriverTold(w)
  BY DEF B!Init, B!DeliveryInit, DriverTold
<1>3. ASSUME NEW d \in B!Anyone PROVE EventsAreCounted(d)
  <2>1. /\ recorded[d] = 0 /\ detected[d] = 0 /\ risks[d] = 0
        /\ Detecting(d) = {} /\ Risking(d) = {}
    BY DEF B!Init, B!DeliveryInit, Detecting, Risking, B!Running
  <2>2. QED
    BY <2>1, FS_EmptySet DEF EventsAreCounted
<1>4. \A d \in Drivers : ScoreIsCounted(d)
  BY DEF B!Init, ScoreIsCounted
<1>5. QED
  BY <1>1, <1>2, <1>3, <1>4 DEF DriverInv

\* No event and no row of a score is ever taken back.
DriverGrows ==
    /\ \A d \in B!Anyone : recorded[d] <= recorded'[d]
    /\ \A d \in Drivers : score[d] # None => score'[d] # None

\* What the other workers have counted is still recorded.
LEMMA OtherCountsStay ==
    ASSUME DriverInv, B!TypeOK', DriverGrows, NEW w \in Workers, DriverAlone(w), DriverTold(w)'
    PROVE  \A x \in Workers : DriverTold(x)'
<1> SUFFICES ASSUME NEW x \in Workers, x # w, driverTask[x] # None PROVE DriverTold(x)'
  BY DEF DriverAlone, DriverTold
<1>1. driverTask'[x] = driverTask[x] /\ DriverTold(x)
  BY DEF DriverAlone, DriverInv
<1>2. driverTask[x].who \in B!Anyone /\ driverTask[x].count \in Nat
  BY DriverTaskType DEF DriverInv
<1>3. recorded[driverTask[x].who] \in Nat /\ recorded'[driverTask[x].who] \in Nat
      /\ recorded[driverTask[x].who] <= recorded'[driverTask[x].who]
  BY <1>2 DEF DriverInv, B!TypeOK, DriverGrows
<1>4. QED
  BY <1>1, <1>2, <1>3 DEF DriverTold, DriverGrows

\* What the sets of those that are about to announce become in a step of w
LEMMA AnnouncersChange ==
    ASSUME NEW w \in Workers, DriverAlone(w), NEW d
    PROVE  /\ \E n \in Nat : /\ Cardinality(Detecting(d)) = IF w \in Detecting(d) THEN n + 1 ELSE n
                             /\ Cardinality(Detecting(d)') = IF w \in Detecting(d)' THEN n + 1 ELSE n
           /\ \E n \in Nat : /\ Cardinality(Risking(d)) = IF w \in Risking(d) THEN n + 1 ELSE n
                             /\ Cardinality(Risking(d)') = IF w \in Risking(d)' THEN n + 1 ELSE n
<1>1. Detecting(d) \ {w} = Detecting(d)' \ {w} /\ Risking(d) \ {w} = Risking(d)' \ {w}
  BY DEF DriverAlone, Detecting, Risking, B!Running
<1>2. /\ Detecting(d) \in SUBSET Workers /\ Risking(d) \in SUBSET Workers
      /\ Detecting(d)' \in SUBSET Workers /\ Risking(d)' \in SUBSET Workers
  BY DEF Detecting, Risking
<1>3. QED
  BY <1>1, <1>2, OthersStay

\* A step that records nothing of a driver and after which w is not about to announce
LEMMA EventsStay ==
    ASSUME DriverInv, NEW w \in Workers, DriverAlone(w), NEW d \in B!Anyone,
           UNCHANGED <<recorded[d], detected[d], risks[d]>>,
           w \notin Detecting(d)', w \notin Risking(d)'
    PROVE  EventsAreCounted(d)'
<1>1. PICK n \in Nat : /\ Cardinality(Detecting(d)) = IF w \in Detecting(d) THEN n + 1 ELSE n
                       /\ Cardinality(Detecting(d)') = n
  BY AnnouncersChange
<1>2. PICK m \in Nat : /\ Cardinality(Risking(d)) = IF w \in Risking(d) THEN m + 1 ELSE m
                       /\ Cardinality(Risking(d)') = m
  BY AnnouncersChange
<1>3. /\ detected[d] + Cardinality(Detecting(d)) <= recorded[d]
      /\ risks[d] + Cardinality(Risking(d)) <= detected[d]
      /\ recorded[d] \in Nat /\ detected[d] \in Nat /\ risks[d] \in Nat
  BY DEF DriverInv, EventsAreCounted, B!TypeOK
<1>4. detected[d] + Cardinality(Detecting(d)') <= recorded[d]
      /\ risks[d] + Cardinality(Risking(d)') <= detected[d]
  BY <1>1, <1>2, <1>3
<1>5. QED
  BY <1>4 DEF EventsAreCounted

\* A step of w that records no event
LEMMA DriverReads ==
    ASSUME DriverInv, B!TypeOK', UNCHANGED <<recorded, detected, risks>>,
           NEW w \in Workers, DriverAlone(w), DriverTold(w)',
           driverTask'[w] = None \/ driverTask'[w].at \notin {"detect", "risk"},
           \A d \in Drivers : ScoreIsCounted(d)',
           \A d \in Drivers : score[d] # None => score'[d] # None
    PROVE  DriverInv'
<1>1. DriverGrows
  BY DEF DriverGrows, DriverInv, B!TypeOK
<1>2. \A x \in Workers : DriverTold(x)'
  BY <1>1, OtherCountsStay
<1>3. ASSUME NEW d \in B!Anyone PROVE EventsAreCounted(d)'
  <2>1. w \notin Detecting(d)' /\ w \notin Risking(d)'
    BY DEF Detecting, Risking, B!Running
  <2>2. QED
    BY <2>1, EventsStay
<1>4. QED
  BY <1>2, <1>3 DEF DriverInv

\* A step of w that records an event or announces it
LEMMA DriverRecords ==
    ASSUME DriverInv, B!TypeOK', DriverGrows, NEW w \in Workers, DriverAlone(w), DriverTold(w)',
           UNCHANGED <<score, cachedScore, scored>>,
           \A d \in B!Anyone : EventsAreCounted(d)'
    PROVE  DriverInv'
<1>1. \A x \in Workers : DriverTold(x)'
  BY OtherCountsStay
<1>2. ASSUME NEW d \in Drivers PROVE ScoreIsCounted(d)'
  <2>1. ScoreIsCounted(d) /\ d \in B!Anyone
    BY DEF DriverInv, B!Anyone
  <2>2. /\ recorded[d] \in Nat /\ recorded'[d] \in Nat /\ recorded[d] <= recorded'[d]
        /\ score[d] \in Nat \cup {None} /\ cachedScore[d] \in Nat \cup {None}
        /\ scored[d] \subseteq Nat
    BY <2>1 DEF DriverInv, B!TypeOK, DriverGrows
  <2>3. QED
    BY <2>1, <2>2 DEF ScoreIsCounted
<1>3. QED
  BY <1>1, <1>2 DEF DriverInv

\* A step of w that changes nothing but w, and what was delivered
LEMMA DriverMoves ==
    ASSUME DriverInv, NEW w \in Workers, DriverAlone(w), DriverTold(w)',
           driverTask' \in [Workers -> B!Task \cup {None}],
           driverTask'[w] = None \/ driverTask'[w].at \notin {"detect", "risk"},
           UNCHANGED <<inbox, driver, recorded, detected, risks, score, cachedScore, scored>>,
           driverTaken' \subseteq DOMAIN inbox, driverAgain' \subseteq DOMAIN inbox
    PROVE  DriverInv'
<1>1. B!TypeOK'
  BY DEF DriverInv, B!TypeOK
<1>2. \A d \in Drivers : ScoreIsCounted(d)'
  BY DEF DriverInv, ScoreIsCounted
<1>3. QED
  BY <1>1, <1>2, DriverReads

LEMMA DriverReceiveStep ==
    ASSUME DriverInv, NEW w \in Workers, NEW i \in DOMAIN inbox, B!Receive(w, i)
    PROVE  DriverInv'
<1> DEFINE t == [at |-> "driver", msg |-> i, who |-> None, count |-> 0]
<1>1. B!TypeOK /\ i \in Nat
  BY DEF DriverInv, B!TypeOK
<1>2. t \in B!Task /\ t.at = "driver"
  BY <1>1 DEF B!Task, B!Anyone
<1>3. /\ driverTask' = [driverTask EXCEPT ![w] = t]
      /\ driverTaken' = driverTaken \cup {i} /\ driverAgain' = driverAgain
      /\ UNCHANGED <<inbox, driver, recorded, detected, risks, score, cachedScore, scored>>
  BY DEF B!Receive, B!Deliver, B!store
<1> HIDE DEF t
<1>4. /\ driverTask' \in [Workers -> B!Task \cup {None}]
      /\ driverTask'[w] = t /\ DriverAlone(w)
  BY <1>1, <1>2, <1>3, DriverBecomes
<1>5. DriverTold(w)'
  BY <1>2, <1>4 DEF DriverTold
<1>6. driverTaken' \subseteq DOMAIN inbox /\ driverAgain' \subseteq DOMAIN inbox
  BY <1>1, <1>3 DEF B!TypeOK
<1>7. QED
  BY <1>2, <1>3, <1>4, <1>5, <1>6, DriverMoves

\* The two lookups of the driver, and the count of the events
LEMMA FindAndCountStep ==
    ASSUME DriverInv, NEW w \in Workers,
           B!FindDriver(w) \/ B!FindDriverAgain(w) \/ B!CountEvents(w)
    PROVE  DriverInv'
<1>1. /\ B!TypeOK /\ driverTask[w] # None /\ driverTask[w] \in B!Task /\ DriverTold(w)
      /\ driver \in B!Anyone
  BY DriverTaskType
     DEF DriverInv, B!FindDriver, B!FindDriverAgain, B!CountEvents, B!Running, B!TypeOK
<1>2. /\ UNCHANGED <<inbox, driver, recorded, detected, risks, score, cachedScore, scored>>
      /\ driverTaken' \subseteq DOMAIN inbox /\ driverAgain' \subseteq DOMAIN inbox
  BY <1>1 DEF B!FindDriver, B!FindDriverAgain, B!CountEvents, B!store, B!TypeOK
<1>3. ASSUME NEW t \in B!Task, driverTask' = [driverTask EXCEPT ![w] = t],
             t.at \in {"record", "again", "count", "upsert"},
             t.at \in {"count", "upsert"} => t.who \in Drivers,
             t.at = "upsert" => t.count <= recorded[t.who]
      PROVE  DriverInv'
  <2>1. /\ driverTask' \in [Workers -> B!Task \cup {None}]
        /\ driverTask'[w] = t /\ DriverAlone(w)
    BY <1>1, <1>3, DriverBecomes
  <2>2. DriverTold(w)'
    BY <1>2, <1>3, <2>1 DEF DriverTold
  <2>3. QED
    BY <1>2, <1>3, <2>1, <2>2, DriverMoves
<1>4. CASE B!FindDriver(w)
  <2>1. PICK at \in {"record", "again"} :
            driverTask' = [driverTask EXCEPT ![w].who = driver, ![w].at = at]
    BY <1>4 DEF B!FindDriver
  <2> DEFINE t == [driverTask[w] EXCEPT !.who = driver, !.at = at]
  <2>2. t \in B!Task /\ t.at = at
    BY <1>1 DEF B!Task
  <2>3. driverTask' = [driverTask EXCEPT ![w] = t]
    BY <1>1, <2>1 DEF B!TypeOK
  <2> HIDE DEF t
  <2>4. QED
    BY <1>3, <2>2, <2>3
<1>5. CASE B!FindDriverAgain(w)
  <2>1. CASE driver = None
    <3>1. /\ driverTask' \in [Workers -> B!Task \cup {None}]
          /\ driverTask'[w] = None /\ DriverAlone(w)
      BY <1>1, <1>5, <2>1, DriverFinishes DEF B!FindDriverAgain
    <3>2. DriverTold(w)'
      BY <3>1 DEF DriverTold
    <3>3. QED
      BY <1>2, <3>1, <3>2, DriverMoves
  <2>2. CASE driver # None
    <3> DEFINE t == [driverTask[w] EXCEPT !.who = driver, !.at = "count"]
    <3>1. t \in B!Task /\ t.at = "count" /\ t.who = driver /\ driver \in Drivers
      BY <1>1, <2>2 DEF B!Task, B!Anyone
    <3>2. driverTask' = [driverTask EXCEPT ![w] = t]
      BY <1>1, <1>5, <2>2 DEF B!FindDriverAgain, B!TypeOK
    <3> HIDE DEF t
    <3>3. QED
      BY <1>3, <3>1, <3>2
  <2>3. QED
    BY <2>1, <2>2
<1>6. CASE B!CountEvents(w)
  <2> DEFINE d == driverTask[w].who
             t == [driverTask[w] EXCEPT !.count = B!Found(d), !.at = "upsert"]
  <2>1. d \in Drivers /\ recorded[d] \in Nat
    BY <1>1, <1>6 DEF B!CountEvents, B!Running, DriverTold, B!TypeOK, B!Anyone
  <2>2. B!Found(d) \in Nat /\ B!Found(d) <= recorded[d]
    BY <2>1, SignalsAssumption DEF B!Found, B!BehaviourAssumption
  <2>3. t \in B!Task /\ t.at = "upsert" /\ t.who = d /\ t.count = B!Found(d)
    BY <1>1, <2>2 DEF B!Task
  <2>4. driverTask' = [driverTask EXCEPT ![w] = t]
    BY <1>1, <1>6 DEF B!CountEvents, B!TypeOK
  <2> HIDE DEF t
  <2>5. QED
    BY <1>3, <2>1, <2>2, <2>3, <2>4
<1>7. QED
  BY <1>4, <1>5, <1>6

LEMMA RecordStep ==
    ASSUME DriverInv, NEW w \in Workers, B!Record(w)
    PROVE  DriverInv'
<1> DEFINE d0 == driverTask[w].who
<1>1. /\ B!TypeOK /\ driverTask[w] # None /\ driverTask[w].at = "record"
      /\ d0 \in B!Anyone /\ B!Continue(w, "detect")
  BY DriverTaskType DEF DriverInv, B!Record, B!Running
<1>2. /\ driverTask' \in [Workers -> B!Task \cup {None}] /\ driverTask'[w] # None
      /\ DriverAlone(w) /\ driverTask'[w].at = "detect" /\ driverTask'[w].who = d0
  BY <1>1, DriverContinues DEF DriverStages
<1>3. UNCHANGED <<inbox, driver, detected, risks, score, cachedScore, scored,
                  driverTaken, driverAgain>>
  BY DEF B!Record
<1>4. /\ recorded' \in [B!Anyone -> Nat] /\ recorded'[d0] = recorded[d0] + 1
      /\ \A d \in B!Anyone : d # d0 => recorded'[d] = recorded[d]
      /\ \A d \in B!Anyone : recorded[d] \in Nat /\ recorded[d] <= recorded'[d]
  BY <1>1 DEF B!Record, B!TypeOK
<1>5. B!TypeOK' /\ DriverGrows /\ DriverTold(w)'
  BY <1>1, <1>2, <1>3, <1>4 DEF B!TypeOK, DriverGrows, DriverTold
<1>6. ASSUME NEW d \in B!Anyone PROVE EventsAreCounted(d)'
  <2>1. CASE d # d0
    <3>1. w \notin Detecting(d)' /\ w \notin Risking(d)'
      BY <1>2, <2>1 DEF Detecting, Risking, B!Running
    <3>2. QED
      BY <1>2, <1>3, <1>4, <2>1, <3>1, EventsStay
  <2>2. CASE d = d0
    <3>1. /\ w \in Detecting(d)' /\ w \notin Risking(d)'
          /\ w \notin Detecting(d) /\ w \notin Risking(d)
      BY <1>1, <1>2, <2>2 DEF Detecting, Risking, B!Running
    <3>2. PICK n \in Nat : Cardinality(Detecting(d)) = n /\ Cardinality(Detecting(d)') = n + 1
      BY <1>2, <3>1, AnnouncersChange
    <3>3. Cardinality(Risking(d)') = Cardinality(Risking(d))
      BY <1>2, <3>1, AnnouncersChange
    <3>4. /\ detected[d] + Cardinality(Detecting(d)) <= recorded[d]
          /\ risks[d] + Cardinality(Risking(d)) <= detected[d] /\ detected[d] \in Nat
      BY <1>1 DEF DriverInv, EventsAreCounted, B!TypeOK
    <3>5. detected[d] + Cardinality(Detecting(d)') <= recorded'[d]
      BY <1>4, <2>2, <3>2, <3>4
    <3>6. QED
      BY <1>3, <3>3, <3>4, <3>5 DEF EventsAreCounted
  <2>3. QED
    BY <2>1, <2>2
<1>7. QED
  BY <1>2, <1>3, <1>5, <1>6, DriverRecords

LEMMA EmitDetectedStep ==
    ASSUME DriverInv, NEW w \in Workers, B!EmitDetected(w)
    PROVE  DriverInv'
<1> DEFINE d0 == driverTask[w].who
<1>1. /\ B!TypeOK /\ driverTask[w] # None /\ driverTask[w].at = "detect"
      /\ d0 \in B!Anyone /\ B!Continue(w, "risk")
  BY DriverTaskType DEF DriverInv, B!EmitDetected, B!Running
<1>2. /\ driverTask' \in [Workers -> B!Task \cup {None}] /\ driverTask'[w] # None
      /\ DriverAlone(w) /\ driverTask'[w].at = "risk" /\ driverTask'[w].who = d0
  BY <1>1, DriverContinues DEF DriverStages
<1>3. UNCHANGED <<inbox, driver, recorded, risks, score, cachedScore, scored,
                  driverTaken, driverAgain>>
  BY DEF B!EmitDetected
<1>4. /\ detected' \in [B!Anyone -> Nat] /\ detected'[d0] = detected[d0] + 1
      /\ \A d \in B!Anyone : d # d0 => detected'[d] = detected[d]
  BY <1>1 DEF B!EmitDetected, B!TypeOK
<1>5. B!TypeOK' /\ DriverGrows /\ DriverTold(w)'
  <2>1. B!TypeOK'
    BY <1>1, <1>2, <1>3, <1>4 DEF B!TypeOK
  <2>2. DriverGrows
    BY <1>1, <1>3 DEF B!TypeOK, DriverGrows
  <2>3. DriverTold(w)'
    BY <1>2 DEF DriverTold
  <2>4. QED
    BY <2>1, <2>2, <2>3
<1>6. ASSUME NEW d \in B!Anyone PROVE EventsAreCounted(d)'
  <2>1. CASE d # d0
    <3>1. w \notin Detecting(d)' /\ w \notin Risking(d)'
      BY <1>2, <2>1 DEF Detecting, Risking, B!Running
    <3>2. QED
      BY <1>2, <1>3, <1>4, <2>1, <3>1, EventsStay
  <2>2. CASE d = d0
    <3>1. /\ w \notin Detecting(d)' /\ w \in Risking(d)'
          /\ w \in Detecting(d) /\ w \notin Risking(d)
      BY <1>1, <1>2, <2>2 DEF Detecting, Risking, B!Running
    <3>2. PICK n \in Nat : Cardinality(Detecting(d)) = n + 1 /\ Cardinality(Detecting(d)') = n
      BY <1>2, <3>1, AnnouncersChange
    <3>3. PICK m \in Nat : Cardinality(Risking(d)) = m /\ Cardinality(Risking(d)') = m + 1
      BY <1>2, <3>1, AnnouncersChange
    <3>4. /\ detected[d] + Cardinality(Detecting(d)) <= recorded[d]
          /\ risks[d] + Cardinality(Risking(d)) <= detected[d]
          /\ detected[d] \in Nat /\ recorded[d] \in Nat /\ risks[d] \in Nat
      BY <1>1 DEF DriverInv, EventsAreCounted, B!TypeOK
    <3>5. /\ detected'[d] + Cardinality(Detecting(d)') <= recorded[d]
          /\ risks[d] + Cardinality(Risking(d)') <= detected'[d]
      BY <1>4, <2>2, <3>2, <3>3, <3>4
    <3>6. QED
      BY <1>3, <3>5 DEF EventsAreCounted
  <2>3. QED
    BY <2>1, <2>2
<1>7. QED
  BY <1>2, <1>3, <1>5, <1>6, DriverRecords

LEMMA EmitRiskStep ==
    ASSUME DriverInv, NEW w \in Workers, B!EmitRisk(w)
    PROVE  DriverInv'
<1> DEFINE d0 == driverTask[w].who
<1>1. /\ B!TypeOK /\ driverTask[w] # None /\ driverTask[w].at = "risk"
      /\ d0 \in B!Anyone /\ B!Continue(w, "again")
  BY DriverTaskType DEF DriverInv, B!EmitRisk, B!Running
<1>2. /\ driverTask' \in [Workers -> B!Task \cup {None}] /\ driverTask'[w] # None
      /\ DriverAlone(w) /\ driverTask'[w].at = "again"
  BY <1>1, DriverContinues DEF DriverStages
<1>3. UNCHANGED <<inbox, driver, recorded, detected, score, cachedScore, scored,
                  driverTaken, driverAgain>>
  BY DEF B!EmitRisk
<1>4. /\ risks' \in [B!Anyone -> Nat] /\ risks'[d0] = risks[d0] + 1
      /\ \A d \in B!Anyone : d # d0 => risks'[d] = risks[d]
  BY <1>1 DEF B!EmitRisk, B!TypeOK
<1>5. B!TypeOK' /\ DriverGrows /\ DriverTold(w)'
  <2>1. B!TypeOK'
    BY <1>1, <1>2, <1>3, <1>4 DEF B!TypeOK
  <2>2. DriverGrows
    BY <1>1, <1>3 DEF B!TypeOK, DriverGrows
  <2>3. DriverTold(w)'
    BY <1>2 DEF DriverTold
  <2>4. QED
    BY <2>1, <2>2, <2>3
<1>6. ASSUME NEW d \in B!Anyone PROVE EventsAreCounted(d)'
  <2>0. w \notin Detecting(d)' /\ w \notin Risking(d)'
    BY <1>2 DEF Detecting, Risking, B!Running
  <2>1. CASE d # d0
    BY <1>2, <1>3, <1>4, <2>0, <2>1, EventsStay
  <2>2. CASE d = d0
    <3>1. w \notin Detecting(d) /\ w \in Risking(d)
      BY <1>1, <2>2 DEF Detecting, Risking, B!Running
    <3>2. Cardinality(Detecting(d)') = Cardinality(Detecting(d))
      BY <1>2, <2>0, <3>1, AnnouncersChange
    <3>3. PICK m \in Nat : Cardinality(Risking(d)) = m + 1 /\ Cardinality(Risking(d)') = m
      BY <1>2, <2>0, <3>1, AnnouncersChange
    <3>4. /\ detected[d] + Cardinality(Detecting(d)) <= recorded[d]
          /\ risks[d] + Cardinality(Risking(d)) <= detected[d]
          /\ detected[d] \in Nat /\ risks[d] \in Nat
      BY <1>1 DEF DriverInv, EventsAreCounted, B!TypeOK
    <3>5. risks'[d] + Cardinality(Risking(d)') <= detected[d]
      BY <1>4, <2>2, <3>3, <3>4
    <3>6. QED
      BY <1>3, <3>2, <3>4, <3>5 DEF EventsAreCounted
  <2>3. QED
    BY <2>1, <2>2
<1>7. QED
  BY <1>2, <1>3, <1>5, <1>6, DriverRecords

\* The writes of the score, each of a count of recorded events
LEMMA WriteScoreStep ==
    ASSUME DriverInv, NEW w \in Workers, B!UpsertScore(w) \/ B!CacheScore(w) \/ B!EmitScore(w)
    PROVE  DriverInv'
<1> DEFINE d0 == driverTask[w].who
           n == driverTask[w].count
<1>1. /\ B!TypeOK /\ driverTask[w] # None /\ n \in Nat /\ d0 \in Drivers
      /\ n <= recorded[d0] /\ n # None
      /\ B!UpsertScore(w) \/ score[d0] # None
  BY DriverTaskType, PlaceholderAssumption
     DEF DriverInv, DriverTold, B!UpsertScore, B!CacheScore, B!EmitScore, B!Running
<1>2. UNCHANGED <<inbox, driver, recorded, detected, risks, driverTaken, driverAgain>>
  BY DEF B!UpsertScore, B!CacheScore, B!EmitScore
<1>3. /\ driverTask' \in [Workers -> B!Task \cup {None}] /\ DriverAlone(w)
      /\ \/ driverTask'[w] = None
         \/ /\ driverTask'[w].at \in {"cache", "emit"} /\ driverTask'[w].who = d0
            /\ driverTask'[w].count = n
  <2>1. CASE B!Finish(w)
    BY <1>1, <2>1, DriverFinishes
  <2>2. CASE \E at \in {"cache", "emit"} : B!Continue(w, at)
    BY <1>1, <2>2, DriverContinues DEF DriverStages
  <2>3. QED
    BY <2>1, <2>2 DEF B!UpsertScore, B!CacheScore, B!EmitScore
<1>4. /\ score' \in [Drivers -> Nat \cup {None}] /\ cachedScore' \in [Drivers -> Nat \cup {None}]
      /\ scored' \in [Drivers -> SUBSET Nat]
      /\ score'[d0] # None
      /\ \A d \in Drivers :
            /\ score'[d] = score[d] \/ (d = d0 /\ score'[d] = n)
            /\ cachedScore'[d] = cachedScore[d] \/ (d = d0 /\ cachedScore'[d] = n)
            /\ scored'[d] \subseteq scored[d] \cup {n}
            /\ d # d0 => scored'[d] = scored[d]
  <2>1. CASE B!UpsertScore(w)
    <3>1. score' = [score EXCEPT ![d0] = n] /\ UNCHANGED <<cachedScore, scored>>
      BY <2>1 DEF B!UpsertScore
    <3>2. QED
      BY <1>1, <3>1 DEF B!TypeOK
  <2>2. CASE B!CacheScore(w)
    <3>1. cachedScore' = [cachedScore EXCEPT ![d0] = n] /\ UNCHANGED <<score, scored>>
      BY <2>2 DEF B!CacheScore
    <3>2. score[d0] # None
      BY <1>1, <2>2 DEF B!CacheScore, B!UpsertScore, B!Running
    <3>3. QED
      BY <1>1, <3>1, <3>2 DEF B!TypeOK
  <2>3. CASE B!EmitScore(w)
    <3>1. scored' = [scored EXCEPT ![d0] = @ \cup {n}] /\ UNCHANGED <<score, cachedScore>>
      BY <2>3 DEF B!EmitScore
    <3>2. score[d0] # None
      BY <1>1, <2>3 DEF B!EmitScore, B!UpsertScore, B!Running
    <3>3. QED
      BY <1>1, <3>1, <3>2 DEF B!TypeOK
  <2>4. QED
    BY <2>1, <2>2, <2>3
<1>5. B!TypeOK'
  BY <1>1, <1>2, <1>3, <1>4 DEF B!TypeOK
<1>6. DriverTold(w)'
  BY <1>1, <1>2, <1>3, <1>4 DEF DriverTold
<1>7. ASSUME NEW d \in Drivers
      PROVE  ScoreIsCounted(d)' /\ (score[d] # None => score'[d] # None)
  BY <1>1, <1>2, <1>4 DEF DriverInv, ScoreIsCounted
<1>8. QED
  BY <1>2, <1>3, <1>5, <1>6, <1>7, DriverReads

LEMMA StartScoreStep ==
    ASSUME DriverInv, NEW w \in Workers, NEW d \in Drivers, B!StartScore(w, d)
    PROVE  DriverInv'
<1> DEFINE t == [at |-> "fill", msg |-> 0, who |-> d, count |-> score[d]]
<1>1. B!TypeOK /\ score[d] \in Nat /\ score[d] <= recorded[d] /\ score[d] # None
  BY DEF DriverInv, B!TypeOK, ScoreIsCounted, B!StartScore
<1>2. t \in B!Task /\ t.at = "fill" /\ t.who = d /\ t.count = score[d]
  BY <1>1 DEF B!Task, B!Anyone
<1>3. /\ driverTask' = [driverTask EXCEPT ![w] = t] /\ UNCHANGED <<driverTaken, driverAgain>>
      /\ UNCHANGED <<inbox, driver, recorded, detected, risks, score, cachedScore, scored>>
  BY DEF B!StartScore, B!Call, B!store
<1> HIDE DEF t
<1>4. /\ driverTask' \in [Workers -> B!Task \cup {None}]
      /\ driverTask'[w] = t /\ DriverAlone(w)
  BY <1>1, <1>2, <1>3, DriverBecomes
<1>5. DriverTold(w)' /\ driverTaken' \subseteq DOMAIN inbox /\ driverAgain' \subseteq DOMAIN inbox
  BY <1>1, <1>2, <1>3, <1>4 DEF DriverTold, B!TypeOK
<1>6. QED
  BY <1>2, <1>3, <1>4, <1>5, DriverMoves

LEMMA DriverFailStep ==
    ASSUME DriverInv, NEW w \in Workers, B!Fail(w)
    PROVE  DriverInv'
<1>1. /\ B!Finish(w)
      /\ UNCHANGED <<inbox, driver, recorded, detected, risks, score, cachedScore, scored>>
      /\ UNCHANGED <<driverTaken, driverAgain>>
  BY DEF B!Fail, B!Reject, B!store
<1>2. B!TypeOK
  BY DEF DriverInv
<1>3. /\ driverTask' \in [Workers -> B!Task \cup {None}]
      /\ driverTask'[w] = None /\ DriverAlone(w)
  BY <1>1, <1>2, DriverFinishes
<1>4. DriverTold(w)' /\ driverTaken' \subseteq DOMAIN inbox /\ driverAgain' \subseteq DOMAIN inbox
  BY <1>1, <1>2, <1>3 DEF DriverTold, B!TypeOK
<1>5. QED
  BY <1>1, <1>3, <1>4, DriverMoves

LEMMA DriverInvStep == DriverInv /\ [B!Next]_(B!vars) => DriverInv'
<1> SUFFICES ASSUME DriverInv, [B!Next]_(B!vars) PROVE DriverInv'
  OBVIOUS
<1>1. B!TypeOK
  BY DEF DriverInv
<1>2. ASSUME UNCHANGED <<driverTask, recorded, detected, risks, score, scored>>, B!TypeOK',
             \A d \in Drivers : cachedScore'[d] \in {cachedScore[d], None}
      PROVE  DriverInv'
  <2>1. \A w \in Workers : DriverTold(w)'
    BY <1>2 DEF DriverInv, DriverTold
  <2>2. \A d \in B!Anyone : EventsAreCounted(d)'
    BY <1>2 DEF DriverInv, EventsAreCounted, Detecting, Risking, B!Running
  <2>3. \A d \in Drivers : ScoreIsCounted(d)'
    BY <1>2 DEF DriverInv, ScoreIsCounted
  <2>4. QED
    BY <1>2, <2>1, <2>2, <2>3 DEF DriverInv
<1>3. ASSUME NEW d \in Drivers, B!ExpireScore(d) PROVE DriverInv'
  <2>1. UNCHANGED <<inbox, driverTaken, driverAgain, driverTask, driver, recorded, detected,
                    risks, score, scored>>
    BY <1>3 DEF B!ExpireScore, B!delivery
  <2>2. /\ cachedScore' \in [Drivers -> Nat \cup {None}]
        /\ \A x \in Drivers : cachedScore'[x] \in {cachedScore[x], None}
    BY <1>1, <1>3 DEF B!ExpireScore, B!TypeOK
  <2>3. B!TypeOK'
    BY <1>1, <2>1, <2>2 DEF B!TypeOK
  <2>4. QED
    BY <1>2, <2>1, <2>2, <2>3
<1>4. ASSUME NEW d \in B!Anyone, B!Reassign(d) PROVE DriverInv'
  <2>1. UNCHANGED <<inbox, driverTaken, driverAgain, driverTask, recorded, detected,
                    risks, score, cachedScore, scored>>
    BY <1>4 DEF B!Reassign, B!delivery
  <2>2. B!TypeOK'
    BY <1>1, <1>4, <2>1 DEF B!TypeOK, B!Reassign
  <2>3. QED
    BY <1>2, <2>1, <2>2
<1>5. ASSUME NEW m \in Messages, B!Arrive(m) PROVE DriverInv'
  <2>1. /\ inbox' = Append(inbox, m)
        /\ UNCHANGED <<driverTaken, driverAgain, driverTask, driver, recorded, detected,
                       risks, score, cachedScore, scored>>
    BY <1>5 DEF B!Arrive, B!delivery, B!store
  <2>2. inbox' \in Seq(Messages) /\ DOMAIN inbox \subseteq DOMAIN inbox'
    BY <1>1, <2>1 DEF B!TypeOK
  <2>3. B!TypeOK'
    BY <1>1, <2>1, <2>2 DEF B!TypeOK
  <2>4. QED
    BY <1>2, <2>1, <2>3
<1>6. CASE UNCHANGED B!vars
  <2>1. UNCHANGED <<inbox, driverTaken, driverAgain, driverTask, driver, recorded, detected,
                    risks, score, cachedScore, scored>>
    BY <1>6 DEF B!vars, B!delivery, B!store
  <2>2. B!TypeOK'
    BY <1>1, <2>1 DEF B!TypeOK
  <2>3. QED
    BY <1>2, <2>1, <2>2
<1>7. ASSUME NEW i \in driverTaken, B!Recommit(i) PROVE DriverInv'
  <2>1. /\ UNCHANGED <<inbox, driverTask, driver, recorded, detected, risks, score,
                       cachedScore, scored>>
        /\ driverTaken' = driverTaken \ {i} /\ driverAgain' = driverAgain \cup {i}
    BY <1>7 DEF B!Recommit, B!Redeliver, B!store
  <2>2. B!TypeOK'
    BY <1>1, <2>1 DEF B!TypeOK
  <2>3. QED
    BY <1>2, <2>1, <2>2
<1>8. QED
  BY <1>3, <1>4, <1>5, <1>6, <1>7, DriverReceiveStep, FindAndCountStep, RecordStep,
     EmitDetectedStep, EmitRiskStep, WriteScoreStep, StartScoreStep, DriverFailStep
     DEF B!Next, B!Own, B!Handle, B!Serve

LEMMA DriverGrounded == DriverInv => B!ScoreIsGrounded
<1> SUFFICES ASSUME DriverInv PROVE B!ScoreIsGrounded
  OBVIOUS
<1>1. ASSUME NEW d \in B!Anyone PROVE risks[d] <= detected[d] /\ detected[d] <= recorded[d]
  <2>1. Detecting(d) \in SUBSET Workers /\ Risking(d) \in SUBSET Workers
    BY DEF Detecting, Risking
  <2>2. Cardinality(Detecting(d)) \in Nat /\ Cardinality(Risking(d)) \in Nat
    BY <2>1, WorkersCount
  <2>3. /\ detected[d] + Cardinality(Detecting(d)) <= recorded[d]
        /\ risks[d] + Cardinality(Risking(d)) <= detected[d]
        /\ recorded[d] \in Nat /\ detected[d] \in Nat /\ risks[d] \in Nat
    BY DEF DriverInv, EventsAreCounted, B!TypeOK
  <2>4. QED
    BY <2>2, <2>3
<1>2. QED
  BY <1>1 DEF DriverInv, ScoreIsCounted, B!ScoreIsGrounded

\* However replicas, failures, redeliveries and reassignments interleave: Postgres,
\* Redis and Kafka tell no driver of more events than MongoDB has of the driver.
THEOREM BehaviourCorrect == B!Spec => [](B!TypeOK /\ B!ScoreIsGrounded)
<1>1. DriverInv => B!TypeOK
  BY DEF DriverInv
<1>2. QED
  BY <1>1, DriverInvInit, DriverInvStep, DriverGrounded, PTL DEF B!Spec
-----------------------------------------------------------------------------
\* The notification service

NoteStages == {"prefs", "create", "find", "deliver", "delivered", "fail", "failed",
               "created", "read", "delete"}

\* What a call knows of its row: what it is about to tell has been written.
NoteKnows(w) ==
    /\ noteTask[w] # None /\ noteTask[w].at \notin {"prefs", "create"} => N!Row(w) \in DOMAIN note
    /\ N!Running(w, "delivered") => note[N!Row(w)].deliveredAt
    /\ N!Running(w, "failed") => note[N!Row(w)].failureReason
    /\ N!Running(w, "delivered") \/ N!Running(w, "failed") \/ N!Running(w, "created") =>
          note[N!Row(w)].status # "PENDING"

NoteInv == N!TypeOK /\ N!AnnouncedIsRecorded /\ \A w \in Workers : NoteKnows(w)

\* What becomes of rows: they stay, and what was written to them is not taken back.
NoteLater ==
    \A n \in DOMAIN note :
        /\ n \in DOMAIN note'
        /\ note[n].status # "PENDING" => note'[n].status # "PENDING"
        /\ note[n].deliveredAt => note'[n].deliveredAt
        /\ note[n].failureReason => note'[n].failureReason

NoteAlone(w) == \A x \in Workers \ {w} : noteTask'[x] = noteTask[x]

-----------------------------------------------------------------------------
\* Tasks

LEMMA NoteTaskType ==
    ASSUME N!TypeOK, NEW w \in Workers, noteTask[w] # None
    PROVE  noteTask[w] \in N!Task
  BY DEF N!TypeOK

LEMMA NoteContinueType ==
    ASSUME N!TypeOK, NEW w \in Workers, noteTask[w] # None, NEW at \in NoteStages, N!Continue(w, at)
    PROVE  /\ noteTask' \in [Workers -> N!Task \cup {None}]
           /\ noteTask'[w] \in N!Task
           /\ noteTask'[w].at = at /\ noteTask'[w].row = noteTask[w].row
           /\ NoteAlone(w)
<1>1. noteTask[w] \in N!Task /\ noteTask \in [Workers -> N!Task \cup {None}]
  BY NoteTaskType DEF N!TypeOK
<1>2. [noteTask[w] EXCEPT !.at = at] \in N!Task
  BY <1>1 DEF N!Task, NoteStages
<1>3. QED
  BY <1>1, <1>2 DEF N!Continue, N!Task, NoteAlone

LEMMA NoteFinishType ==
    ASSUME N!TypeOK, NEW w \in Workers, N!Finish(w)
    PROVE  /\ noteTask' \in [Workers -> N!Task \cup {None}]
           /\ noteTask'[w] = None
           /\ NoteAlone(w)
  BY DEF N!TypeOK, N!Finish, NoteAlone

LEMMA NoteBeginType ==
    ASSUME N!TypeOK, NEW w \in Workers, NEW t \in N!Task, noteTask' = [noteTask EXCEPT ![w] = t]
    PROVE  /\ noteTask' \in [Workers -> N!Task \cup {None}]
           /\ noteTask'[w] = t
           /\ NoteAlone(w)
  BY DEF N!TypeOK, NoteAlone

-----------------------------------------------------------------------------
\* How a step keeps the invariant

\* Events about rows, by what is later known of these
LEMMA NoteRecordedStep ==
    ASSUME NoteInv, NoteLater, announced' = announced
    PROVE  N!AnnouncedIsRecorded'
<1> SUFFICES ASSUME NEW n \in DOMAIN note', NEW topic \in {"CREATED", "DELIVERED", "FAILED"},
                    <<topic, n>> \in announced
             PROVE  n \in DOMAIN note
  BY DEF NoteInv, N!AnnouncedIsRecorded, NoteLater
<1>1. QED
  BY DEF NoteInv, N!TypeOK

\* A step of w that takes nothing back keeps what the others know.
LEMMA NoteSoundStep ==
    ASSUME NoteInv, N!TypeOK', NoteLater, N!AnnouncedIsRecorded', NEW w \in Workers, NoteAlone(w),
           NoteKnows(w)'
    PROVE  NoteInv'
<1>1. ASSUME NEW x \in Workers, x # w PROVE NoteKnows(x)'
  <2>1. noteTask'[x] = noteTask[x] /\ N!Row(x)' = N!Row(x) /\ NoteKnows(x)
    BY <1>1 DEF NoteAlone, N!Row, NoteInv
  <2>2. QED
    BY <2>1 DEF NoteKnows, N!Running, NoteLater
<1>2. QED
  BY <1>1 DEF NoteInv

\* A step that writes no row and tells nothing
LEMMA NoteTaskOnlyStep ==
    ASSUME NoteInv, N!TypeOK', UNCHANGED <<note, announced>>, NEW w \in Workers, NoteAlone(w),
           NoteKnows(w)'
    PROVE  NoteInv'
<1>1. NoteLater /\ N!AnnouncedIsRecorded'
  BY NoteRecordedStep DEF NoteLater
<1>2. QED
  BY <1>1, NoteSoundStep

-----------------------------------------------------------------------------
LEMMA NoteInvInit == N!Init => NoteInv
  BY PlaceholderAssumption DEF N!Init, N!DeliveryInit, NoteInv, N!TypeOK,
         N!AnnouncedIsRecorded, NoteKnows, N!Running

\* A call, or a message, begins.
LEMMA NoteStartStep ==
    ASSUME NoteInv, NEW w \in Workers,
           (\E i \in DOMAIN alerts : N!Receive(w, i)) \/ N!Serve(w)
    PROVE  NoteInv'
<1>0. N!TypeOK
  BY DEF NoteInv
<1>1. ASSUME NEW t \in N!Task, noteTask' = [noteTask EXCEPT ![w] = t],
             \/ t.at \in {"prefs", "create"}
             \/ (t.at \in {"read", "delete"} /\ t.row \in DOMAIN note),
             UNCHANGED <<alerts, note, announced, noteAgain>>, noteTaken' \subseteq DOMAIN alerts
      PROVE  NoteInv'
  <2>1. noteTask' \in [Workers -> N!Task \cup {None}] /\ noteTask'[w] = t /\ NoteAlone(w)
    BY <1>0, <1>1, NoteBeginType
  <2>2. N!TypeOK'
    BY <1>0, <1>1, <2>1 DEF N!TypeOK
  <2>3. NoteKnows(w)'
    BY <1>1, <2>1 DEF NoteKnows, N!Running, N!Row
  <2>4. QED
    BY <1>1, <2>1, <2>2, <2>3, NoteTaskOnlyStep
<1>2. ASSUME NEW i \in DOMAIN alerts, N!Receive(w, i) PROVE NoteInv'
  <2>1. PICK at \in {"prefs", "create"} : noteTask' = [noteTask EXCEPT ![w] = [at |-> at, msg |-> i, row |-> 0]]
    BY <1>2 DEF N!Receive, N!Deliver
  <2>2. i \in Nat /\ [at |-> at, msg |-> i, row |-> 0] \in N!Task
    BY <1>0 DEF N!TypeOK, N!Task
  <2>3. noteTaken' \subseteq DOMAIN alerts /\ UNCHANGED <<alerts, note, announced, noteAgain>>
    BY <1>0, <1>2 DEF N!Receive, N!Deliver, N!TypeOK
  <2>4. [at |-> at, msg |-> i, row |-> 0].at \in {"prefs", "create"}
    OBVIOUS
  <2>5. QED
    BY <1>1, <2>1, <2>2, <2>3, <2>4
<1>3. ASSUME NEW at \in {"prefs", "create"}, N!StartCreate(w, at) PROVE NoteInv'
  <2>1. [at |-> at, msg |-> 0, row |-> 0] \in N!Task
    BY DEF N!Task
  <2>2. noteTask' = [noteTask EXCEPT ![w] = [at |-> at, msg |-> 0, row |-> 0]]
    BY <1>3 DEF N!StartCreate, N!Call
  <2>3. noteTaken' \subseteq DOMAIN alerts /\ UNCHANGED <<alerts, note, announced, noteAgain>>
    BY <1>0, <1>3 DEF N!StartCreate, N!Call, N!TypeOK
  <2>4. QED
    BY <1>1, <2>1, <2>2, <2>3
<1>4. ASSUME NEW n \in DOMAIN note, NEW at \in {"read", "delete"}, N!StartOn(w, n, at) PROVE NoteInv'
  <2>1. [at |-> at, msg |-> 0, row |-> n] \in N!Task
    BY <1>0 DEF N!Task, N!TypeOK
  <2>2. noteTask' = [noteTask EXCEPT ![w] = [at |-> at, msg |-> 0, row |-> n]]
    BY <1>4 DEF N!StartOn, N!Call
  <2>3. noteTaken' \subseteq DOMAIN alerts /\ UNCHANGED <<alerts, note, announced, noteAgain>>
    BY <1>0, <1>4 DEF N!StartOn, N!Call, N!TypeOK
  <2>4. QED
    BY <1>1, <2>1, <2>2, <2>3
<1>5. QED
  BY <1>2, <1>3, <1>4 DEF N!Serve

\* A statement that only reads, or rejects
LEMMA NoteReadStep ==
    ASSUME NoteInv, NEW w \in Workers,
           N!CheckPreferences(w) \/ N!FindNote(w) \/ N!Fail(w)
    PROVE  NoteInv'
<1>0. N!TypeOK /\ NoteKnows(w)
  BY DEF NoteInv
<1>1. CASE N!CheckPreferences(w)
  <2>1. /\ noteTask' \in [Workers -> N!Task \cup {None}] /\ NoteAlone(w)
        /\ noteTask'[w] = None \/ noteTask'[w].at = "create"
    BY <1>0, <1>1, NoteContinueType, NoteFinishType
       DEF N!CheckPreferences, N!Running, NoteStages
  <2>2. N!TypeOK' /\ NoteKnows(w)'
    BY <1>0, <1>1, <2>1 DEF N!CheckPreferences, N!TypeOK, NoteKnows, N!Running
  <2>3. QED
    BY <1>1, <2>1, <2>2, NoteTaskOnlyStep DEF N!CheckPreferences
<1>2. CASE N!FindNote(w)
  <2>1. PICK at \in {"deliver", "created"} :
            N!Continue(w, at) /\ (at = "created" => ~N!Exists(N!Row(w)))
    BY <1>2 DEF N!FindNote
  <2>2. /\ noteTask' \in [Workers -> N!Task \cup {None}] /\ NoteAlone(w) /\ noteTask'[w] \in N!Task
        /\ noteTask'[w].at = at /\ N!Row(w)' = N!Row(w)
    BY <1>0, <1>2, <2>1, NoteContinueType
       DEF N!FindNote, N!Running, NoteStages, N!Row
  <2>3. N!TypeOK'
    BY <1>0, <1>2, <2>2 DEF N!FindNote, N!TypeOK
  <2>4. NoteKnows(w)'
    BY <1>0, <1>2, <2>1, <2>2
       DEF N!FindNote, NoteKnows, N!Running, N!Exists
  <2>5. QED
    BY <1>2, <2>2, <2>3, <2>4, NoteTaskOnlyStep DEF N!FindNote
<1>3. CASE N!Fail(w)
  <2>1. N!Finish(w) /\ UNCHANGED <<alerts, note, announced, noteTaken, noteAgain>>
    BY <1>3 DEF N!Fail, N!Reject
  <2>2. noteTask' \in [Workers -> N!Task \cup {None}] /\ noteTask'[w] = None /\ NoteAlone(w)
    BY <1>0, <2>1, NoteFinishType
  <2>3. N!TypeOK'
    BY <1>0, <2>1, <2>2 DEF N!TypeOK
  <2>4. NoteKnows(w)'
    BY <2>2 DEF NoteKnows, N!Running
  <2>5. QED
    BY <2>1, <2>2, <2>3, <2>4, NoteTaskOnlyStep
<1>4. QED
  BY <1>1, <1>2, <1>3

\* The row is made.
LEMMA NoteCreateStep ==
    ASSUME NoteInv, NEW w \in Workers, N!CreateNote(w)
    PROVE  NoteInv'
<1>0. N!TypeOK
  BY DEF NoteInv
<1> DEFINE row == [status |-> "PENDING", src |-> noteTask[w].msg,
                   deliveredAt |-> FALSE, failureReason |-> FALSE]
           t == [noteTask[w] EXCEPT !.at = "find", !.row = Len(note) + 1]
<1>1. noteTask[w] \in N!Task
  BY <1>0, NoteTaskType DEF N!CreateNote, N!Running
<1>2. row \in N!Note
  BY <1>1 DEF N!Task, N!Note, N!NotificationStatus
<1>3. note \in Seq(N!Note) /\ note' = Append(note, row)
  BY <1>0 DEF N!TypeOK, N!CreateNote
<1>4. /\ note' \in Seq(N!Note) /\ DOMAIN note' = DOMAIN note \cup {Len(note) + 1}
      /\ \A n \in DOMAIN note : note'[n] = note[n]
      /\ Len(note) + 1 \in Nat /\ Len(note) + 1 \notin DOMAIN note
  BY <1>2, <1>3
<1>5. t \in N!Task /\ noteTask' = [noteTask EXCEPT ![w] = t]
  BY <1>0, <1>1, <1>4 DEF N!CreateNote, N!Task, N!TypeOK
<1>6. noteTask' \in [Workers -> N!Task \cup {None}] /\ noteTask'[w] = t /\ NoteAlone(w)
  BY <1>0, <1>5, NoteBeginType
<1>7. announced' = announced
  BY DEF N!CreateNote
<1>8. announced' \subseteq {"CREATED", "DELIVERED", "FAILED"} \X DOMAIN note'
  BY <1>0, <1>4, <1>7 DEF N!TypeOK
<1>9. N!TypeOK'
  BY <1>0, <1>4, <1>6, <1>8 DEF N!TypeOK, N!CreateNote
<1>10. NoteLater /\ N!AnnouncedIsRecorded'
  BY <1>4, <1>7, NoteRecordedStep DEF NoteLater
<1>11. t.at = "find" /\ t.row = Len(note) + 1
  BY <1>1 DEF N!Task
<1>12. noteTask'[w].at = "find" /\ noteTask'[w].row = Len(note) + 1
  BY <1>6, <1>11
<1> HIDE DEF row, t
<1>13. N!Row(w)' = Len(note) + 1 /\ N!Row(w)' \in DOMAIN note'
  BY <1>4, <1>12 DEF N!Row
<1>14. NoteKnows(w)'
  BY <1>12, <1>13 DEF NoteKnows, N!Running
<1>15. QED
  BY <1>6, <1>9, <1>10, <1>14, NoteSoundStep

\* A write of an existing row that is not taken back
LEMMA NoteWriteStep ==
    ASSUME NoteInv, NEW n \in DOMAIN note, NEW r \in N!Note, note' = [note EXCEPT ![n] = r],
           announced' = announced, r.status # "PENDING",
           note[n].deliveredAt => r.deliveredAt, note[n].failureReason => r.failureReason
    PROVE  /\ note' \in Seq(N!Note) /\ DOMAIN note' = DOMAIN note /\ note'[n] = r
           /\ announced' \subseteq {"CREATED", "DELIVERED", "FAILED"} \X DOMAIN note'
           /\ NoteLater /\ N!AnnouncedIsRecorded'
<1>1. /\ note \in Seq(N!Note)
      /\ announced \subseteq {"CREATED", "DELIVERED", "FAILED"} \X DOMAIN note
  BY DEF NoteInv, N!TypeOK
<1>2. note' \in Seq(N!Note) /\ DOMAIN note' = DOMAIN note /\ note'[n] = r
      /\ \A m \in DOMAIN note : m # n => note'[m] = note[m]
  BY <1>1
<1>3. NoteLater
  BY <1>2 DEF NoteLater
<1>4. QED
  BY <1>1, <1>2, <1>3, NoteRecordedStep

\* dispatchNotification writes the row, if it is still there.
LEMMA NoteOutcomeStep ==
    ASSUME NoteInv, NEW w \in Workers, N!SetDelivered(w) \/ N!SetFailed(w)
    PROVE  NoteInv'
<1>0. N!TypeOK /\ NoteKnows(w)
  BY DEF NoteInv
<1>1. noteTask[w] # None /\ N!Row(w) \in DOMAIN note
  BY <1>0 DEF N!SetDelivered, N!SetFailed, N!Running, NoteKnows
<1>2. note[N!Row(w)] \in N!Note /\ UNCHANGED <<alerts, noteTaken, noteAgain, announced>>
  BY <1>0, <1>1 DEF N!TypeOK, N!SetDelivered, N!SetFailed
<1>3. ASSUME NEW r \in N!Note, NEW at \in {"delivered", "failed"}, N!Continue(w, at),
             note' = [note EXCEPT ![N!Row(w)] = r], r.status # "PENDING",
             note[N!Row(w)].deliveredAt => r.deliveredAt,
             note[N!Row(w)].failureReason => r.failureReason,
             at = "delivered" => r.deliveredAt, at = "failed" => r.failureReason
      PROVE  NoteInv'
  <2>1. /\ noteTask' \in [Workers -> N!Task \cup {None}] /\ NoteAlone(w) /\ noteTask'[w] \in N!Task
        /\ noteTask'[w].at = at /\ N!Row(w)' = N!Row(w)
    BY <1>0, <1>1, <1>3, NoteContinueType
       DEF NoteStages, N!Row
  <2>2. /\ note' \in Seq(N!Note) /\ DOMAIN note' = DOMAIN note /\ note'[N!Row(w)] = r
        /\ announced' \subseteq {"CREATED", "DELIVERED", "FAILED"} \X DOMAIN note'
        /\ NoteLater /\ N!AnnouncedIsRecorded'
    BY <1>1, <1>2, <1>3, NoteWriteStep
  <2>3. N!TypeOK'
    BY <1>0, <1>2, <2>1, <2>2 DEF N!TypeOK
  <2>4. NoteKnows(w)'
    BY <1>1, <1>2, <1>3, <2>1, <2>2 DEF NoteKnows, N!Running
  <2>5. QED
    BY <1>1, <2>1, <2>2, <2>3, <2>4, NoteSoundStep
<1>4. CASE N!SetDelivered(w)
  <2>1. CASE N!Exists(N!Row(w))
    <3> DEFINE r == [note[N!Row(w)] EXCEPT !.status = "DELIVERED", !.deliveredAt = TRUE]
    <3>1. r \in N!Note /\ r.status = "DELIVERED" /\ r.deliveredAt
          /\ r.failureReason = note[N!Row(w)].failureReason
      BY <1>2 DEF N!Note, N!NotificationStatus
    <3>2. note' = [note EXCEPT ![N!Row(w)] = r] /\ N!Continue(w, "delivered")
      BY <1>1, <1>2, <1>4, <2>1 DEF N!SetDelivered
    <3>3. QED
      BY <1>3, <3>1, <3>2
  <2>2. CASE ~N!Exists(N!Row(w))
    <3>1. N!Continue(w, "fail") /\ note' = note
      BY <1>4, <2>2 DEF N!SetDelivered
    <3>2. /\ noteTask' \in [Workers -> N!Task \cup {None}] /\ NoteAlone(w) /\ noteTask'[w] \in N!Task
          /\ noteTask'[w].at = "fail" /\ N!Row(w)' = N!Row(w)
      BY <1>0, <1>1, <3>1, NoteContinueType
         DEF NoteStages, N!Row
    <3>3. N!TypeOK' /\ NoteKnows(w)'
      BY <1>0, <1>1, <1>2, <3>1, <3>2 DEF N!TypeOK, NoteKnows, N!Running
    <3>4. QED
      BY <1>1, <1>2, <3>1, <3>2, <3>3, NoteTaskOnlyStep
  <2>3. QED
    BY <2>1, <2>2
<1>5. CASE N!SetFailed(w)
  <2>1. CASE N!Exists(N!Row(w))
    <3> DEFINE r == N!Failed(note[N!Row(w)])
    <3>1. r \in N!Note /\ r.status = "FAILED" /\ r.failureReason
          /\ r.deliveredAt = note[N!Row(w)].deliveredAt
      BY <1>2 DEF N!Note, N!NotificationStatus, N!Failed
    <3>2. note' = [note EXCEPT ![N!Row(w)] = r] /\ N!Continue(w, "failed")
      BY <1>1, <1>2, <1>5, <2>1 DEF N!SetFailed
    <3>3. QED
      BY <1>3, <3>1, <3>2
  <2>2. CASE ~N!Exists(N!Row(w))
    <3>1. N!Finish(w) /\ note' = note
      BY <1>5, <2>2 DEF N!SetFailed
    <3>2. noteTask' \in [Workers -> N!Task \cup {None}] /\ noteTask'[w] = None /\ NoteAlone(w)
      BY <1>0, <3>1, NoteFinishType
    <3>3. N!TypeOK' /\ NoteKnows(w)'
      BY <1>0, <1>2, <3>1, <3>2 DEF N!TypeOK, NoteKnows, N!Running
    <3>4. QED
      BY <1>2, <3>1, <3>2, <3>3, NoteTaskOnlyStep
  <2>3. QED
    BY <2>1, <2>2
<1>6. QED
  BY <1>4, <1>5

\* markAsRead and deleteNotification write the row, whatever it says.
LEMMA NoteChangeStep ==
    ASSUME NoteInv, NEW w \in Workers, N!MarkRead(w) \/ N!DeleteNote(w)
    PROVE  NoteInv'
<1>0. N!TypeOK /\ NoteKnows(w)
  BY DEF NoteInv
<1>1. PICK st \in {"READ", "DELETED"}, at \in {"read", "delete"} : N!ChangeNote(w, at, st)
  BY DEF N!MarkRead, N!DeleteNote
<1>2. N!Row(w) \in DOMAIN note /\ N!Finish(w) /\ UNCHANGED <<alerts, noteTaken, noteAgain, announced>>
  BY <1>0, <1>1 DEF N!ChangeNote, N!Running, NoteKnows
<1>3. noteTask' \in [Workers -> N!Task \cup {None}] /\ noteTask'[w] = None /\ NoteAlone(w)
  BY <1>0, <1>2, NoteFinishType
<1>4. NoteKnows(w)'
  BY <1>3 DEF NoteKnows, N!Running
<1>5. CASE note' = note
  <2>1. N!TypeOK'
    BY <1>0, <1>2, <1>3, <1>5 DEF N!TypeOK
  <2>2. QED
    BY <1>2, <1>3, <1>4, <1>5, <2>1, NoteTaskOnlyStep
<1>6. CASE note' = [note EXCEPT ![N!Row(w)].status = st]
  <2> DEFINE r == [note[N!Row(w)] EXCEPT !.status = st]
  <2>1. note[N!Row(w)] \in N!Note
    BY <1>0, <1>2 DEF N!TypeOK
  <2>2. /\ r \in N!Note /\ r.status # "PENDING" /\ r.deliveredAt = note[N!Row(w)].deliveredAt
        /\ r.failureReason = note[N!Row(w)].failureReason
    BY <2>1 DEF N!Note, N!NotificationStatus
  <2>3. note' = [note EXCEPT ![N!Row(w)] = r]
    BY <1>6
  <2>4. /\ note' \in Seq(N!Note)
        /\ announced' \subseteq {"CREATED", "DELIVERED", "FAILED"} \X DOMAIN note'
        /\ NoteLater /\ N!AnnouncedIsRecorded'
    BY <1>2, <2>2, <2>3, NoteWriteStep
  <2>5. N!TypeOK'
    BY <1>0, <1>2, <1>3, <2>4 DEF N!TypeOK
  <2>6. QED
    BY <1>3, <1>4, <2>4, <2>5, NoteSoundStep
<1>7. QED
  BY <1>1, <1>5, <1>6 DEF N!ChangeNote

\* An event is told, or the emit of it rejects, perhaps after the broker took it.
LEMMA NoteTellStep ==
    ASSUME NoteInv, NEW w \in Workers,
           N!EmitDelivered(w) \/ N!EmitFailed(w) \/ N!EmitCreated(w) \/ N!Caught(w)
    PROVE  NoteInv'
<1>0. N!TypeOK /\ NoteKnows(w)
  BY DEF NoteInv
<1>1. /\ noteTask[w] # None /\ N!Row(w) \in DOMAIN note
      /\ UNCHANGED <<alerts, noteTaken, noteAgain, note>>
  BY <1>0 DEF NoteKnows, N!Running, N!EmitDelivered, N!EmitFailed, N!EmitCreated, N!Caught
<1>2. \/ announced' = announced
      \/ \E topic \in {"CREATED", "DELIVERED", "FAILED"} :
            /\ announced' = announced \cup {<<topic, N!Row(w)>>}
            /\ note[N!Row(w)].status # "PENDING"
            /\ topic = "DELIVERED" => note[N!Row(w)].deliveredAt
            /\ topic = "FAILED" => note[N!Row(w)].failureReason
  BY <1>0 DEF N!EmitDelivered, N!EmitFailed, N!EmitCreated, N!Announce, N!Caught,
         NoteKnows, N!Running
<1>3. \/ N!Finish(w)
      \/ N!Continue(w, "created") /\ note[N!Row(w)].status # "PENDING"
      \/ N!Continue(w, "fail")
  BY <1>0 DEF N!EmitDelivered, N!EmitFailed, N!EmitCreated, N!Caught, NoteKnows, N!Running
<1>4. /\ noteTask' \in [Workers -> N!Task \cup {None}] /\ NoteAlone(w)
      /\ \/ noteTask'[w] = None
         \/ /\ N!Row(w)' = N!Row(w)
            /\ \/ noteTask'[w].at = "fail"
               \/ noteTask'[w].at = "created" /\ note[N!Row(w)].status # "PENDING"
  BY <1>0, <1>1, <1>3, NoteContinueType, NoteFinishType DEF NoteStages, N!Row
<1>5. announced' \subseteq {"CREATED", "DELIVERED", "FAILED"} \X DOMAIN note
  BY <1>0, <1>1, <1>2 DEF N!TypeOK
<1>6. N!TypeOK'
  BY <1>0, <1>1, <1>4, <1>5 DEF N!TypeOK
<1>7. NoteKnows(w)'
  BY <1>1, <1>4 DEF NoteKnows, N!Running
<1>8. N!AnnouncedIsRecorded'
  BY <1>1, <1>2 DEF NoteInv, N!AnnouncedIsRecorded
<1>9. NoteLater
  BY <1>1 DEF NoteLater
<1>10. QED
  BY <1>4, <1>6, <1>7, <1>8, <1>9, NoteSoundStep

LEMMA NoteInvStep == NoteInv /\ [N!Next]_(N!vars) => NoteInv'
<1> SUFFICES ASSUME NoteInv, [N!Next]_(N!vars) PROVE NoteInv'
  OBVIOUS
<1>0. N!TypeOK
  BY DEF NoteInv
<1>1. ASSUME UNCHANGED <<noteTask, note, announced>>, N!TypeOK' PROVE NoteInv'
  BY <1>1 DEF NoteInv, N!AnnouncedIsRecorded, NoteKnows, N!Running, N!Row
<1>2. ASSUME NEW i \in DOMAIN alerts, N!Ignore(i) PROVE NoteInv'
  <2>1. UNCHANGED <<noteTask, note, announced>> /\ N!TypeOK'
    BY <1>0, <1>2 DEF N!Ignore, N!TypeOK
  <2>2. QED
    BY <1>1, <2>1
<1>3. ASSUME NEW m \in Alerts, N!Arrive(m) PROVE NoteInv'
  <2>1. alerts' \in Seq(Alerts) /\ DOMAIN alerts \subseteq DOMAIN alerts'
    BY <1>0, <1>3 DEF N!Arrive, N!TypeOK
  <2>2. UNCHANGED <<noteTask, note, announced>> /\ N!TypeOK'
    BY <1>0, <1>3, <2>1 DEF N!Arrive, N!TypeOK, N!delivery
  <2>3. QED
    BY <1>1, <2>2
<1>4. CASE UNCHANGED N!vars
  <2>1. UNCHANGED <<noteTask, note, announced>> /\ N!TypeOK'
    BY <1>0, <1>4 DEF N!vars, N!delivery, N!TypeOK
  <2>2. QED
    BY <1>1, <2>1
<1>5. ASSUME NEW i \in noteTaken, N!Recommit(i) PROVE NoteInv'
  <2>1. UNCHANGED <<noteTask, note, announced>> /\ N!TypeOK'
    BY <1>0, <1>5 DEF N!Recommit, N!Redeliver, N!TypeOK
  <2>2. QED
    BY <1>1, <2>1
<1>6. QED
  BY <1>2, <1>3, <1>4, <1>5, NoteStartStep, NoteReadStep, NoteCreateStep, NoteOutcomeStep, NoteChangeStep, NoteTellStep
     DEF N!Next, N!Own, N!Handle, N!Serve

-----------------------------------------------------------------------------
\* One notification for a delivery of an alert

NotesOf(i) == {n \in DOMAIN note : note[n].src = i}
NoteHolds(w, i) == noteTask[w] # None /\ noteTask[w].msg = i
NoteComers(i) ==
    {w \in Workers : NoteHolds(w, i) /\ noteTask[w].at \in {"prefs", "create"}}

\* The notifications of an alert, and those that are to come, have each a delivery
\* of their own, the last one or one whose offset was not committed.
NoteForDelivery(i) ==
    Cardinality(NotesOf(i)) + Cardinality(NoteComers(i))
        <= (IF i \in noteTaken THEN 1 ELSE 0) + (IF i \in noteAgain THEN 1 ELSE 0)

NoteOnceInv == NoteInv /\ \A i \in Nat \ {0} : NoteForDelivery(i)

LEMMA NotesOfType ==
    ASSUME note \in Seq(N!Note), NEW i
    PROVE  IsFiniteSet(NotesOf(i)) /\ Cardinality(NotesOf(i)) \in Nat
<1>1. NotesOf(i) \in SUBSET (1 .. Len(note)) /\ 1 \in Int /\ Len(note) \in Int
  BY DEF NotesOf
<1>2. QED
  BY <1>1, FS_Interval, FS_Subset, FS_CardinalityType

LEMMA NoteOnceInvInit == N!Init => NoteOnceInv
<1> SUFFICES ASSUME N!Init PROVE NoteOnceInv
  OBVIOUS
<1>1. ASSUME NEW i \in Nat \ {0} PROVE NoteForDelivery(i)
  <2>1. NotesOf(i) = {} /\ NoteComers(i) = {}
    BY DEF N!Init, N!DeliveryInit, NotesOf, NoteComers, NoteHolds
  <2>2. noteTaken = {} /\ noteAgain = {}
    BY DEF N!Init, N!DeliveryInit
  <2>3. QED
    BY <2>1, <2>2, FS_EmptySet DEF NoteForDelivery
<1>2. QED
  BY <1>1, NoteInvInit DEF NoteOnceInv

\* By a step of w alone, only w may come or go.
LEMMA NoteComersStay ==
    ASSUME NEW w \in Workers, NoteAlone(w), NEW i
    PROVE  \E n \in Nat :
              /\ Cardinality(NoteComers(i)) = IF w \in NoteComers(i) THEN n + 1 ELSE n
              /\ Cardinality(NoteComers(i)') = IF w \in NoteComers(i)' THEN n + 1 ELSE n
<1>1. NoteComers(i) \in SUBSET Workers /\ NoteComers(i)' \in SUBSET Workers
  BY DEF NoteComers
<1>2. NoteComers(i) \ {w} = NoteComers(i)' \ {w}
  BY DEF NoteComers, NoteHolds, NoteAlone
<1> QED
  BY <1>1, <1>2, OthersStay

\* A statement of the call of w, after which w has the same message, or none
LEMMA NoteGoesOn ==
    ASSUME NoteOnceInv, NoteInv', UNCHANGED <<noteTaken, noteAgain>>,
           \A i \in Nat \ {0} : NotesOf(i)' = NotesOf(i),
           NEW w \in Workers, NoteAlone(w),
           noteTask'[w] # None =>
               /\ noteTask[w] # None /\ noteTask'[w].msg = noteTask[w].msg
               /\ noteTask'[w].at = "create" => noteTask[w].at = "prefs"
               /\ noteTask'[w].at # "prefs"
    PROVE  NoteOnceInv'
<1>1. ASSUME NEW i \in Nat \ {0} PROVE NoteForDelivery(i)'
  <2>1. w \in NoteComers(i)' => w \in NoteComers(i)
    BY DEF NoteComers, NoteHolds
  <2>2. Cardinality(NotesOf(i)) \in Nat /\ NoteForDelivery(i)
    BY NotesOfType DEF NoteOnceInv, NoteInv, N!TypeOK
  <2>3. QED
    BY <2>1, <2>2, NoteComersStay DEF NoteForDelivery
<1>2. QED
  BY <1>1 DEF NoteOnceInv

\* A call begins, which no alert is behind.
LEMMA NoteServes ==
    ASSUME NoteOnceInv, NoteInv', UNCHANGED <<note, noteTaken, noteAgain>>,
           NEW w \in Workers, NoteAlone(w), noteTask'[w] # None, noteTask'[w].msg = 0
    PROVE  NoteOnceInv'
<1>1. ASSUME NEW i \in Nat \ {0} PROVE NoteForDelivery(i)'
  <2>1. w \notin NoteComers(i)'
    BY DEF NoteComers, NoteHolds
  <2>2. Cardinality(NotesOf(i)) \in Nat /\ NoteForDelivery(i) /\ NotesOf(i)' = NotesOf(i)
    BY NotesOfType DEF NoteOnceInv, NoteInv, N!TypeOK, NotesOf
  <2>3. QED
    BY <2>1, <2>2, NoteComersStay DEF NoteForDelivery
<1>2. QED
  BY <1>1 DEF NoteOnceInv

\* A delivery makes room for one notification.
LEMMA NoteReceives ==
    ASSUME NoteOnceInv, NoteInv', NEW w \in Workers, NEW i \in DOMAIN alerts, N!Receive(w, i)
    PROVE  NoteOnceInv'
<1>1. /\ i \in Nat \ {0} /\ i \notin noteTaken /\ noteTaken' = noteTaken \cup {i}
      /\ UNCHANGED <<note, noteAgain>>
  BY DEF NoteOnceInv, NoteInv, N!TypeOK, N!Receive, N!Deliver
<1>2. PICK at \in {"prefs", "create"} :
          noteTask' = [noteTask EXCEPT ![w] = [at |-> at, msg |-> i, row |-> 0]]
  BY DEF N!Receive, N!Deliver
<1>3. noteTask'[w].msg = i /\ NoteAlone(w)
  BY <1>2 DEF NoteOnceInv, NoteInv, N!TypeOK, NoteAlone
<1>4. noteTask[w] = None
  BY DEF N!Receive, N!Deliver
<1>5. ASSUME NEW j \in Nat \ {0} PROVE NoteForDelivery(j)'
  <2>1. w \notin NoteComers(j) /\ (w \in NoteComers(j)' => j = i)
    BY <1>3, <1>4 DEF NoteComers, NoteHolds
  <2>2. Cardinality(NotesOf(j)) \in Nat /\ NoteForDelivery(j) /\ NotesOf(j)' = NotesOf(j)
    BY <1>1, NotesOfType DEF NoteOnceInv, NoteInv, N!TypeOK, NotesOf
  <2>3. PICK n \in Nat :
            /\ Cardinality(NoteComers(j)) = n
            /\ Cardinality(NoteComers(j)') = IF w \in NoteComers(j)' THEN n + 1 ELSE n
    BY <1>3, <2>1, NoteComersStay
  <2>4. QED
    BY <1>1, <2>1, <2>2, <2>3 DEF NoteForDelivery
<1>6. QED
  BY <1>5 DEF NoteOnceInv

\* The notification that was to come has come.
LEMMA NoteIsMade ==
    ASSUME NoteOnceInv, NoteInv', NEW w \in Workers, N!CreateNote(w)
    PROVE  NoteOnceInv'
<1> DEFINE i == noteTask[w].msg
           k == Len(note) + 1
<1>0. N!TypeOK /\ N!TypeOK' /\ noteTask[w] # None /\ noteTask[w].at = "create"
  BY DEF NoteOnceInv, NoteInv, N!CreateNote, N!Running
<1>1. noteTask[w] \in N!Task /\ i \in Nat
  BY <1>0, NoteTaskType DEF N!Task
<1>2. /\ note' = Append(note, [status |-> "PENDING", src |-> i,
                               deliveredAt |-> FALSE, failureReason |-> FALSE])
      /\ UNCHANGED <<noteTaken, noteAgain>>
  BY DEF N!CreateNote
<1>3. /\ DOMAIN note' = DOMAIN note \cup {k} /\ k \notin DOMAIN note /\ k \in Nat
      /\ note'[k].src = i
      /\ \A n \in DOMAIN note : note'[n] = note[n]
  BY <1>0, <1>1, <1>2 DEF N!TypeOK
<1>4. noteTask'[w].msg = i /\ noteTask'[w].at = "find" /\ NoteAlone(w)
  BY <1>0, <1>1 DEF N!CreateNote, NoteAlone, N!TypeOK, N!Task
<1> HIDE DEF i, k
<1>5. ASSUME NEW j \in Nat \ {0} PROVE NoteForDelivery(j)'
  <2>1. Cardinality(NotesOf(j)) \in Nat /\ IsFiniteSet(NotesOf(j)) /\ NoteForDelivery(j)
    BY <1>0, NotesOfType DEF NoteOnceInv, N!TypeOK
  <2>2. w \notin NoteComers(j)' /\ (w \in NoteComers(j) <=> j = i)
    BY <1>0, <1>4 DEF NoteComers, NoteHolds, i
  <2>3. PICK n \in Nat :
            /\ Cardinality(NoteComers(j)) = IF j = i THEN n + 1 ELSE n
            /\ Cardinality(NoteComers(j)') = n
    BY <1>4, <2>2, NoteComersStay
  <2>4. CASE j # i
    <3>1. NotesOf(j)' = NotesOf(j)
      BY <1>3, <2>4 DEF NotesOf
    <3>2. QED
      BY <1>2, <2>1, <2>3, <2>4, <3>1 DEF NoteForDelivery
  <2>5. CASE j = i
    <3>1. NotesOf(j)' = NotesOf(j) \cup {k} /\ k \notin NotesOf(j)
      BY <1>3, <2>5 DEF NotesOf
    <3>2. Cardinality(NotesOf(j)') = Cardinality(NotesOf(j)) + 1
      BY <2>1, <3>1, FS_AddElement
    <3>3. QED
      BY <1>2, <2>1, <2>3, <2>5, <3>2 DEF NoteForDelivery
  <2>6. QED
    BY <2>4, <2>5
<1>6. QED
  BY <1>5 DEF NoteOnceInv

\* The statements that follow the creation, and those of the other calls
LEMMA NoteWorks ==
    ASSUME NoteOnceInv, NoteInv', NEW w \in Workers,
           \/ N!CheckPreferences(w) \/ N!FindNote(w) \/ N!SetDelivered(w)
           \/ N!EmitDelivered(w) \/ N!SetFailed(w) \/ N!EmitFailed(w)
           \/ N!EmitCreated(w) \/ N!MarkRead(w) \/ N!DeleteNote(w)
           \/ N!Caught(w) \/ N!Fail(w)
    PROVE  NoteOnceInv'
<1>0. N!TypeOK /\ NoteKnows(w)
  BY DEF NoteOnceInv, NoteInv
<1>1. noteTask[w] # None /\ noteTask[w] \in N!Task /\ UNCHANGED <<noteTaken, noteAgain>>
  BY <1>0, NoteTaskType
     DEF N!CheckPreferences, N!FindNote, N!SetDelivered, N!EmitDelivered, N!SetFailed,
         N!EmitFailed, N!EmitCreated, N!MarkRead, N!DeleteNote, N!ChangeNote, N!Caught,
         N!Fail, N!Reject, N!Running
<1>2. \/ N!Finish(w)
      \/ \E at \in {"deliver", "delivered", "created", "fail", "failed"} : N!Continue(w, at)
      \/ N!Continue(w, "create") /\ noteTask[w].at = "prefs"
  BY DEF N!CheckPreferences, N!FindNote, N!SetDelivered, N!EmitDelivered, N!SetFailed,
         N!EmitFailed, N!EmitCreated, N!MarkRead, N!DeleteNote, N!ChangeNote, N!Caught,
         N!Fail, N!Reject, N!Running
<1>3. NoteAlone(w) /\ (noteTask'[w] # None =>
                          /\ noteTask'[w].msg = noteTask[w].msg
                          /\ noteTask'[w].at = "create" => noteTask[w].at = "prefs"
                          /\ noteTask'[w].at # "prefs")
  <2>1. CASE N!Finish(w)
    BY <1>0, <2>1, NoteFinishType
  <2>2. ASSUME NEW at \in NoteStages, N!Continue(w, at)
        PROVE  /\ NoteAlone(w) /\ noteTask'[w].at = at
               /\ noteTask'[w].msg = noteTask[w].msg
    <3>1. noteTask' = [noteTask EXCEPT ![w] = [noteTask[w] EXCEPT !.at = at]]
      BY <2>2 DEF N!Continue
    <3>2. QED
      BY <1>0, <1>1, <3>1 DEF N!TypeOK, N!Task, NoteAlone
  <2>3. QED
    BY <1>2, <2>1, <2>2 DEF NoteStages
<1>4. \/ note' = note
      \/ \E n \in DOMAIN note, r \in N!Note :
            r.src = note[n].src /\ note' = [note EXCEPT ![n] = r]
  <2>1. CASE note' = note
    BY <2>1
  <2>2. CASE \E st \in {"READ", "DELETED"} : note' = [note EXCEPT ![N!Row(w)].status = st]
    <3>1. PICK st \in {"READ", "DELETED"} : note' = [note EXCEPT ![N!Row(w)].status = st]
      BY <2>2
    <3>2. CASE N!Row(w) \in DOMAIN note
      <4> DEFINE r == [note[N!Row(w)] EXCEPT !.status = st]
      <4>0. note[N!Row(w)] \in N!Note
        BY <1>0, <3>2 DEF N!TypeOK
      <4>1. r \in N!Note /\ r.src = note[N!Row(w)].src
        BY <4>0 DEF N!Note, N!NotificationStatus
      <4>2. note' = [note EXCEPT ![N!Row(w)] = r]
        BY <3>1
      <4>3. QED
        BY <3>2, <4>1, <4>2
    <3>3. CASE N!Row(w) \notin DOMAIN note
      <4>1. note' = note
        BY <1>0, <3>1, <3>3 DEF N!TypeOK
      <4>2. QED
        BY <4>1
    <3>4. QED
      BY <3>2, <3>3
  <2>3. CASE N!SetDelivered(w) \/ N!SetFailed(w)
    <3>1. N!Row(w) \in DOMAIN note /\ note[N!Row(w)] \in N!Note
      BY <1>0, <2>3 DEF N!SetDelivered, N!SetFailed, N!Running, NoteKnows, N!TypeOK
    <3> DEFINE a == [note[N!Row(w)] EXCEPT !.status = "DELIVERED", !.deliveredAt = TRUE]
               b == N!Failed(note[N!Row(w)])
    <3>2. /\ a \in N!Note /\ a.src = note[N!Row(w)].src
          /\ b \in N!Note /\ b.src = note[N!Row(w)].src
      BY <3>1 DEF N!Note, N!NotificationStatus, N!Failed
    <3>3. \/ note' = note \/ note' = [note EXCEPT ![N!Row(w)] = a]
          \/ note' = [note EXCEPT ![N!Row(w)] = b]
      BY <1>0, <2>3, <3>1 DEF N!SetDelivered, N!SetFailed
    <3> HIDE DEF a, b
    <3>4. QED
      BY <3>1, <3>2, <3>3
  <2>4. QED
    BY <2>1, <2>2, <2>3
       DEF N!CheckPreferences, N!FindNote, N!EmitDelivered, N!EmitFailed, N!EmitCreated,
           N!MarkRead, N!DeleteNote, N!ChangeNote, N!Caught,
           N!Fail
<1>5. \A i \in Nat \ {0} : NotesOf(i)' = NotesOf(i)
  BY <1>0, <1>4 DEF NotesOf, N!TypeOK
<1>6. QED
  BY <1>1, <1>3, <1>5, NoteGoesOn

LEMMA NoteOnceInvStep == NoteOnceInv /\ [N!Next]_(N!vars) => NoteOnceInv'
<1> SUFFICES ASSUME NoteOnceInv, [N!Next]_(N!vars) PROVE NoteOnceInv'
  OBVIOUS
<1>0. NoteInv' /\ N!TypeOK
  BY NoteInvStep DEF NoteOnceInv, NoteInv
<1>1. ASSUME UNCHANGED <<noteTask, note>>,
             \/ noteTaken \subseteq noteTaken' /\ noteAgain' = noteAgain
             \/ \E i \in noteTaken \ noteAgain :
                    noteTaken' = noteTaken \ {i} /\ noteAgain' = noteAgain \cup {i}
      PROVE  NoteOnceInv'
  <2>1. ASSUME NEW j \in Nat \ {0} PROVE NoteForDelivery(j)'
    <3>1. Cardinality(NotesOf(j)) \in Nat /\ NoteForDelivery(j)
      BY <1>0, NotesOfType DEF NoteOnceInv, N!TypeOK
    <3>2. NoteComers(j) \in SUBSET Workers /\ NoteComers(j) \in SUBSET NoteComers(j)
      BY DEF NoteComers
    <3>3. Cardinality(NoteComers(j)) \in Nat
      BY <3>2, WorkersCount
    <3>4. NotesOf(j)' = NotesOf(j) /\ NoteComers(j)' = NoteComers(j)
      BY <1>1 DEF NotesOf, NoteComers, NoteHolds
    <3>5. QED
      BY <1>1, <3>1, <3>3, <3>4 DEF NoteForDelivery
  <2>2. QED
    BY <1>0, <2>1 DEF NoteOnceInv
<1>2. ASSUME NEW i \in DOMAIN alerts, N!Ignore(i) PROVE NoteOnceInv'
  BY <1>1, <1>2 DEF N!Ignore
<1>3. ASSUME (\E m \in Alerts : N!Arrive(m)) \/ UNCHANGED N!vars PROVE NoteOnceInv'
  BY <1>1, <1>3 DEF N!Arrive, N!vars, N!delivery
<1>4. ASSUME NEW w \in Workers, N!Serve(w) PROVE NoteOnceInv'
  <2>1. PICK t \in N!Task : /\ noteTask' = [noteTask EXCEPT ![w] = t] /\ t.msg = 0
                            /\ UNCHANGED <<note, noteTaken, noteAgain>>
    BY <1>0, <1>4 DEF N!Serve, N!StartCreate, N!StartOn, N!Call, N!Task, N!TypeOK
  <2>2. noteTask'[w] = t /\ t # None /\ NoteAlone(w)
    BY <1>0, <2>1, NoteBeginType, PlaceholderAssumption
  <2>3. QED
    BY <1>0, <2>1, <2>2, NoteServes
<1>5. ASSUME NEW i \in noteTaken, N!Recommit(i) PROVE NoteOnceInv'
  BY <1>1, <1>5 DEF N!Recommit, N!Redeliver
<1>6. QED
  BY <1>0, <1>2, <1>3, <1>4, <1>5, NoteReceives, NoteIsMade, NoteWorks
     DEF N!Next, N!Own, N!Handle

LEMMA NoteOnceInvOnce == NoteOnceInv => N!AlertIsNotedOnce
<1> SUFFICES ASSUME NoteOnceInv, NEW i \in DOMAIN alerts
             PROVE  N!Cardinality({n \in DOMAIN note : note[n].src = i})
                        <= IF i \in noteAgain THEN 2 ELSE 1
  BY DEF N!AlertIsNotedOnce
<1>1. i \in Nat \ {0} /\ NoteForDelivery(i)
  BY DEF NoteOnceInv, NoteInv, N!TypeOK
<1>2. Cardinality(NotesOf(i)) \in Nat /\ Cardinality(NoteComers(i)) \in Nat
  <2>1. NoteComers(i) \in SUBSET Workers /\ NoteComers(i) \in SUBSET NoteComers(i)
    BY DEF NoteComers
  <2>2. QED
    BY <2>1, NotesOfType, WorkersCount DEF NoteOnceInv, NoteInv, N!TypeOK
<1>3. N!Cardinality(NotesOf(i)) = Cardinality(NotesOf(i))
  BY SameCount
<1>4. QED
  BY <1>1, <1>2, <1>3 DEF NoteForDelivery, NotesOf

\* However replicas, failures and redeliveries interleave: what the topics told of a
\* notification its row confirms, and an alert makes one notification, or two when it
\* was delivered again.
THEOREM NotificationsCorrect ==
    N!Spec => [](N!TypeOK /\ N!AnnouncedIsRecorded /\ N!AlertIsNotedOnce)
<1>1. NoteOnceInv => N!TypeOK /\ N!AnnouncedIsRecorded /\ N!AlertIsNotedOnce
  BY NoteOnceInvOnce DEF NoteOnceInv, NoteInv
<1>2. QED
  BY <1>1, NoteOnceInvInit, NoteOnceInvStep, PTL DEF N!Spec
-----------------------------------------------------------------------------
\* The services together

SignalsInv ==
    /\ alone \in BOOLEAN
    /\ TelemetryInv /\ IInv /\ DiagnosticsInv /\ DriverInv /\ NoteOnceInv

LEMMA SignalsInvInit == SignalsInit => SignalsInv
  BY TelemetryInvInit, InvInit, DiagnosticsInvInit, DriverInvInit, NoteOnceInvInit
     DEF SignalsInit, SignalsInv

\* What the telemetry service announces are messages.
LEMMA TelemetrySends ==
    ASSUME T!TypeOK, TelemetryStep
    PROVE  inbox' = inbox \/ \E m \in Messages : inbox' = Append(inbox, m)
<1>1. ASSUME NEW w \in Workers, T!EmitProcessed(w)
      PROVE  \E m \in Messages : inbox' = Append(inbox, m)
  BY <1>1 DEF T!EmitProcessed, T!Running, T!TypeOK, T!Task
<1>2. QED
  BY <1>1 DEF TelemetryStep, T!Ingest, T!Serve, T!StartIngest, T!Start, T!Store,
              T!WriteOdometer, T!CacheLatest, T!StartLatest, T!FillLatest, T!Reject,
              T!DeleteTelemetry, T!DeleteVehicle, T!UpdateVehicle, T!ExpireLatest

\* Only the telemetry service writes the topic.
LEMMA OthersReadInbox ==
    ASSUME LocationStep \/ DiagnosticsStep \/ DriverStep \/ NotificationStep
    PROVE  inbox' = inbox
<1>1. CASE LocationStep
  BY <1>1 DEF LocationStep, Handle, Serve, Receive, StorePoint, CacheLocation, ReadFences,
              ReadFlag, WriteFlag, EmitCrossing, AnnounceLocation, StartLatest, FillLatest,
              Fail, Manage, SetFence, Lapse, ExpireLocation, Outlive, ExpireFlag, Recommit
<1>2. CASE DiagnosticsStep
  BY <1>2 DEF DiagnosticsStep, D!Handle, D!Receive, D!FindDtc, D!WriteDtc, D!LogDtc,
              D!TellDtc, D!ReadActive, D!CacheHealth, D!Advise, D!EmitHealth, D!Fail,
              D!ExpireHealth, D!Recommit
<1>3. CASE DriverStep
  BY <1>3 DEF DriverStep, B!Handle, B!Serve, B!Receive, B!FindDriver, B!Record,
              B!EmitDetected, B!EmitRisk, B!FindDriverAgain, B!CountEvents, B!UpsertScore,
              B!CacheScore, B!EmitScore, B!StartScore, B!ExpireScore, B!Reassign, B!Fail,
              B!Recommit
<1>4. QED
  BY <1>1, <1>2, <1>3 DEF NotificationStep

\* A step of the services is a step of each, as its own module tells it; what the
\* telemetry service announces is what the others see arrive.
LEMMA SignalsSteps ==
    ASSUME T!TypeOK, [SignalsNext]_signalsVars
    PROVE  /\ [T!Next]_(T!vars) /\ [Next]_vars /\ [D!Next]_(D!vars)
           /\ [B!Next]_(B!vars) /\ [N!Next]_(N!vars)
<1>1. CASE TelemetryStep
  <2>1. T!Next
    BY <1>1 DEF TelemetryStep, T!Next
  <2>2. CASE inbox' = inbox
    BY <1>1, <2>1, <2>2
       DEF TelemetryStep, locationVars, diagnosticsVars, driverVars, noteVars, vars,
           D!vars, B!vars, N!vars, delivery, D!delivery, B!delivery, N!delivery, D!store,
           B!store
  <2>3. ASSUME NEW m \in Messages, inbox' = Append(inbox, m)
        PROVE  Arrive(m) /\ D!Arrive(m) /\ B!Arrive(m) /\ UNCHANGED N!vars
    BY <1>1, <2>3
       DEF TelemetryStep, locationVars, diagnosticsVars, driverVars, noteVars, Arrive,
           D!Arrive, B!Arrive, N!vars, delivery, D!delivery, B!delivery, N!delivery, store,
           D!store, B!store
  <2>4. QED
    BY <1>1, <2>1, <2>2, <2>3, TelemetrySends DEF Next, D!Next, B!Next
<1>2. CASE LocationStep
  <2>1. Next
    BY <1>2 DEF LocationStep, Next, Own, Outlive, Lapse
  <2>2. inbox' = inbox
    BY <1>2, OthersReadInbox
  <2>3. QED
    BY <1>2, <2>1, <2>2
       DEF LocationStep, telemetryVars, diagnosticsVars, driverVars, noteVars, T!vars,
           D!vars, B!vars, N!vars, D!delivery, B!delivery, N!delivery, D!store, B!store
<1>3. CASE DiagnosticsStep
  <2>1. D!Next
    BY <1>3 DEF DiagnosticsStep, D!Next, D!Own
  <2>2. inbox' = inbox
    BY <1>3, OthersReadInbox
  <2>3. QED
    BY <1>3, <2>1, <2>2
       DEF DiagnosticsStep, telemetryVars, locationVars, driverVars, noteVars, T!vars, vars,
           B!vars, N!vars, delivery, B!delivery, N!delivery, B!store
<1>4. CASE DriverStep
  <2>1. B!Next
    BY <1>4 DEF DriverStep, B!Next, B!Own
  <2>2. inbox' = inbox
    BY <1>4, OthersReadInbox
  <2>3. QED
    BY <1>4, <2>1, <2>2
       DEF DriverStep, telemetryVars, locationVars, diagnosticsVars, noteVars, T!vars, vars,
           D!vars, N!vars, delivery, D!delivery, N!delivery, D!store
<1>5. CASE NotificationStep
  <2>1. N!Next
    BY <1>5 DEF NotificationStep, N!Next, N!Own
  <2>2. QED
    BY <1>5, <2>1
       DEF NotificationStep, telemetryVars, locationVars, diagnosticsVars, driverVars,
           T!vars, vars, D!vars, B!vars, delivery, D!delivery, B!delivery, D!store, B!store
<1>6. CASE UNCHANGED signalsVars
  BY <1>6
     DEF signalsVars, telemetryVars, locationVars, diagnosticsVars, driverVars, noteVars,
         T!vars, vars, D!vars, B!vars, N!vars, delivery, D!delivery, B!delivery, N!delivery,
         D!store, B!store
<1>7. QED
  BY <1>1, <1>2, <1>3, <1>4, <1>5, <1>6 DEF SignalsNext

LEMMA AloneStays ==
    ASSUME [SignalsNext]_signalsVars
    PROVE  alone' = alone
  BY DEF SignalsNext, TelemetryStep, LocationStep, DiagnosticsStep, DriverStep,
         NotificationStep, signalsVars

LEMMA SignalsInvStep == SignalsInv /\ [SignalsNext]_signalsVars => SignalsInv'
<1> SUFFICES ASSUME SignalsInv, [SignalsNext]_signalsVars PROVE SignalsInv'
  OBVIOUS
<1>1. T!TypeOK
  BY DEF SignalsInv, TelemetryInv
<1>2. /\ [T!Next]_(T!vars) /\ [Next]_vars /\ [D!Next]_(D!vars)
      /\ [B!Next]_(B!vars) /\ [N!Next]_(N!vars)
  BY <1>1, SignalsSteps
<1>3. QED
  BY <1>2, AloneStays, TelemetryInvStep, InvStep, DiagnosticsInvStep, DriverInvStep,
     NoteOnceInvStep
     DEF SignalsInv

\* Each service in the composition behaves as its module says, the topic of the others
\* being what the telemetry service announces.
THEOREM EachServiceRuns ==
    SignalsSpec => T!Spec /\ Spec /\ D!Spec /\ B!Spec /\ N!Spec
<1>1. SignalsInit => T!Init /\ Init /\ D!Init /\ B!Init /\ N!Init
  BY DEF SignalsInit
<1>2. SignalsInv => T!TypeOK
  BY DEF SignalsInv, TelemetryInv
<1>3. QED
  BY <1>1, <1>2, SignalsInvInit, SignalsInvStep, SignalsSteps, PTL
     DEF SignalsSpec, T!Spec, Spec, D!Spec, B!Spec, N!Spec

LEMMA SignalsGrounded == SignalsInv => Types /\ RecordsAreGrounded
<1> SUFFICES ASSUME SignalsInv PROVE Types /\ RecordsAreGrounded
  OBVIOUS
<1>1. Types
  BY DEF SignalsInv, TelemetryInv, IInv, DiagnosticsInv, DriverInv, NoteOnceInv, NoteInv, Types
<1>2. ASSUME NEW m \in points \cup advised PROVE doc[m] # "ABSENT"
  <2>1. PICK i \in DOMAIN inbox : inbox[i] = m
    BY DEF SignalsInv, IInv, LocationIsStored, DiagnosticsInv, Sent
  <2>2. QED
    BY <2>1 DEF SignalsInv, TelemetryInv, T!ProcessedIsStored
<1>3. T!ProcessedIsStored /\ N!AnnouncedIsRecorded /\ N!AlertIsNotedOnce
  BY NoteOnceInvOnce DEF SignalsInv, TelemetryInv, NoteOnceInv, NoteInv
<1>4. D!DetectionsAreCounted /\ D!HealthIsGrounded /\ B!ScoreIsGrounded
  BY DiagnosticsGrounded, DriverGrounded DEF SignalsInv
<1>5. QED
  BY <1>1, <1>2, <1>3, <1>4 DEF RecordsAreGrounded

\* The states are what the modules say they are, whatever interleaves or fails.
THEOREM SignalsTypeCorrect == SignalsSpec => []Types
<1>1. QED
  BY SignalsInvInit, SignalsInvStep, SignalsGrounded, PTL DEF SignalsSpec

\* However messages, replicas, failures, redeliveries and expiries of all five services
\* interleave: what one tells was stored, and stored by the telemetry service first, and
\* the odometer is the one entered last, by hand, or one that a stored message reported.
THEOREM SignalsRecordsCorrect == SignalsSpec => [](RecordsAreGrounded /\ LocationIsStored)
<1>1. SignalsInv => RecordsAreGrounded /\ LocationIsStored
  BY SignalsGrounded DEF SignalsInv, IInv
<1>2. QED
  BY <1>1, SignalsInvInit, SignalsInvStep, PTL DEF SignalsSpec
-----------------------------------------------------------------------------
\* Messages ingested one at a time

LastSent == IF inbox = <<>> THEN None ELSE inbox[Len(inbox)]

\* What the call under way has read still holds; what is cached was sent last, but for
\* the message that is about to be sent, and the odometer is the highest, but for the one
\* that is about to be written.
TelemetrySteady(w) ==
    telemetryTask[w] # None =>
        /\ telemetryTask[w].at # "fill"
        /\ telemetryTask[w].at \in {"store", "odometer"} => telemetryTask[w].read = odometer
        /\ telemetryTask[w].at = "odometer" => T!Raises(telemetryTask[w])
        /\ latest = IF telemetryTask[w].at = "emit" THEN telemetryTask[w].msg ELSE LastSent
        /\ T!Highest(IF telemetryTask[w].at = "odometer" THEN OdoOf[telemetryTask[w].msg]
                                                         ELSE odometer)

\* Nothing is stored that is not cached, or was: getLatest has nothing to fill in.
TelemetryRests ==
    T!Quiet => /\ latest = LastSent /\ (latest = None => T!Stored = {})
               /\ T!Highest(odometer)

TelemetryInTurn ==
    /\ OneBusy(telemetryTask)
    /\ \A w \in Workers : TelemetrySteady(w)
    /\ TelemetryRests

TelemetryIdle(w) == \A x \in Workers : x # w => telemetryTask[x] = None

LEMMA TelemetryInTurnInit == T!Init => TelemetryInTurn
<1> SUFFICES ASSUME T!Init PROVE TelemetryInTurn
  OBVIOUS
<1>1. \A w \in Workers : telemetryTask[w] = None
  BY DEF T!Init
<1>2. latest = None /\ T!Stored = {} /\ LastSent = None /\ T!Highest(odometer)
  BY SignalsAssumption DEF T!Init, T!Stored, LastSent, T!Highest, T!TelemetryAssumption
<1>3. QED
  BY <1>1, <1>2 DEF TelemetryInTurn, OneBusy, TelemetrySteady, TelemetryRests

\* The others do nothing while w does something.
LEMMA TelemetryOthersIdle ==
    ASSUME TelemetryInTurn, OneBusy(telemetryTask'), NEW w \in Workers,
           \A x \in Workers : x # w => telemetryTask'[x] = telemetryTask[x],
           telemetryTask[w] # None \/ telemetryTask'[w] # None
    PROVE  TelemetryIdle(w) /\ TelemetryIdle(w)'
  BY DEF TelemetryInTurn, OneBusy, TelemetryIdle

LEMMA TelemetrySettles ==
    ASSUME OneBusy(telemetryTask'), NEW w \in Workers, TelemetryIdle(w)', TelemetrySteady(w)',
           telemetryTask'[w] = None =>
               latest' = LastSent' /\ latest' # None /\ T!Highest(odometer)'
    PROVE  TelemetryInTurn'
<1>1. \A x \in Workers : TelemetrySteady(x)'
  BY DEF TelemetryIdle, TelemetrySteady
<1>2. TelemetryRests'
  BY DEF TelemetryRests, T!Quiet
<1>3. QED
  BY <1>1, <1>2 DEF TelemetryInTurn, OneBusy

LEMMA TelemetryInTurnStep ==
    ASSUME TelemetryInv, TelemetryInTurn, alone, TelemetryStep
    PROVE  TelemetryInTurn'
<1>0. /\ T!TypeOK /\ OneBusy(telemetryTask') /\ odometer \in Nat
      /\ claims \subseteq Nat /\ inbox \in Seq(Messages)
      /\ OdoOf \in [Messages -> Nat] /\ None \notin Messages
  BY SignalsAssumption DEF TelemetryInv, T!TypeOK, TelemetryStep, T!TelemetryAssumption
<1>1. ASSUME NEW w \in Workers, NEW m \in Messages, T!StartIngest(w, m)
      PROVE  TelemetryInTurn'
  <2> DEFINE t == [at |-> "store", msg |-> m, read |-> odometer]
  <2>1. telemetryTask[w] = None /\ telemetryTask' = [telemetryTask EXCEPT ![w] = t]
        /\ UNCHANGED <<odometer, claims, latest, inbox>>
    BY <1>1 DEF T!StartIngest, T!Start
  <2>2. t \in T!Task /\ t # None /\ t.at = "store" /\ t.read = odometer
    BY <1>0, PlaceholderAssumption DEF T!Task
  <2> HIDE DEF t
  <2>3. /\ telemetryTask'[w] = t
        /\ \A x \in Workers : x # w => telemetryTask'[x] = telemetryTask[x]
    BY <1>0, <2>1 DEF T!TypeOK
  <2>4. TelemetryIdle(w) /\ TelemetryIdle(w)'
    BY <1>0, <2>2, <2>3, TelemetryOthersIdle
  <2>5. latest = LastSent /\ T!Highest(odometer)
    BY <2>1, <2>4 DEF TelemetryInTurn, TelemetryRests, T!Quiet, TelemetryIdle
  <2>6. TelemetrySteady(w)'
    BY <2>1, <2>2, <2>3, <2>5 DEF TelemetrySteady, LastSent, T!Highest
  <2>7. QED
    BY <1>0, <2>1, <2>2, <2>3, <2>4, <2>6, TelemetrySettles
<1>2. ASSUME NEW w \in Workers, NEW at \in {"odometer", "cache", "emit"},
             telemetryTask[w] # None, T!Continue(w, at), UNCHANGED inbox,
             NEW m \in Messages, m = telemetryTask[w].msg,
             T!Highest(IF at = "odometer" THEN OdoOf[m] ELSE odometer)',
             /\ at = "odometer" => /\ T!Raises(telemetryTask[w])
                                   /\ telemetryTask[w].read = odometer'
             /\ latest' = IF at = "emit" THEN telemetryTask[w].msg ELSE LastSent
      PROVE  TelemetryInTurn'
  <2>1. /\ telemetryTask'[w].at = at /\ telemetryTask'[w].msg = telemetryTask[w].msg
        /\ telemetryTask'[w].read = telemetryTask[w].read
        /\ telemetryTask' \in [Workers -> T!Task \cup {None}]
        /\ \A x \in Workers : x # w => telemetryTask'[x] = telemetryTask[x]
    BY <1>0, <1>2, TelemetryContinueType
  <2>2. TelemetryIdle(w) /\ TelemetryIdle(w)'
    BY <1>0, <1>2, <2>1, TelemetryOthersIdle
  <2>3. telemetryTask'[w] # None
    <3>1. [telemetryTask[w] EXCEPT !.at = at] \in T!Task
      BY <1>0, <1>2, TelemetryTaskType DEF T!Task
    <3>2. telemetryTask'[w] = [telemetryTask[w] EXCEPT !.at = at]
      BY <1>0, <1>2 DEF T!Continue, T!TypeOK
    <3>3. QED
      BY <3>1, <3>2, PlaceholderAssumption
  <2>4. TelemetrySteady(w)'
    BY <1>2, <2>1 DEF TelemetrySteady, T!Raises, LastSent, T!Highest
  <2>5. QED
    BY <1>0, <2>2, <2>3, <2>4, TelemetrySettles
<1>3. ASSUME NEW w \in Workers, T!Store(w) PROVE TelemetryInTurn'
  <2>1. /\ telemetryTask[w] # None /\ telemetryTask[w].read = odometer /\ latest = LastSent
        /\ T!Highest(odometer) /\ UNCHANGED <<odometer, latest, inbox>>
    BY <1>3 DEF T!Store, T!Running, TelemetryInTurn, TelemetrySteady
  <2>2. PICK at \in {"odometer", "cache"} :
            T!Continue(w, at) /\ (at = "odometer" <=> T!Raises(telemetryTask[w]))
    BY <1>3 DEF T!Store
  <2>3. PICK m \in Messages : m = telemetryTask[w].msg
    BY <1>0, <2>1, TelemetryTaskType DEF T!Task
  <2>4. claims' = claims \cup ({OdoOf[m]} \ {0}) /\ (at = "odometer" <=> OdoOf[m] > odometer)
    BY <1>3, <2>1, <2>2, <2>3 DEF T!Store, T!Raises
  <2>5. T!Highest(IF at = "odometer" THEN OdoOf[m] ELSE odometer)'
    <3>0. OdoOf[m] \in Nat /\ odometer \in claims /\ \A c \in claims : c <= odometer
      BY <1>0, <2>1 DEF T!Highest
    <3>1. CASE at = "odometer"
      <4>1. OdoOf[m] \in claims' /\ \A c \in claims' : c <= OdoOf[m]
        BY <1>0, <2>4, <3>0, <3>1
      <4>2. QED
        BY <3>1, <4>1 DEF T!Highest
    <3>2. CASE at # "odometer"
      <4>1. odometer \in claims' /\ \A c \in claims' : c <= odometer
        BY <1>0, <2>4, <3>0, <3>2
      <4>2. QED
        BY <2>1, <3>2, <4>1 DEF T!Highest
    <3>3. QED
      BY <3>1, <3>2
  <2>6. QED
    BY <1>0, <1>2, <2>1, <2>2, <2>3, <2>5
<1>4. ASSUME NEW w \in Workers, T!WriteOdometer(w) PROVE TelemetryInTurn'
  <2>1. /\ telemetryTask[w] # None /\ latest = LastSent /\ UNCHANGED <<claims, latest, inbox>>
        /\ T!Continue(w, "cache") /\ odometer' = OdoOf[telemetryTask[w].msg]
        /\ T!Highest(OdoOf[telemetryTask[w].msg])
    BY <1>4 DEF T!WriteOdometer, T!NewOdometer, T!Running, TelemetryInTurn, TelemetrySteady
  <2>2. PICK m \in Messages : m = telemetryTask[w].msg
    BY <1>0, <2>1, TelemetryTaskType DEF T!Task
  <2>3. T!Highest(odometer)'
    BY <2>1 DEF T!Highest
  <2>4. QED
    BY <1>0, <1>2, <2>1, <2>2, <2>3
<1>5. ASSUME NEW w \in Workers, T!CacheLatest(w) PROVE TelemetryInTurn'
  <2>1. /\ telemetryTask[w] # None /\ T!Continue(w, "emit") /\ T!Highest(odometer)
        /\ latest' = telemetryTask[w].msg /\ UNCHANGED <<odometer, claims, inbox>>
    BY <1>5 DEF T!CacheLatest, T!Running, TelemetryInTurn, TelemetrySteady
  <2>2. PICK m \in Messages : m = telemetryTask[w].msg
    BY <1>0, <2>1, TelemetryTaskType DEF T!Task
  <2>3. T!Highest(odometer)'
    BY <2>1 DEF T!Highest
  <2>4. QED
    BY <1>0, <1>2, <2>1, <2>2, <2>3
<1>6. ASSUME NEW w \in Workers, T!EmitProcessed(w) PROVE TelemetryInTurn'
  <2>1. /\ telemetryTask[w] # None /\ latest = telemetryTask[w].msg /\ T!Highest(odometer)
        /\ UNCHANGED <<odometer, claims, latest>> /\ inbox' = Append(inbox, latest) /\ T!Finish(w)
    BY <1>6 DEF T!EmitProcessed, T!Running, TelemetryInTurn, TelemetrySteady
  <2>2. latest \in Messages
    BY <1>0, <2>1, TelemetryTaskType DEF T!Task
  <2>3. LastSent' = latest
    BY <1>0, <2>1, <2>2 DEF LastSent
  <2>4. /\ telemetryTask'[w] = None
        /\ \A x \in Workers : x # w => telemetryTask'[x] = telemetryTask[x]
    BY <1>0, <2>1, TelemetryFinishType
  <2>5. TelemetryIdle(w)'
    BY <1>0, <2>1, <2>4, TelemetryOthersIdle
  <2>6. QED
    BY <1>0, <2>1, <2>2, <2>3, <2>4, <2>5, TelemetrySettles
       DEF TelemetrySteady, T!Highest
<1>7. ASSUME NEW w \in Workers, T!Serve(w) PROVE FALSE
  <2>1. ASSUME T!StartLatest(w) PROVE FALSE
    <3>1. PICK m \in T!Stored : T!Start(w, [at |-> "fill", msg |-> m, read |-> 0])
      BY <2>1 DEF T!StartLatest
    <3> DEFINE t == [at |-> "fill", msg |-> m, read |-> 0]
    <3>2. telemetryTask[w] = None /\ telemetryTask' = [telemetryTask EXCEPT ![w] = t]
      BY <3>1 DEF T!Start
    <3>3. t \in T!Task /\ t # None
      BY PlaceholderAssumption DEF T!Task, T!Stored
    <3> HIDE DEF t
    <3>4. /\ telemetryTask'[w] = t
          /\ \A x \in Workers : x # w => telemetryTask'[x] = telemetryTask[x]
      BY <1>0, <3>2 DEF T!TypeOK
    <3>5. T!Quiet
      BY <1>0, <3>2, <3>3, <3>4, TelemetryOthersIdle DEF T!Quiet, TelemetryIdle
    <3>6. QED
      BY <2>1, <3>1, <3>5 DEF T!StartLatest, TelemetryInTurn, TelemetryRests
  <2>2. QED
    BY <1>7, <2>1 DEF T!Serve, T!FillLatest, T!Running, TelemetryInTurn, TelemetrySteady
<1>8. ASSUME T!DeleteVehicle \/ \E m \in Messages : T!DeleteTelemetry(m)
      PROVE  TelemetryInTurn'
  <2>1. UNCHANGED <<odometer, claims, latest, inbox, telemetryTask>>
    BY <1>8 DEF T!DeleteVehicle, T!DeleteTelemetry
  <2>2. T!Stored' \subseteq T!Stored
    BY <1>0, <1>8 DEF T!DeleteVehicle, T!DeleteTelemetry, T!Stored, T!TypeOK
  <2>3. QED
    BY <1>0, <2>1, <2>2
       DEF TelemetryInTurn, OneBusy, TelemetrySteady, TelemetryRests, T!Quiet, T!Raises, LastSent,
           T!Highest
<1>9. ASSUME T!Quiet, NEW n \in Odometers, T!UpdateVehicle(n) PROVE TelemetryInTurn'
  <2>1. /\ UNCHANGED <<latest, doc, inbox, telemetryTask>> /\ odometer' = n /\ claims' = {n}
        /\ n \in Nat
    BY <1>9, SignalsAssumption DEF T!UpdateVehicle, T!TelemetryAssumption
  <2>2. T!Highest(odometer)' /\ T!Stored' = T!Stored /\ LastSent' = LastSent
    BY <2>1 DEF T!Highest, T!Stored, LastSent
  <2>3. QED
    BY <1>0, <1>9, <2>1, <2>2
       DEF TelemetryInTurn, OneBusy, TelemetrySteady, TelemetryRests, T!Quiet
<1>10. QED
  BY <1>1, <1>3, <1>4, <1>5, <1>6, <1>7, <1>8, <1>9 DEF TelemetryStep, T!Ingest

\* The telemetry service's part of a step
LEMMA TelemetryInTurnNext ==
    ASSUME TelemetryInv, TelemetryInTurn, alone, [SignalsNext]_signalsVars
    PROVE  TelemetryInTurn'
<1>1. CASE TelemetryStep
  BY <1>1, TelemetryInTurnStep
<1>2. CASE UNCHANGED <<inbox, telemetryVars>>
  BY <1>2 DEF telemetryVars, TelemetryInTurn, OneBusy, TelemetrySteady, TelemetryRests, T!Quiet,
              T!Raises, T!Stored, LastSent, T!Highest
<1>3. ASSUME LocationStep \/ DiagnosticsStep \/ DriverStep \/ NotificationStep
      PROVE  UNCHANGED <<inbox, telemetryVars>>
  BY <1>3, OthersReadInbox DEF LocationStep, DiagnosticsStep, DriverStep, NotificationStep
<1>4. QED
  BY <1>1, <1>2, <1>3 DEF SignalsNext, signalsVars

\* Messages ingested and updates of the vehicle made one at a time, by any workers,
\* leave the highest of the odometer entered last and those reported since.
THEOREM OdometerCorrect == SignalsSpec => []OdometerKeepsUp
<1> DEFINE Inv == SignalsInv /\ (alone => TelemetryInTurn)
<1>1. SignalsInit => Inv
  BY SignalsInvInit, TelemetryInTurnInit DEF SignalsInit
<1>2. Inv /\ [SignalsNext]_signalsVars => Inv'
  BY SignalsInvStep, TelemetryInTurnNext, AloneStays DEF SignalsInv
<1>3. Inv => OdometerKeepsUp
  BY DEF TelemetryInTurn, TelemetryRests, OdometerKeepsUp, T!HighestAtRest
<1>4. QED
  BY <1>1, <1>2, <1>3, PTL DEF SignalsSpec
-----------------------------------------------------------------------------
\* Locations taken one at a time, in the order of the topic

\* The first k messages are taken; once the one under way is cached, and whenever none
\* is under way, Redis has the position of the last of them.
UpTo(k) ==
    /\ taken = 1 .. k
    /\ \A w \in Workers : task[w] # None =>
          /\ k # 0 /\ task[w].at # "fill" /\ task[w].pos = inbox[k]
          /\ task[w].at \notin {"store", "cache"} => cached = inbox[k]
    /\ Quiet /\ k = 0 => cached = None /\ points = {}
    /\ Quiet /\ k # 0 => cached = inbox[k]

LocationInTurn ==
    /\ OneBusy(task)
    /\ \A w \in Workers : CrossInv(w)
    /\ FlagIsTold
    /\ \E k \in Nat : UpTo(k)

LEMMA LocationInTurnInit == Init => LocationInTurn
<1> SUFFICES ASSUME Init PROVE LocationInTurn
  OBVIOUS
<1>1. UpTo(0)
  BY DEF Init, DeliveryInit, UpTo, Quiet
<1>2. \A w \in Workers : task[w] = None
  BY DEF Init, DeliveryInit
<1>3. FlagIsTold
  BY DEF Init, FlagIsTold, Crossing!Entered
<1>4. QED
  BY <1>1, <1>2, <1>3 DEF LocationInTurn, OneBusy, CrossInv, Running

LEMMA LocationOthersIdle ==
    ASSUME LocationInTurn, OneBusy(task'), NEW w \in Workers, Alone(w),
           task[w] # None \/ task'[w] # None
    PROVE  OthersIdle(w) /\ OthersIdle(w)'
  BY DEF LocationInTurn, OneBusy, OthersIdle, Alone

\* What is taken in order is a beginning of the topic.
LEMMA BeginningGrows ==
    ASSUME NEW k \in Nat, NEW i \in Nat \ {0}, i \notin 1 .. k, InOrder((1 .. k) \cup {i})
    PROVE  i = k + 1 /\ (1 .. k) \cup {i} = 1 .. i
<1>1. 1 .. i \subseteq (1 .. k) \cup {i}
  BY DEF InOrder
<1>2. i > k
  OBVIOUS
<1>3. k + 1 \in 1 .. i
  BY <1>2
<1>4. i = k + 1
  BY <1>1, <1>3
<1>5. QED
  BY <1>4

\* A statement of the call under way
LEMMA UpToStays ==
    ASSUME NEW k \in Nat \ {0}, taken = 1 .. k, UNCHANGED <<taken, inbox>>,
           NEW w \in Workers, OthersIdle(w)',
           task'[w] # None =>
               /\ task'[w].at # "fill" /\ task'[w].pos = inbox[k]
               /\ task'[w].at \notin {"store", "cache"} => cached' = inbox[k],
           task'[w] = None => cached' = inbox[k]
    PROVE  UpTo(k)'
  BY DEF UpTo, OthersIdle, Quiet

LEMMA LocationHandles ==
    ASSUME IInv, LocationInTurn, NEW w \in Workers, OneBusy(task'), InOrder(taken'), Handle(w)
    PROVE  \E k \in Nat : UpTo(k)'
<1>0. TypeOK /\ Alone(w)
  BY StepsApart DEF IInv
<1>1. PICK k \in Nat : UpTo(k)
  BY DEF LocationInTurn
<1>2. ASSUME NEW i \in DOMAIN inbox, Receive(w, i) PROVE UpTo(k + 1)'
  <2> DEFINE t == [at |-> "store", msg |-> i, pos |-> inbox[i], left |-> {}, on |-> None]
  <2>1. t \in Task /\ t # None /\ t.at = "store" /\ t.pos = inbox[i] /\ i \in Nat \ {0}
    BY <1>0, NoneAssumption DEF TypeOK, Task
  <2>2. task' = [task EXCEPT ![w] = t] /\ taken' = taken \cup {i} /\ i \notin taken
        /\ UNCHANGED <<inbox, cached>>
    BY <1>2 DEF Receive, Deliver, store
  <2> HIDE DEF t
  <2>3. i = k + 1 /\ taken' = 1 .. (k + 1)
    BY <1>1, <2>1, <2>2, BeginningGrows DEF UpTo
  <2>4. task'[w] = t
    BY <1>0, <2>2 DEF TypeOK
  <2>5. OthersIdle(w)'
    BY <1>0, <2>1, <2>4, LocationOthersIdle
  <2>6. QED
    BY <2>1, <2>2, <2>3, <2>4, <2>5 DEF UpTo, OthersIdle, Quiet
<1>3. ASSUME task[w] # None, task'[w] # None,
             task'[w].at # "fill" /\ task'[w].pos = task[w].pos /\ UNCHANGED <<taken, inbox>>,
             task'[w].at \notin {"store", "cache"} =>
                 \/ cached' = task[w].pos
                 \/ task[w].at \notin {"store", "cache"} /\ cached' = cached
      PROVE  UpTo(k)'
  <2>1. OthersIdle(w)' /\ k # 0 /\ taken = 1 .. k /\ task[w].pos = inbox[k]
        /\ (task[w].at \notin {"store", "cache"} => cached = inbox[k])
    BY <1>0, <1>1, <1>3, LocationOthersIdle DEF UpTo
  <2>2. QED
    BY <1>3, <2>1, UpToStays
<1>4. ASSUME StorePoint(w) \/ WriteFlag(w) PROVE UpTo(k)'
  <2>1. PICK at \in {"cache", "cross"} : Continue(w, at) /\ (at = "cross" => task[w].at = "flag")
    BY <1>4 DEF StorePoint, WriteFlag, Running
  <2>2. task[w] # None /\ UNCHANGED <<taken, inbox, cached>>
    BY <1>4 DEF StorePoint, WriteFlag, Running
  <2>3. task'[w] # None /\ task'[w].at = at /\ task'[w].pos = task[w].pos
    BY <1>0, <2>1, <2>2, ContinueShape DEF Stages
  <2>4. QED
    BY <1>3, <2>1, <2>2, <2>3
<1>5. ASSUME CacheLocation(w) PROVE UpTo(k)'
  <2>1. PICK at \in {"fences", "announce"} : Continue(w, at)
    BY <1>5 DEF CacheLocation
  <2>2. task[w] # None /\ UNCHANGED <<taken, inbox>> /\ cached' = task[w].pos
    BY <1>5 DEF CacheLocation, Running
  <2>3. task'[w] # None /\ task'[w].at = at /\ task'[w].pos = task[w].pos
    BY <1>0, <2>1, <2>2, ContinueShape DEF Stages
  <2>4. QED
    BY <1>3, <2>2, <2>3
<1>6. ASSUME task[w] # None, task[w].at \notin {"store", "cache"}, UNCHANGED <<taken, inbox, cached>>,
             \/ task'[w] = None
             \/ task'[w].at \in {"get", "announce", "flag"} /\ task'[w].pos = task[w].pos
      PROVE  UpTo(k)'
  <2>1. OthersIdle(w)' /\ k # 0 /\ taken = 1 .. k /\ task[w].pos = inbox[k] /\ cached = inbox[k]
    BY <1>0, <1>1, <1>6, LocationOthersIdle DEF UpTo
  <2>2. QED
    BY <1>6, <2>1, UpToStays
<1>7. ASSUME ReadFences(w) PROVE UpTo(k)'
  <2>1. task'[w].at \in {"get", "announce"} /\ task'[w].pos = task[w].pos
    BY <1>0, <1>7, LookAtShape DEF ReadFences, Running
  <2>2. QED
    BY <1>6, <1>7, <2>1 DEF ReadFences, Running, store
<1>8. ASSUME NEW f \in Fences, ReadFlag(w, f) PROVE UpTo(k)'
  <2>1. task[w] # None /\ task[w] \in Task /\ task[w].left \ {f} \in SUBSET Fences
    BY <1>0, <1>8, TaskType DEF ReadFlag, Running, Task
  <2>2. task'[w].at \in {"get", "announce", "flag"} /\ task'[w].pos = task[w].pos
    <3>1. CASE Crossed(w, f)
      <4>1. task'[w] = [task[w] EXCEPT !.at = "flag", !.on = f]
        BY <1>0, <1>8, <3>1 DEF ReadFlag, TypeOK
      <4>2. QED
        BY <2>1, <4>1 DEF Task
    <3>2. CASE ~Crossed(w, f)
      BY <1>0, <1>8, <2>1, <3>2, LookAtShape DEF ReadFlag
    <3>3. QED
      BY <3>1, <3>2
  <2>3. QED
    BY <1>6, <1>8, <2>1, <2>2 DEF ReadFlag, Running, store
<1>9. ASSUME EmitCrossing(w) PROVE UpTo(k)'
  <2>1. /\ task[w] # None /\ task[w] \in Task /\ task[w].left \ {task[w].on} \in SUBSET Fences
    BY <1>0, <1>9, TaskType DEF EmitCrossing, Running, Task
  <2>2. task'[w].at \in {"get", "announce"} /\ task'[w].pos = task[w].pos
    BY <1>0, <1>9, <2>1, LookAtShape DEF EmitCrossing
  <2>3. QED
    BY <1>6, <1>9, <2>1, <2>2 DEF EmitCrossing, Running, store
<1>10. ASSUME AnnounceLocation(w) PROVE UpTo(k)'
  <2>1. task'[w] = None
    BY <1>0, <1>10, FinishShape DEF AnnounceLocation
  <2>2. QED
    BY <1>6, <1>10, <2>1 DEF AnnounceLocation, Running, store
<1>11. QED
  BY <1>2, <1>4, <1>5, <1>7, <1>8, <1>9, <1>10 DEF Handle

\* What is stored is cached: getLatest has nothing to fill in.
LEMMA LocationServesNothing ==
    ASSUME IInv, LocationInTurn, NEW w \in Workers, OneBusy(task'), Serve(w)
    PROVE  FALSE
<1>0. TypeOK /\ Alone(w)
  BY StepsApart DEF IInv
<1>1. PICK k \in Nat : UpTo(k)
  BY DEF LocationInTurn
<1>2. ASSUME StartLatest(w) PROVE FALSE
  <2>1. PICK m \in points :
           Call(w, [at |-> "fill", msg |-> 0, pos |-> m, left |-> {}, on |-> None])
    BY <1>2 DEF StartLatest
  <2> DEFINE t == [at |-> "fill", msg |-> 0, pos |-> m, left |-> {}, on |-> None]
  <2>2. t \in Task /\ t # None
    BY <1>0, NoneAssumption DEF TypeOK, Task
  <2>3. task[w] = None /\ task' = [task EXCEPT ![w] = t]
    BY <2>1 DEF Call
  <2> HIDE DEF t
  <2>4. task'[w] = t
    BY <1>0, <2>3 DEF TypeOK
  <2>5. Quiet
    BY <1>0, <2>2, <2>3, <2>4, LocationOthersIdle DEF OthersIdle, Quiet
  <2>6. k # 0 /\ inbox[k] = None
    BY <1>1, <1>2, <2>1, <2>5 DEF UpTo, StartLatest
  <2>7. k \in DOMAIN inbox
    BY <1>0, <1>1, <2>6 DEF UpTo, TypeOK
  <2>8. QED
    BY <1>0, <2>6, <2>7, LocationAssumption DEF TypeOK
<1>3. QED
  BY <1>1, <1>2 DEF Serve, FillLatest, Running, UpTo

LEMMA LocationInTurnStep ==
    ASSUME IInv, LocationInTurn, alone, LocationStep
    PROVE  LocationInTurn' /\ [Crossing!Next]_<<crossings, lapsed>>
<1>0. TypeOK /\ OneBusy(task') /\ InOrder(taken')
  BY DEF IInv, LocationStep
<1>1. ASSUME NEW w \in Workers, Handle(w)
      PROVE  LocationInTurn' /\ [Crossing!Next]_<<crossings, lapsed>>
  <2>1. Alone(w) /\ SteadyInv(w)
    BY <1>0, <1>1, StepsApart DEF SteadyInv, LocationInTurn
  <2>2. task[w] # None \/ task'[w] # None
    <3>1. ASSUME NEW i \in DOMAIN inbox, Receive(w, i) PROVE task'[w] # None
      <4> DEFINE t == [at |-> "store", msg |-> i, pos |-> inbox[i], left |-> {}, on |-> None]
      <4>1. t \in Task /\ t # None
        BY <1>0, NoneAssumption DEF TypeOK, Task
      <4>2. task' = [task EXCEPT ![w] = t]
        BY <3>1 DEF Receive, Deliver
      <4> HIDE DEF t
      <4>3. QED
        BY <1>0, <4>1, <4>2 DEF TypeOK
    <3>2. QED
      BY <1>1, <3>1 DEF Handle, StorePoint, CacheLocation, ReadFences, ReadFlag, WriteFlag,
                        EmitCrossing, AnnounceLocation, Running
  <2>3. OthersIdle(w) /\ OthersIdle(w)'
    BY <1>0, <2>1, <2>2, LocationOthersIdle
  <2>4. CrossInv(w)' /\ FlagIsTold' /\ [Crossing!Next]_<<crossings, lapsed>>
    BY <1>1, <2>1, <2>3, CrossingStep
  <2>5. \A x \in Workers : CrossInv(x)'
    BY <2>3, <2>4 DEF CrossInv, OthersIdle, Running
  <2>6. QED
    BY <1>0, <1>1, <2>4, <2>5, LocationHandles DEF LocationInTurn, OneBusy
<1>2. ASSUME Manage PROVE LocationInTurn' /\ UNCHANGED <<crossings, lapsed>>
  <2>1. UNCHANGED <<inbox, taken, task, points, cached, flag, lapsed, crossings>>
    BY <1>2 DEF Manage, SetFence, delivery
  <2>2. QED
    BY <2>1 DEF LocationInTurn, OneBusy, CrossInv, Due, FlagIsTold, Running, Inside,
                Crossing!Entered, UpTo, Quiet
<1>3. ASSUME NEW f \in Fences, Outlive(f) PROVE LocationInTurn' /\ Crossing!Next
  <2>1. FlagIsTold' /\ Crossing!Next /\ \A w \in Workers : CrossInv(w)'
    BY <1>3, OutliveStep DEF LocationInTurn
  <2>2. UNCHANGED <<inbox, taken, task, points, cached>>
    BY <1>3 DEF Outlive, ExpireFlag, delivery
  <2>3. QED
    BY <2>1, <2>2 DEF LocationInTurn, OneBusy, UpTo, Quiet
<1>4. QED
  BY <1>0, <1>1, <1>2, <1>3, LocationServesNothing DEF LocationStep

\* A message more on the topic changes nothing of what is taken.
LEMMA LocationInTurnNext ==
    ASSUME SignalsInv, LocationInTurn, alone, [SignalsNext]_signalsVars
    PROVE  LocationInTurn' /\ [Crossing!Next]_<<crossings, lapsed>>
<1>0. T!TypeOK /\ TypeOK /\ IInv
  BY DEF SignalsInv, TelemetryInv, IInv
<1>1. CASE LocationStep
  BY <1>0, <1>1, LocationInTurnStep
<1>2. ASSUME UNCHANGED locationVars, inbox' = inbox \/ \E m \in Messages : inbox' = Append(inbox, m)
      PROVE  LocationInTurn' /\ UNCHANGED <<crossings, lapsed>>
  <2>1. UNCHANGED <<taken, task, points, cached, flag, lapsed, crossings>>
    BY <1>2 DEF locationVars, delivery, store
  <2>2. \A i \in DOMAIN inbox : inbox'[i] = inbox[i]
    BY <1>0, <1>2 DEF TypeOK
  <2>3. PICK k \in Nat : UpTo(k)
    BY DEF LocationInTurn
  <2>4. k # 0 => k \in DOMAIN inbox
    BY <1>0, <2>3 DEF UpTo, TypeOK
  <2>5. UpTo(k)'
    BY <2>1, <2>2, <2>3, <2>4 DEF UpTo, Quiet
  <2>6. QED
    BY <2>1, <2>5 DEF LocationInTurn, OneBusy, CrossInv, Due, FlagIsTold, Running, Inside,
                      Crossing!Entered
<1>3. CASE TelemetryStep
  BY <1>0, <1>2, <1>3, TelemetrySends DEF TelemetryStep
<1>4. CASE DiagnosticsStep \/ DriverStep \/ NotificationStep
  BY <1>2, <1>4, OthersReadInbox DEF DiagnosticsStep, DriverStep, NotificationStep
<1>5. CASE UNCHANGED signalsVars
  BY <1>2, <1>5 DEF signalsVars
<1>6. QED
  BY <1>1, <1>3, <1>4, <1>5 DEF SignalsNext

\* However fences come, change and go, and whenever flags expire: of a vehicle whose
\* messages are handled one at a time and in order, on any worker, the crossings of each
\* fence alternate, but for an entry told again once the flag has expired.
THEOREM SignalsCrossingsCorrect == SignalsSpec => CrossingsAlternate
<1> DEFINE Inv == SignalsInv /\ (alone => LocationInTurn)
<1>1. SignalsInit => Inv
  BY SignalsInvInit, LocationInTurnInit DEF SignalsInit
<1>2. Inv /\ [SignalsNext]_signalsVars => Inv' /\ [alone => Crossing!Next]_<<crossings, lapsed>>
  BY SignalsInvStep, LocationInTurnNext, AloneStays
<1>3. QED
  BY <1>1, <1>2, PTL DEF SignalsSpec, CrossingsAlternate
-----------------------------------------------------------------------------
\* Trouble codes taken one message at a time

\* A row is added only where there is none, and what is seen of the rows is all of them.
DiagnosticsSteady(w) ==
    diagnosticsTask[w] # None =>
        /\ diagnosticsTask[w].at = "write" /\ diagnosticsTask[w].row = 0 =>
              Len(dtc[D!Code(w)]) = 0
        /\ diagnosticsTask[w].at = "cache" => diagnosticsTask[w].seen = D!ActiveRows
        /\ diagnosticsTask[w].at \in {"advise", "emit"} => health = D!ActiveRows

DiagnosticsInTurn ==
    /\ OneBusy(diagnosticsTask)
    /\ \A w \in Workers : DiagnosticsSteady(w)
    /\ D!OneRowPerCode /\ D!HealthIsCurrent

DiagnosticsIdle(w) == \A x \in Workers \ {w} : diagnosticsTask[x] = None

LEMMA DiagnosticsInTurnInit == D!Init => DiagnosticsInTurn
<1> SUFFICES ASSUME D!Init PROVE DiagnosticsInTurn
  OBVIOUS
<1>1. \A w \in Workers : diagnosticsTask[w] = None
  BY DEF D!Init, D!DeliveryInit
<1>2. \A c \in Codes : Len(dtc[c]) = 0
  BY DEF D!Init
<1>3. diagnosticsTaken = {}
  BY DEF D!Init, D!DeliveryInit
<1>4. QED
  BY <1>1, <1>2, <1>3
     DEF DiagnosticsInTurn, OneBusy, DiagnosticsSteady, D!OneRowPerCode, D!HealthIsCurrent

LEMMA DiagnosticsOthersIdle ==
    ASSUME DiagnosticsInTurn, OneBusy(diagnosticsTask'), NEW w \in Workers,
           DiagnosticsAlone(w), diagnosticsTask[w] # None \/ diagnosticsTask'[w] # None
    PROVE  DiagnosticsIdle(w) /\ DiagnosticsIdle(w)'
  BY DEF DiagnosticsInTurn, OneBusy, DiagnosticsIdle, DiagnosticsAlone

LEMMA DiagnosticsSettles ==
    ASSUME OneBusy(diagnosticsTask'), NEW w \in Workers, DiagnosticsIdle(w)',
           DiagnosticsSteady(w)', D!OneRowPerCode',
           diagnosticsTask'[w] = None => health' = D!ActiveRows'
    PROVE  DiagnosticsInTurn'
<1>1. \A x \in Workers : DiagnosticsSteady(x)'
  BY DEF DiagnosticsIdle, DiagnosticsSteady
<1>2. D!HealthIsCurrent'
  BY DEF D!HealthIsCurrent, D!Quiet
<1>3. QED
  BY <1>1, <1>2 DEF DiagnosticsInTurn, OneBusy

\* A statement that writes no row
LEMMA DiagnosticsPasses ==
    ASSUME DiagnosticsInTurn, OneBusy(diagnosticsTask'), NEW w \in Workers,
           DiagnosticsAlone(w), diagnosticsTask[w] # None \/ diagnosticsTask'[w] # None,
           UNCHANGED dtc, DiagnosticsSteady(w)',
           diagnosticsTask'[w] = None => health' = D!ActiveRows
    PROVE  DiagnosticsInTurn'
<1>1. DiagnosticsIdle(w)'
  BY DiagnosticsOthersIdle
<1>2. D!OneRowPerCode' /\ D!ActiveRows' = D!ActiveRows
  BY DEF DiagnosticsInTurn, D!OneRowPerCode, D!ActiveRows
<1>3. QED
  BY <1>1, <1>2, DiagnosticsSettles

LEMMA DiagnosticsHandles ==
    ASSUME DiagnosticsInv, DiagnosticsInTurn, NEW w \in Workers, OneBusy(diagnosticsTask'),
           D!Handle(w)
    PROVE  DiagnosticsInTurn'
<1>0. D!TypeOK /\ DiagnosticsTold(w) /\ DiagnosticsSteady(w) /\ D!OneRowPerCode
  BY DEF DiagnosticsInv, DiagnosticsInTurn
<1>1. ASSUME NEW t \in D!Task, diagnosticsTask' = [diagnosticsTask EXCEPT ![w] = t],
             UNCHANGED dtc,
             t.at = "write" /\ t.row = 0 => Len(dtc[Head(t.left)]) = 0,
             t.at = "cache" => t.seen = D!ActiveRows,
             t.at \notin {"advise", "emit"}
      PROVE  DiagnosticsInTurn'
  <2>1. diagnosticsTask'[w] = t /\ diagnosticsTask'[w] # None /\ DiagnosticsAlone(w)
    BY <1>0, <1>1, DiagnosticsBecomes
  <2>2. DiagnosticsSteady(w)'
    BY <1>1, <2>1 DEF DiagnosticsSteady, D!Code, D!ActiveRows
  <2>3. QED
    BY <1>1, <2>1, <2>2, DiagnosticsPasses
<1>2. ASSUME NEW i \in DOMAIN inbox, D!Receive(w, i) PROVE DiagnosticsInTurn'
  <2>1. /\ inbox[i] \in Messages /\ i \in Nat
        /\ CodesOf[inbox[i]] \in Seq(Codes)
    BY <1>0, SignalsAssumption DEF D!TypeOK, D!DiagnosticsAssumption
  <2>2. PICK at \in {"score", "detect"} :
            diagnosticsTask' = [diagnosticsTask EXCEPT ![w] =
                [at |-> at, msg |-> i, pos |-> inbox[i], left |-> CodesOf[inbox[i]],
                 row |-> 0, seen |-> {}]]
    BY <1>2 DEF D!Receive, D!Deliver
  <2> DEFINE t == [at |-> at, msg |-> i, pos |-> inbox[i], left |-> CodesOf[inbox[i]],
                   row |-> 0, seen |-> {}]
  <2>3. t \in D!Task /\ t.at \in {"score", "detect"} /\ UNCHANGED dtc
    BY <1>2, <2>1 DEF D!Task, D!Receive, D!store
  <2>4. diagnosticsTask' = [diagnosticsTask EXCEPT ![w] = t]
    BY <2>2
  <2> HIDE DEF t
  <2>5. QED
    BY <1>1, <2>3, <2>4
<1>3. ASSUME D!FindDtc(w) PROVE DiagnosticsInTurn'
  <2>1. diagnosticsTask[w] # None /\ diagnosticsTask[w].at = "detect" /\ UNCHANGED dtc
    BY <1>3 DEF D!FindDtc, D!Running, D!store
  <2>2. /\ diagnosticsTask[w] \in D!Task /\ Len(diagnosticsTask[w].left) # 0
        /\ D!Code(w) \in Codes
    BY <1>0, <2>1, DiagnosticsTaskType DEF DiagnosticsTold
  <2>3. PICK r \in D!FoundRows(D!Code(w)) :
            diagnosticsTask' = [diagnosticsTask EXCEPT ![w].at = "write", ![w].row = r]
    BY <1>3 DEF D!FindDtc
  <2>4. r \in Nat /\ (r = 0 => Len(dtc[D!Code(w)]) = 0)
    BY <1>0, <2>2, <2>3 DEF D!TypeOK, D!FoundRows
  <2> DEFINE t == [diagnosticsTask[w] EXCEPT !.at = "write", !.row = r]
  <2>5. /\ t \in D!Task /\ t.at = "write" /\ t.row = r /\ t.left = diagnosticsTask[w].left
        /\ diagnosticsTask' = [diagnosticsTask EXCEPT ![w] = t]
    BY <1>0, <2>2, <2>3, <2>4 DEF D!Task, D!TypeOK
  <2> HIDE DEF t
  <2>6. QED
    BY <1>1, <2>1, <2>4, <2>5 DEF D!Code
<1>4. ASSUME D!WriteDtc(w) PROVE DiagnosticsInTurn'
  <2> DEFINE c0 == D!Code(w)
             r == diagnosticsTask[w].row
  <2>1. diagnosticsTask[w] # None /\ diagnosticsTask[w].at = "write" /\ D!Continue(w, "log")
        /\ dtc' = [dtc EXCEPT ![c0] = D!Count(dtc[c0], r)]
    BY <1>4 DEF D!WriteDtc, D!Running
  <2>2. /\ diagnosticsTask'[w] # None /\ diagnosticsTask'[w].at = "log" /\ DiagnosticsAlone(w)
    BY <1>0, <2>1, DiagnosticsContinues DEF DiagnosticsStages
  <2>3. /\ diagnosticsTask[w] \in D!Task /\ c0 \in Codes
    BY <1>0, <2>1, DiagnosticsTaskType DEF DiagnosticsTold
  <2>4. dtc[c0] \in Seq(Nat \ {0}) /\ r \in {0} \cup DOMAIN dtc[c0]
    BY <1>0, <2>1, <2>3 DEF D!TypeOK, DiagnosticsTold, D!Task, D!Running
  <2>5. Len(D!Count(dtc[c0], r)) = IF r = 0 THEN Len(dtc[c0]) + 1 ELSE Len(dtc[c0])
    BY <2>4, CountAddsOne
  <2>6. Len(D!Count(dtc[c0], r)) <= 1
    BY <1>0, <2>1, <2>3, <2>5 DEF DiagnosticsSteady, D!OneRowPerCode
  <2>7. D!OneRowPerCode'
    BY <1>0, <2>1, <2>3, <2>6 DEF D!OneRowPerCode, D!TypeOK
  <2>8. DiagnosticsSteady(w)' /\ DiagnosticsIdle(w)'
    BY <2>1, <2>2, DiagnosticsOthersIdle DEF DiagnosticsSteady
  <2>9. QED
    BY <2>2, <2>7, <2>8, DiagnosticsSettles
<1>5. ASSUME D!LogDtc(w) PROVE DiagnosticsInTurn'
  <2>1. diagnosticsTask[w] # None /\ D!Continue(w, "tell") /\ UNCHANGED dtc
    BY <1>5 DEF D!LogDtc, D!Running
  <2>2. diagnosticsTask'[w] # None /\ diagnosticsTask'[w].at = "tell" /\ DiagnosticsAlone(w)
    BY <1>0, <2>1, DiagnosticsContinues DEF DiagnosticsStages
  <2>3. QED
    BY <2>1, <2>2, DiagnosticsPasses DEF DiagnosticsSteady
<1>6. ASSUME D!TellDtc(w) PROVE DiagnosticsInTurn'
  <2> DEFINE at == IF Len(diagnosticsTask[w].left) = 1 THEN "score" ELSE "detect"
             t == [diagnosticsTask[w] EXCEPT !.left = Tail(@), !.at = at]
  <2>1. /\ diagnosticsTask[w] # None /\ diagnosticsTask[w].at = "tell" /\ UNCHANGED dtc
    BY <1>6 DEF D!TellDtc, D!Running
  <2>2. diagnosticsTask[w] \in D!Task /\ Tail(diagnosticsTask[w].left) \in Seq(Codes)
    BY <1>0, <2>1, DiagnosticsTaskType DEF DiagnosticsTold
  <2>3. at \in {"score", "detect"}
    OBVIOUS
  <2>4. t \in D!Task /\ t.at = at
    <3> HIDE DEF at
    <3>1. QED
      BY <2>2, <2>3 DEF D!Task
  <2>5. diagnosticsTask' = [diagnosticsTask EXCEPT ![w] = t]
    BY <1>0, <1>6 DEF D!TellDtc, D!TypeOK
  <2> HIDE DEF t, at
  <2>6. QED
    BY <1>1, <2>1, <2>3, <2>4, <2>5
<1>7. ASSUME D!ReadActive(w) PROVE DiagnosticsInTurn'
  <2> DEFINE t == [diagnosticsTask[w] EXCEPT !.at = "cache", !.seen = D!ActiveRows]
  <2>1. diagnosticsTask[w] # None /\ UNCHANGED dtc
    BY <1>7 DEF D!ReadActive, D!Running, D!store
  <2>2. diagnosticsTask[w] \in D!Task
    BY <1>0, <2>1, DiagnosticsTaskType
  <2>3. D!ActiveRows \subseteq D!Rows
    BY <1>0 DEF D!TypeOK, D!ActiveRows, D!Rows
  <2>4. t \in D!Task /\ t.at = "cache" /\ t.seen = D!ActiveRows
    BY <2>2, <2>3 DEF D!Task
  <2>5. diagnosticsTask' = [diagnosticsTask EXCEPT ![w] = t]
    BY <1>0, <1>7 DEF D!ReadActive, D!TypeOK
  <2> HIDE DEF t
  <2>6. QED
    BY <1>1, <2>1, <2>4, <2>5
<1>8. ASSUME diagnosticsTask[w] # None, UNCHANGED dtc, health' = D!ActiveRows,
             NEW at \in {"advise", "emit"}, D!Continue(w, at)
      PROVE  DiagnosticsInTurn'
  <2>1. diagnosticsTask'[w] # None /\ diagnosticsTask'[w].at = at /\ DiagnosticsAlone(w)
    BY <1>0, <1>8, DiagnosticsContinues DEF DiagnosticsStages
  <2>2. DiagnosticsSteady(w)'
    BY <1>8, <2>1 DEF DiagnosticsSteady, D!ActiveRows
  <2>3. QED
    BY <1>8, <2>1, <2>2, DiagnosticsPasses
<1>9. ASSUME D!CacheHealth(w) PROVE DiagnosticsInTurn'
  BY <1>0, <1>8, <1>9 DEF D!CacheHealth, D!Running, DiagnosticsSteady
<1>10. ASSUME D!Advise(w) PROVE DiagnosticsInTurn'
  BY <1>0, <1>8, <1>10 DEF D!Advise, D!Running, DiagnosticsSteady
<1>11. ASSUME D!EmitHealth(w) PROVE DiagnosticsInTurn'
  <2>1. diagnosticsTask[w] # None /\ UNCHANGED <<dtc, health>> /\ health = D!ActiveRows
        /\ D!Finish(w)
    BY <1>0, <1>11 DEF D!EmitHealth, D!Running, DiagnosticsSteady
  <2>2. diagnosticsTask'[w] = None /\ DiagnosticsAlone(w)
    BY <1>0, <2>1, DiagnosticsFinishes
  <2>3. QED
    BY <2>1, <2>2, DiagnosticsPasses DEF DiagnosticsSteady
<1>12. QED
  BY <1>2, <1>3, <1>4, <1>5, <1>6, <1>7, <1>9, <1>10, <1>11 DEF D!Handle

LEMMA DiagnosticsInTurnNext ==
    ASSUME DiagnosticsInv, DiagnosticsInTurn, alone, [SignalsNext]_signalsVars
    PROVE  DiagnosticsInTurn'
<1>1. CASE DiagnosticsStep
  BY <1>1, DiagnosticsHandles DEF DiagnosticsStep
<1>2. CASE UNCHANGED diagnosticsVars
  BY <1>2 DEF diagnosticsVars, DiagnosticsInTurn, OneBusy, DiagnosticsSteady, D!OneRowPerCode,
              D!HealthIsCurrent, D!Quiet, D!ActiveRows, D!Code
<1>3. QED
  BY <1>1, <1>2 DEF SignalsNext, TelemetryStep, LocationStep, DriverStep, NotificationStep,
                    signalsVars
-----------------------------------------------------------------------------
\* Events of a driver who stays, taken one message at a time

\* The call is about the driver of the vehicle, and what it has counted or read is so.
DriverSteady(w) ==
    driverTask[w] # None =>
        /\ driverTask[w].at \notin {"driver", "fill"} => driverTask[w].who = driver
        /\ driverTask[w].at = "upsert" => driverTask[w].count = B!Found(driverTask[w].who)
        /\ driverTask[w].at \in {"cache", "fill"} =>
              driverTask[w].count = score[driverTask[w].who]

\* Between an event and the score that counts it, and between a score and its key
Scoring(w) == driverTask[w] # None /\ driverTask[w].at \in {"detect", "risk", "again", "count", "upsert"}
Caching(w, d) == B!Running(w, "cache") /\ driverTask[w].who = d

DriverInTurn ==
    /\ OneBusy(driverTask)
    /\ \A w \in Workers : DriverSteady(w)
    /\ \A d \in Drivers :
          \/ cachedScore[d] = None \/ cachedScore[d] = score[d]
          \/ \E w \in Workers : Caching(w, d)
    /\ driver \in Drivers /\ recorded[driver] > 0 =>
          \/ score[driver] = B!Found(driver)
          \/ \E w \in Workers : Scoring(w)

DriverIdle(w) == \A x \in Workers \ {w} : driverTask[x] = None

LEMMA DriverInTurnInit == B!Init => DriverInTurn
<1> SUFFICES ASSUME B!Init PROVE DriverInTurn
  OBVIOUS
<1>1. /\ \A w \in Workers : driverTask[w] = None
      /\ \A d \in Drivers : cachedScore[d] = None
      /\ driver \in Drivers => recorded[driver] = 0
  BY DEF B!Init, B!DeliveryInit, B!Anyone
<1>2. QED
  BY <1>1 DEF DriverInTurn, OneBusy, DriverSteady

LEMMA DriverOthersIdle ==
    ASSUME DriverInTurn, OneBusy(driverTask'), NEW w \in Workers, DriverAlone(w),
           driverTask[w] # None \/ driverTask'[w] # None
    PROVE  DriverIdle(w) /\ DriverIdle(w)'
  BY DEF DriverInTurn, OneBusy, DriverIdle, DriverAlone

LEMMA DriverSettles ==
    ASSUME OneBusy(driverTask'), NEW w \in Workers, DriverIdle(w)', DriverSteady(w)',
           \A d \in Drivers :
               \/ cachedScore'[d] = None \/ cachedScore'[d] = score'[d]
               \/ Caching(w, d)',
           driver' \in Drivers /\ recorded'[driver'] > 0 =>
               score'[driver'] = B!Found(driver)' \/ Scoring(w)'
    PROVE  DriverInTurn'
<1>1. \A x \in Workers : DriverSteady(x)'
  BY DEF DriverIdle, DriverSteady
<1>2. QED
  BY <1>1 DEF DriverInTurn, OneBusy

\* A step of w that writes neither a score nor a key
LEMMA DriverPasses ==
    ASSUME DriverInTurn, OneBusy(driverTask'), NEW w \in Workers, DriverAlone(w),
           driverTask[w] # None \/ driverTask'[w] # None,
           UNCHANGED <<driver, score, cachedScore>>, DriverSteady(w)',
           ~B!Running(w, "cache"),
           Scoring(w)' \/ (recorded' = recorded /\ ~Scoring(w))
    PROVE  DriverInTurn'
<1>1. DriverIdle(w) /\ DriverIdle(w)'
  BY DriverOthersIdle
<1>2. \A d \in Drivers : cachedScore[d] = None \/ cachedScore[d] = score[d]
  BY <1>1 DEF DriverInTurn, Caching, DriverIdle, B!Running
<1>3. CASE Scoring(w)'
  BY <1>1, <1>2, <1>3, DriverSettles
<1>4. CASE recorded' = recorded /\ ~Scoring(w)
  <2>1. driver \in Drivers /\ recorded[driver] > 0 => score[driver] = B!Found(driver)
    BY <1>1, <1>4 DEF DriverInTurn, Scoring, DriverIdle
  <2>2. QED
    BY <1>1, <1>2, <1>4, <2>1, DriverSettles DEF B!Found
<1>5. QED
  BY <1>3, <1>4

LEMMA DriverHandles ==
    ASSUME DriverInv, DriverInTurn, NEW w \in Workers, OneBusy(driverTask'), B!Handle(w)
    PROVE  DriverInTurn'
<1>0. B!TypeOK /\ DriverSteady(w) /\ DriverTold(w)
  BY DEF DriverInv, DriverInTurn
<1>1. ASSUME NEW i \in DOMAIN inbox, B!Receive(w, i) PROVE DriverInTurn'
  <2> DEFINE t == [at |-> "driver", msg |-> i, who |-> None, count |-> 0]
  <2>1. t \in B!Task /\ t.at = "driver"
    BY <1>0 DEF B!Task, B!Anyone, B!TypeOK
  <2>2. driverTask[w] = None /\ driverTask' = [driverTask EXCEPT ![w] = t]
        /\ UNCHANGED <<driver, recorded, score, cachedScore>>
    BY <1>1 DEF B!Receive, B!Deliver, B!store
  <2> HIDE DEF t
  <2>3. driverTask'[w] = t /\ driverTask'[w] # None /\ DriverAlone(w)
    BY <1>0, <2>1, <2>2, DriverBecomes
  <2>4. QED
    BY <2>1, <2>2, <2>3, DriverPasses DEF DriverSteady, Scoring, B!Running
<1>2. ASSUME B!FindDriver(w) PROVE DriverInTurn'
  <2>1. driverTask[w] # None /\ driverTask[w].at = "driver"
        /\ UNCHANGED <<driver, recorded, score, cachedScore>>
    BY <1>2 DEF B!FindDriver, B!Running, B!store
  <2>2. PICK at \in {"record", "again"} :
            driverTask' = [driverTask EXCEPT ![w].who = driver, ![w].at = at]
    BY <1>2 DEF B!FindDriver
  <2> DEFINE t == [driverTask[w] EXCEPT !.who = driver, !.at = at]
  <2>3. t \in B!Task /\ t.at = at /\ t.who = driver
    BY <1>0, <2>1, DriverTaskType DEF B!Task, B!TypeOK
  <2>4. driverTask' = [driverTask EXCEPT ![w] = t]
    BY <1>0, <2>2 DEF B!TypeOK
  <2> HIDE DEF t
  <2>5. driverTask'[w] = t /\ driverTask'[w] # None /\ DriverAlone(w)
    BY <1>0, <2>3, <2>4, DriverBecomes
  <2>6. DriverSteady(w)' /\ ~Scoring(w) /\ ~B!Running(w, "cache")
    BY <2>1, <2>3, <2>5 DEF DriverSteady, Scoring, B!Running
  <2>7. QED
    BY <2>1, <2>5, <2>6, DriverPasses
<1>3. ASSUME B!Record(w) \/ B!EmitDetected(w) \/ B!EmitRisk(w) PROVE DriverInTurn'
  <2>1. PICK at \in {"detect", "risk", "again"} : B!Continue(w, at)
    BY <1>3 DEF B!Record, B!EmitDetected, B!EmitRisk
  <2>2. driverTask[w] # None /\ driverTask[w].who = driver /\ ~B!Running(w, "cache")
        /\ UNCHANGED <<driver, score, cachedScore>>
    BY <1>0, <1>3 DEF B!Record, B!EmitDetected, B!EmitRisk, B!Running, DriverSteady
  <2>3. /\ driverTask'[w] # None /\ DriverAlone(w) /\ driverTask'[w].at = at
        /\ driverTask'[w].who = driverTask[w].who
    BY <1>0, <2>1, <2>2, DriverContinues DEF DriverStages
  <2>4. DriverSteady(w)' /\ Scoring(w)'
    BY <2>2, <2>3 DEF DriverSteady, Scoring
  <2>5. QED
    BY <2>2, <2>3, <2>4, DriverPasses
<1>4. ASSUME B!FindDriverAgain(w) PROVE DriverInTurn'
  <2>1. driverTask[w] # None /\ driverTask[w].at = "again"
        /\ UNCHANGED <<driver, recorded, score, cachedScore>>
    BY <1>4 DEF B!FindDriverAgain, B!Running, B!store
  <2>2. CASE driver = None
    <3>1. driverTask'[w] = None /\ DriverAlone(w)
      BY <1>0, <1>4, <2>2, DriverFinishes DEF B!FindDriverAgain
    <3>2. DriverIdle(w) /\ DriverIdle(w)'
      BY <2>1, <3>1, DriverOthersIdle
    <3>3. \A d \in Drivers : cachedScore[d] = None \/ cachedScore[d] = score[d]
      BY <2>1, <3>2 DEF DriverInTurn, Caching, DriverIdle, B!Running
    <3>4. driver \notin Drivers
      BY <2>2, SignalsAssumption DEF B!BehaviourAssumption
    <3>5. QED
      BY <2>1, <3>1, <3>2, <3>3, <3>4, DriverSettles DEF DriverSteady
  <2>3. CASE driver # None
    <3> DEFINE t == [driverTask[w] EXCEPT !.who = driver, !.at = "count"]
    <3>1. t \in B!Task /\ t.at = "count" /\ t.who = driver
      BY <1>0, <2>1, DriverTaskType DEF B!Task, B!TypeOK
    <3>2. driverTask' = [driverTask EXCEPT ![w] = t]
      BY <1>0, <1>4, <2>3 DEF B!TypeOK, B!FindDriverAgain
    <3> HIDE DEF t
    <3>3. driverTask'[w] = t /\ driverTask'[w] # None /\ DriverAlone(w)
      BY <1>0, <3>1, <3>2, DriverBecomes
    <3>4. DriverSteady(w)' /\ Scoring(w)' /\ ~B!Running(w, "cache")
      BY <2>1, <3>1, <3>3 DEF DriverSteady, Scoring, B!Running
    <3>5. QED
      BY <2>1, <3>3, <3>4, DriverPasses
  <2>4. QED
    BY <2>2, <2>3
<1>5. ASSUME B!CountEvents(w) PROVE DriverInTurn'
  <2> DEFINE d0 == driverTask[w].who
             t == [driverTask[w] EXCEPT !.count = B!Found(d0), !.at = "upsert"]
  <2>1. /\ driverTask[w] # None /\ driverTask[w].at = "count" /\ d0 = driver
        /\ UNCHANGED <<driver, recorded, score, cachedScore>>
    BY <1>0, <1>5 DEF B!CountEvents, B!Running, B!store, DriverSteady
  <2>2. driverTask[w] \in B!Task /\ d0 \in B!Anyone
    BY <1>0, <2>1, DriverTaskType
  <2>3. B!Found(d0) \in Nat
    BY <1>0, <2>2, SignalsAssumption DEF B!TypeOK, B!Found, B!BehaviourAssumption
  <2>4. t \in B!Task /\ t.at = "upsert" /\ t.who = d0 /\ t.count = B!Found(d0)
    BY <2>2, <2>3 DEF B!Task
  <2>5. driverTask' = [driverTask EXCEPT ![w] = t]
    BY <1>0, <1>5 DEF B!TypeOK, B!CountEvents
  <2> HIDE DEF t
  <2>6. driverTask'[w] = t /\ driverTask'[w] # None /\ DriverAlone(w)
    BY <1>0, <2>4, <2>5, DriverBecomes
  <2>7. B!Found(d0)' = B!Found(d0)
    BY <2>1, <2>4, <2>6 DEF B!Found
  <2>8. DriverSteady(w)' /\ Scoring(w)' /\ ~B!Running(w, "cache")
    BY <2>1, <2>4, <2>6, <2>7 DEF DriverSteady, Scoring, B!Running, B!Found
  <2>9. QED
    BY <2>1, <2>6, <2>8, DriverPasses
<1>6. ASSUME B!UpsertScore(w) PROVE DriverInTurn'
  <2> DEFINE d0 == driverTask[w].who
             n == driverTask[w].count
  <2>1. /\ driverTask[w] # None /\ driverTask[w].at = "upsert" /\ d0 = driver /\ d0 \in Drivers
        /\ n = B!Found(d0) /\ B!Continue(w, "cache")
        /\ score' = [score EXCEPT ![d0] = n] /\ UNCHANGED <<driver, recorded, cachedScore>>
    BY <1>0, <1>6 DEF B!UpsertScore, B!Running, DriverSteady, DriverTold
  <2>2. /\ driverTask'[w] # None /\ DriverAlone(w) /\ driverTask'[w].at = "cache"
        /\ driverTask'[w].who = d0 /\ driverTask'[w].count = n
    BY <1>0, <2>1, DriverContinues DEF DriverStages
  <2>3. DriverIdle(w) /\ DriverIdle(w)'
    BY <2>1, <2>2, DriverOthersIdle
  <2>4. \A d \in Drivers : cachedScore[d] = None \/ cachedScore[d] = score[d]
    BY <2>1, <2>3 DEF DriverInTurn, Caching, DriverIdle, B!Running
  <2>5. score'[d0] = n /\ \A d \in Drivers : d # d0 => score'[d] = score[d]
    BY <1>0, <2>1 DEF B!TypeOK
  <2>6. /\ \A d \in Drivers : d = d0 => Caching(w, d)'
        /\ DriverSteady(w)' /\ score'[driver'] = B!Found(driver)'
    BY <2>1, <2>2, <2>5 DEF Caching, DriverSteady, B!Running, B!Found
  <2> HIDE DEF d0, n
  <2>7. \A d \in Drivers :
            \/ cachedScore'[d] = None \/ cachedScore'[d] = score'[d] \/ Caching(w, d)'
    BY <2>1, <2>4, <2>5, <2>6
  <2>8. QED
    BY <2>3, <2>6, <2>7, DriverSettles
<1>7. ASSUME B!CacheScore(w) PROVE DriverInTurn'
  <2> DEFINE d0 == driverTask[w].who
             n == driverTask[w].count
  <2>1. /\ driverTask[w] # None /\ driverTask[w].at \in {"cache", "fill"} /\ d0 \in Drivers
        /\ n = score[d0] /\ (driverTask[w].at = "cache" => d0 = driver)
        /\ cachedScore' = [cachedScore EXCEPT ![d0] = n] /\ UNCHANGED <<driver, recorded, score>>
        /\ \/ driverTask[w].at = "cache" /\ B!Continue(w, "emit")
           \/ B!Finish(w)
    BY <1>0, <1>7 DEF B!CacheScore, B!Running, DriverSteady, DriverTold
  <2>2. /\ DriverAlone(w)
        /\ \/ driverTask'[w] = None
           \/ driverTask'[w].at = "emit" /\ driverTask'[w].who = driver
    BY <1>0, <2>1, DriverContinues, DriverFinishes DEF DriverStages
  <2>3. DriverIdle(w) /\ DriverIdle(w)'
    BY <2>1, <2>2, DriverOthersIdle
  <2>4. \A d \in Drivers : d # d0 => cachedScore[d] = None \/ cachedScore[d] = score[d]
    BY <2>1, <2>3 DEF DriverInTurn, Caching, DriverIdle, B!Running
  <2>5. cachedScore'[d0] = n /\ \A d \in Drivers : d # d0 => cachedScore'[d] = cachedScore[d]
    BY <1>0, <2>1 DEF B!TypeOK
  <2>6. driver \in Drivers /\ recorded[driver] > 0 => score[driver] = B!Found(driver)
    BY <2>1, <2>3 DEF DriverInTurn, Scoring, DriverIdle
  <2>7. DriverSteady(w)'
    BY <2>1, <2>2 DEF DriverSteady
  <2>8. B!Found(driver)' = B!Found(driver)
    BY <2>1 DEF B!Found
  <2> HIDE DEF d0, n
  <2>9. \A d \in Drivers : cachedScore'[d] = None \/ cachedScore'[d] = score'[d]
    BY <2>1, <2>4, <2>5
  <2>10. QED
    BY <2>1, <2>3, <2>6, <2>7, <2>8, <2>9, DriverSettles
<1>8. ASSUME B!EmitScore(w) PROVE DriverInTurn'
  <2>1. driverTask[w] # None /\ driverTask[w].at = "emit" /\ B!Finish(w)
        /\ UNCHANGED <<driver, recorded, score, cachedScore>>
    BY <1>8 DEF B!EmitScore, B!Running
  <2>2. driverTask'[w] = None /\ DriverAlone(w)
    BY <1>0, <2>1, DriverFinishes
  <2>3. QED
    BY <2>1, <2>2, DriverPasses DEF DriverSteady, Scoring, B!Running
<1>9. QED
  BY <1>1, <1>2, <1>3, <1>4, <1>5, <1>6, <1>7, <1>8 DEF B!Handle

LEMMA DriverInTurnStep ==
    ASSUME DriverInv, DriverInTurn, alone, DriverStep
    PROVE  DriverInTurn'
<1>0. B!TypeOK /\ OneBusy(driverTask')
  BY DEF DriverInv, DriverStep
<1>1. ASSUME NEW w \in Workers, NEW d \in Drivers, B!StartScore(w, d) PROVE DriverInTurn'
  <2> DEFINE t == [at |-> "fill", msg |-> 0, who |-> d, count |-> score[d]]
  <2>1. driverTask[w] = None /\ driverTask' = [driverTask EXCEPT ![w] = t]
        /\ UNCHANGED <<driver, recorded, score, cachedScore>>
    BY <1>1 DEF B!StartScore, B!Call, B!store
  <2>2. t \in B!Task /\ t.at = "fill" /\ t.who = d /\ t.count = score[d]
    BY <1>0, <1>1 DEF B!Task, B!Anyone, B!TypeOK, B!StartScore
  <2> HIDE DEF t
  <2>3. driverTask'[w] = t /\ driverTask'[w] # None /\ DriverAlone(w)
    BY <1>0, <2>1, <2>2, DriverBecomes
  <2>4. DriverSteady(w)' /\ ~Scoring(w) /\ ~B!Running(w, "cache")
    BY <2>1, <2>2, <2>3 DEF DriverSteady, Scoring, B!Running
  <2>5. QED
    BY <1>0, <2>1, <2>3, <2>4, DriverPasses
<1>2. ASSUME NEW d \in Drivers, B!ExpireScore(d) PROVE DriverInTurn'
  <2>1. UNCHANGED <<driverTask, driver, recorded, score>>
        /\ \A e \in Drivers : cachedScore'[e] \in {None, cachedScore[e]}
    BY <1>0, <1>2 DEF B!ExpireScore, B!delivery, B!TypeOK
  <2>2. QED
    BY <2>1 DEF DriverInTurn, OneBusy, DriverSteady, Scoring, Caching, B!Running, B!Found
<1>3. QED
  BY <1>0, <1>1, <1>2, DriverHandles DEF DriverStep, B!Serve

LEMMA DriverInTurnNext ==
    ASSUME DriverInv, DriverInTurn, alone, [SignalsNext]_signalsVars
    PROVE  DriverInTurn'
<1>1. CASE DriverStep
  BY <1>1, DriverInTurnStep
<1>2. CASE UNCHANGED driverVars
  BY <1>2 DEF driverVars, DriverInTurn, OneBusy, DriverSteady, Scoring, Caching, B!Running,
              B!Found
<1>3. QED
  BY <1>1, <1>2 DEF SignalsNext, TelemetryStep, LocationStep, DiagnosticsStep,
                    NotificationStep, signalsVars

LEMMA DriverInTurnCurrent == DriverInTurn => B!ScoreIsCurrent
  BY DEF DriverInTurn, Scoring, Caching, B!Running, B!ScoreIsCurrent, B!Quiet
-----------------------------------------------------------------------------
\* Alerts handled one at a time, without a failure

\* The only notification without an outcome is the one that is being dispatched.
NoteSteady(w) ==
    noteTask[w] # None =>
        /\ noteTask[w].at \notin {"fail", "failed"}
        /\ noteTask[w].at \in {"find", "deliver"} => note[N!Row(w)].status = "PENDING"

NoteUnderway(n) ==
    \E w \in Workers :
        noteTask[w] # None /\ noteTask[w].at \in {"find", "deliver"} /\ N!Row(w) = n

\* An alert for no user in particular has its notification, or is about to.
NoteMade(i) ==
    \/ \E n \in DOMAIN note : note[n].src = i
    \/ \E w \in Workers : NoteHolds(w, i) /\ noteTask[w].at = "create"

NoteInTurn ==
    /\ OneBusy(noteTask)
    /\ \A w \in Workers : NoteSteady(w)
    /\ \A n \in DOMAIN note : note[n].status # "FAILED" /\ (note[n].status = "PENDING" => NoteUnderway(n))
    /\ \A i \in noteTaken : alerts[i] \notin Ignored \cup ToUser => NoteMade(i)

NoteIdle(w) == \A x \in Workers \ {w} : noteTask[x] = None

LEMMA NoteInTurnInit == N!Init => NoteInTurn
  BY DEF N!Init, N!DeliveryInit, NoteInTurn, OneBusy, NoteSteady

LEMMA NoteOthersIdle ==
    ASSUME NoteInTurn, OneBusy(noteTask'), NEW w \in Workers, NoteAlone(w),
           noteTask[w] # None \/ noteTask'[w] # None
    PROVE  NoteIdle(w) /\ NoteIdle(w)'
  BY DEF NoteInTurn, OneBusy, NoteIdle, NoteAlone

\* A step that makes no notification: those there are keep their alert.
LEMMA NoteSettles ==
    ASSUME NoteInTurn, OneBusy(noteTask'), NEW w \in Workers, NoteIdle(w), NoteIdle(w)',
           NoteSteady(w)', UNCHANGED alerts, DOMAIN note' = DOMAIN note,
           \A n \in DOMAIN note :
               /\ note'[n].src = note[n].src
               /\ note'[n].status # "FAILED"
               /\ note'[n].status = "PENDING" =>
                     noteTask'[w] # None /\ noteTask'[w].at \in {"find", "deliver"}
                     /\ noteTask'[w].row = n,
           \A i \in noteTaken' :
               \/ i \in noteTaken /\ ~(NoteHolds(w, i) /\ noteTask[w].at = "create")
               \/ alerts[i] \in Ignored \cup ToUser
               \/ NoteHolds(w, i)' /\ noteTask'[w].at = "create"
    PROVE  NoteInTurn'
<1>1. \A x \in Workers : NoteSteady(x)'
  BY DEF NoteIdle, NoteSteady
<1>2. \A n \in DOMAIN note' : note'[n].status = "PENDING" => NoteUnderway(n)'
  BY DEF NoteUnderway, N!Row
<1>3. ASSUME NEW i \in noteTaken', alerts[i] \notin Ignored \cup ToUser PROVE NoteMade(i)'
  <2>1. CASE NoteHolds(w, i)' /\ noteTask'[w].at = "create"
    BY <2>1 DEF NoteMade
  <2>2. CASE i \in noteTaken /\ ~(NoteHolds(w, i) /\ noteTask[w].at = "create")
    <3>1. \E n \in DOMAIN note : note[n].src = i
      BY <1>3, <2>2 DEF NoteInTurn, NoteMade, NoteIdle, NoteHolds
    <3>2. QED
      BY <3>1 DEF NoteMade
  <2>3. QED
    BY <1>3, <2>1, <2>2
<1>4. QED
  BY <1>1, <1>2, <1>3 DEF NoteInTurn, OneBusy

\* While w is not dispatching, no notification is without an outcome.
LEMMA NoteNonePending ==
    ASSUME NoteInTurn, NEW w \in Workers, NoteIdle(w),
           noteTask[w] # None => noteTask[w].at \notin {"find", "deliver"}
    PROVE  \A n \in DOMAIN note : note[n].status \notin {"PENDING", "FAILED"}
  BY DEF NoteInTurn, NoteUnderway, NoteIdle

LEMMA NoteInTurnStarts ==
    ASSUME NoteInv, NoteInTurn, OneBusy(noteTask'), NEW w \in Workers,
           (\E i \in DOMAIN alerts : N!Receive(w, i)) \/ N!Serve(w)
    PROVE  NoteInTurn'
<1>0. N!TypeOK
  BY DEF NoteInv
<1>1. ASSUME NEW t \in N!Task, noteTask[w] = None, noteTask' = [noteTask EXCEPT ![w] = t],
             UNCHANGED <<alerts, note>>, t.at \in {"prefs", "create", "read", "delete"},
             \A i \in noteTaken' : \/ i \in noteTaken
                                   \/ alerts[i] \in ToUser
                                   \/ (t.msg = i /\ t.at = "create")
      PROVE  NoteInTurn'
  <2>1. noteTask'[w] = t /\ t # None /\ NoteAlone(w)
    BY <1>0, <1>1, NoteBeginType, PlaceholderAssumption
  <2>2. NoteIdle(w) /\ NoteIdle(w)'
    BY <2>1, NoteOthersIdle
  <2>3. \A n \in DOMAIN note : note[n].status \notin {"PENDING", "FAILED"}
    BY <1>1, <2>2, NoteNonePending
  <2>4. NoteSteady(w)'
    BY <1>1, <2>1 DEF NoteSteady
  <2>5. \A i \in noteTaken' :
            \/ i \in noteTaken /\ ~(NoteHolds(w, i) /\ noteTask[w].at = "create")
            \/ alerts[i] \in Ignored \cup ToUser
            \/ NoteHolds(w, i)' /\ noteTask'[w].at = "create"
    BY <1>1, <2>1 DEF NoteHolds
  <2>6. QED
    BY <1>1, <2>2, <2>3, <2>4, <2>5, NoteSettles
<1>2. ASSUME NEW i \in DOMAIN alerts, N!Receive(w, i) PROVE NoteInTurn'
  <2>1. PICK at \in {"prefs", "create"} :
            /\ noteTask' = [noteTask EXCEPT ![w] = [at |-> at, msg |-> i, row |-> 0]]
            /\ at = "prefs" => alerts[i] \in ToUser
    BY <1>2 DEF N!Receive, N!Deliver
  <2> DEFINE t == [at |-> at, msg |-> i, row |-> 0]
  <2>2. t \in N!Task /\ t.at = at /\ t.msg = i
    BY <1>0 DEF N!TypeOK, N!Task
  <2>3. noteTask' = [noteTask EXCEPT ![w] = t] /\ noteTask[w] = None
        /\ noteTaken' = noteTaken \cup {i} /\ UNCHANGED <<alerts, note>>
    BY <1>2, <2>1 DEF N!Receive, N!Deliver
  <2> HIDE DEF t
  <2>4. QED
    BY <1>1, <2>1, <2>2, <2>3
<1>3. ASSUME N!Serve(w) PROVE NoteInTurn'
  <2>1. PICK t \in N!Task : /\ noteTask' = [noteTask EXCEPT ![w] = t] /\ noteTask[w] = None
                            /\ t.at \in {"prefs", "create", "read", "delete"}
                            /\ UNCHANGED <<alerts, note, noteTaken>>
    BY <1>0, <1>3 DEF N!Serve, N!StartCreate, N!StartOn, N!Call, N!Task, N!TypeOK
  <2>2. QED
    BY <1>1, <2>1
<1>4. QED
  BY <1>2, <1>3

LEMMA NoteInTurnHandles ==
    ASSUME NoteInv, NoteInTurn, OneBusy(noteTask'), NEW w \in Workers,
           \/ N!CheckPreferences(w) \/ N!FindNote(w) \/ N!SetDelivered(w)
           \/ N!EmitDelivered(w) \/ N!SetFailed(w) \/ N!EmitFailed(w)
           \/ N!EmitCreated(w) \/ N!MarkRead(w) \/ N!DeleteNote(w)
    PROVE  NoteInTurn'
<1>0. N!TypeOK /\ NoteKnows(w) /\ NoteSteady(w)
  BY DEF NoteInv, NoteInTurn
<1>1. noteTask[w] # None /\ noteTask[w] \in N!Task /\ UNCHANGED <<alerts, noteTaken>>
      /\ noteTask[w].at # "create"
  BY <1>0, NoteTaskType
     DEF N!CheckPreferences, N!FindNote, N!SetDelivered, N!EmitDelivered, N!SetFailed,
         N!EmitFailed, N!EmitCreated, N!MarkRead, N!DeleteNote, N!ChangeNote, N!Running
<1>2. noteTask[w].at \notin {"prefs", "create"} => N!Row(w) \in DOMAIN note
  BY <1>1, <1>0 DEF NoteKnows
<1>3. ASSUME NoteAlone(w),
             noteTask'[w] # None => /\ noteTask'[w].at \notin {"find", "fail", "failed"}
                                    /\ noteTask'[w].row = noteTask[w].row,
             noteTask'[w] # None /\ noteTask'[w].at = "deliver" => noteTask[w].at = "find",
             DOMAIN note' = DOMAIN note,
             \A n \in DOMAIN note :
                 \/ note'[n] = note[n] /\ (n = N!Row(w) /\ noteTask[w].at \in {"find", "deliver"} =>
                                             noteTask'[w] # None /\ noteTask'[w].at = "deliver")
                 \/ n = N!Row(w) /\ note'[n].src = note[n].src
                    /\ note'[n].status \in {"DELIVERED", "READ", "DELETED"}
                    /\ (noteTask'[w] # None => noteTask'[w].at # "deliver")
      PROVE  NoteInTurn'
  <2>1. NoteIdle(w) /\ NoteIdle(w)'
    BY <1>1, <1>3, NoteOthersIdle
  <2>2. \A n \in DOMAIN note : note[n].status # "FAILED"
    BY DEF NoteInTurn
  <2>3. \A n \in DOMAIN note : note[n].status = "PENDING" =>
            noteTask[w].at \in {"find", "deliver"} /\ N!Row(w) = n
    BY <2>1 DEF NoteInTurn, NoteUnderway, NoteIdle
  <2>4. \A n \in DOMAIN note :
            /\ note'[n].src = note[n].src
            /\ note'[n].status # "FAILED"
            /\ note'[n].status = "PENDING" =>
                  noteTask'[w] # None /\ noteTask'[w].at \in {"find", "deliver"}
                  /\ noteTask'[w].row = n
    BY <1>3, <2>2, <2>3 DEF N!Row
  <2>5. NoteSteady(w)'
    <3>1. SUFFICES ASSUME noteTask'[w] # None, noteTask'[w].at = "deliver"
                   PROVE  note'[N!Row(w)'].status = "PENDING"
      BY <1>3 DEF NoteSteady
    <3>2. noteTask[w].at = "find" /\ N!Row(w)' = N!Row(w) /\ N!Row(w) \in DOMAIN note
      BY <1>2, <1>3, <3>1 DEF N!Row
    <3>3. note'[N!Row(w)] = note[N!Row(w)] /\ note[N!Row(w)].status = "PENDING"
      BY <1>0, <1>1, <1>3, <3>1, <3>2 DEF NoteSteady
    <3>4. QED
      BY <3>2, <3>3
  <2>6. QED
    BY <1>1, <1>3, <2>1, <2>4, <2>5, NoteSettles
<1>4. ASSUME NEW at \in {"deliver", "delivered", "created", "create"}, N!Continue(w, at)
      PROVE  /\ NoteAlone(w) /\ noteTask'[w] # None /\ noteTask'[w].at = at
             /\ noteTask'[w].row = noteTask[w].row
             /\ noteTask'[w].msg = noteTask[w].msg
  <2> DEFINE t == [noteTask[w] EXCEPT !.at = at]
  <2>1. t \in N!Task /\ t.at = at /\ t.row = noteTask[w].row /\ t.msg = noteTask[w].msg
    BY <1>1 DEF N!Task
  <2>2. noteTask' = [noteTask EXCEPT ![w] = t]
    BY <1>4 DEF N!Continue
  <2> HIDE DEF t
  <2>3. QED
    BY <1>0, <2>1, <2>2, NoteBeginType, PlaceholderAssumption
<1>5. CASE N!CheckPreferences(w)
  <2>1. CASE N!Finish(w)
    <3>1. noteTask'[w] = None /\ NoteAlone(w) /\ note' = note /\ noteTask[w].at = "prefs"
      BY <1>0, <1>5, <2>1, NoteFinishType DEF N!CheckPreferences, N!Running
    <3>2. QED
      BY <1>3, <3>1
  <2>2. CASE N!Continue(w, "create")
    <3>1. /\ NoteAlone(w) /\ noteTask'[w] # None /\ noteTask'[w].at = "create"
          /\ noteTask'[w].row = noteTask[w].row /\ note' = note /\ noteTask[w].at = "prefs"
      BY <1>4, <1>5, <2>2 DEF N!CheckPreferences, N!Running
    <3>2. QED
      BY <1>3, <3>1
  <2>3. QED
    BY <1>5, <2>1, <2>2 DEF N!CheckPreferences
<1>6. CASE N!FindNote(w)
  <2>1. N!Row(w) \in DOMAIN note /\ note[N!Row(w)].status = "PENDING" /\ note' = note
        /\ noteTask[w].at = "find"
    BY <1>0, <1>1, <1>2, <1>6 DEF N!FindNote, N!Running, NoteSteady
  <2>2. N!Continue(w, "deliver")
    BY <1>6, <2>1 DEF N!FindNote, N!Exists
  <2>3. /\ NoteAlone(w) /\ noteTask'[w] # None /\ noteTask'[w].at = "deliver"
        /\ noteTask'[w].row = noteTask[w].row
    BY <1>4, <2>2
  <2>4. QED
    BY <1>3, <2>1, <2>3
<1>7. CASE N!SetDelivered(w)
  <2>1. N!Row(w) \in DOMAIN note /\ note[N!Row(w)].status = "PENDING" /\ noteTask[w].at = "deliver"
        /\ note[N!Row(w)] \in N!Note
    BY <1>0, <1>1, <1>2, <1>7 DEF N!SetDelivered, N!Running, NoteSteady, N!TypeOK
  <2>2. /\ N!Continue(w, "delivered")
        /\ note' = [note EXCEPT ![N!Row(w)].status = "DELIVERED", ![N!Row(w)].deliveredAt = TRUE]
    BY <1>7, <2>1 DEF N!SetDelivered, N!Exists
  <2> DEFINE r == [note[N!Row(w)] EXCEPT !.status = "DELIVERED", !.deliveredAt = TRUE]
  <2>3. r.status = "DELIVERED" /\ r.src = note[N!Row(w)].src
    BY <2>1 DEF N!Note
  <2>4. note' = [note EXCEPT ![N!Row(w)] = r]
    BY <1>0, <2>1, <2>2 DEF N!TypeOK
  <2> HIDE DEF r
  <2>5. /\ DOMAIN note' = DOMAIN note /\ note'[N!Row(w)] = r
        /\ \A n \in DOMAIN note : n # N!Row(w) => note'[n] = note[n]
    BY <1>0, <2>1, <2>4 DEF N!TypeOK
  <2>6. /\ NoteAlone(w) /\ noteTask'[w] # None /\ noteTask'[w].at = "delivered"
        /\ noteTask'[w].row = noteTask[w].row
    BY <1>4, <2>2
  <2>7. QED
    BY <1>3, <2>3, <2>5, <2>6
<1>8. CASE N!EmitDelivered(w)
  <2>1. noteTask[w].at = "delivered" /\ note' = note /\ N!Continue(w, "created")
    BY <1>8 DEF N!EmitDelivered, N!Running
  <2>2. /\ NoteAlone(w) /\ noteTask'[w] # None /\ noteTask'[w].at = "created"
        /\ noteTask'[w].row = noteTask[w].row
    BY <1>4, <2>1
  <2>3. QED
    BY <1>3, <2>1, <2>2
<1>9. CASE N!EmitCreated(w)
  <2>1. noteTask[w].at = "created" /\ note' = note /\ noteTask'[w] = None /\ NoteAlone(w)
    BY <1>0, <1>9, NoteFinishType DEF N!EmitCreated, N!Running
  <2>2. QED
    BY <1>3, <2>1
<1>10. CASE N!MarkRead(w) \/ N!DeleteNote(w)
  <2>1. PICK st \in {"READ", "DELETED"} :
            \/ note' = note
            \/ note' = [note EXCEPT ![N!Row(w)].status = st]
    BY <1>10 DEF N!MarkRead, N!DeleteNote, N!ChangeNote
  <2>2. noteTask[w].at \in {"read", "delete"} /\ noteTask'[w] = None /\ NoteAlone(w)
    BY <1>0, <1>10, NoteFinishType DEF N!MarkRead, N!DeleteNote, N!ChangeNote, N!Running
  <2>3. CASE note' = note
    BY <1>3, <2>2, <2>3
  <2>4. CASE note' = [note EXCEPT ![N!Row(w)].status = st]
    <3> DEFINE r == [note[N!Row(w)] EXCEPT !.status = st]
    <3>1. N!Row(w) \in DOMAIN note /\ note[N!Row(w)] \in N!Note
      BY <1>0, <1>2, <2>2 DEF N!TypeOK
    <3>2. r.status = st /\ r.src = note[N!Row(w)].src
      BY <3>1 DEF N!Note
    <3>3. note' = [note EXCEPT ![N!Row(w)] = r]
      BY <2>4
    <3> HIDE DEF r
    <3>4. /\ DOMAIN note' = DOMAIN note /\ note'[N!Row(w)] = r
          /\ \A n \in DOMAIN note : n # N!Row(w) => note'[n] = note[n]
      BY <1>0, <3>1, <3>3 DEF N!TypeOK
    <3>5. QED
      BY <1>3, <2>2, <3>2, <3>4
  <2>5. QED
    BY <2>1, <2>3, <2>4
<1>11. CASE N!SetFailed(w) \/ N!EmitFailed(w)
  BY <1>0, <1>11 DEF N!SetFailed, N!EmitFailed, N!Running, NoteSteady
<1>12. QED
  BY <1>5, <1>6, <1>7, <1>8, <1>9, <1>10, <1>11

LEMMA NoteInTurnCreates ==
    ASSUME NoteInv, NoteInTurn, OneBusy(noteTask'), NEW w \in Workers, N!CreateNote(w)
    PROVE  NoteInTurn'
<1> DEFINE i == noteTask[w].msg
           k == Len(note) + 1
           row == [status |-> "PENDING", src |-> i, deliveredAt |-> FALSE, failureReason |-> FALSE]
           t == [noteTask[w] EXCEPT !.at = "find", !.row = k]
<1>0. N!TypeOK
  BY DEF NoteInv
<1>1. noteTask[w] # None /\ noteTask[w].at = "create" /\ noteTask[w] \in N!Task
      /\ UNCHANGED <<alerts, noteTaken>>
  BY <1>0, NoteTaskType DEF N!CreateNote, N!Running
<1>2. row \in N!Note /\ row.status = "PENDING" /\ row.src = i
  BY <1>1 DEF N!Task, N!Note, N!NotificationStatus
<1>3. note' = Append(note, row) /\ noteTask' = [noteTask EXCEPT ![w] = t]
  BY <1>0, <1>1 DEF N!CreateNote, N!TypeOK
<1>4. t \in N!Task /\ t.at = "find" /\ t.row = k
  <2>1. k \in Nat
    BY <1>0 DEF N!TypeOK
  <2> HIDE DEF k
  <2>2. QED
    BY <1>1, <2>1 DEF N!Task
<1> HIDE DEF row, t
<1>5. /\ DOMAIN note' = DOMAIN note \cup {k} /\ k \notin DOMAIN note /\ note'[k] = row
      /\ \A n \in DOMAIN note : note'[n] = note[n]
  BY <1>0, <1>2, <1>3 DEF N!TypeOK
<1>6. noteTask'[w] = t /\ t # None /\ NoteAlone(w)
  BY <1>0, <1>3, <1>4, NoteBeginType, PlaceholderAssumption
<1>7. NoteIdle(w) /\ NoteIdle(w)'
  BY <1>6, NoteOthersIdle
<1>8. \A n \in DOMAIN note : note[n].status \notin {"PENDING", "FAILED"}
  BY <1>1, <1>7, NoteNonePending
<1>9. N!Row(w)' = k
  BY <1>4, <1>6 DEF N!Row
<1>10. \A x \in Workers : NoteSteady(x)'
  BY <1>2, <1>4, <1>5, <1>6, <1>7, <1>9 DEF NoteSteady, NoteIdle
<1> HIDE DEF i, k
<1>11. ASSUME NEW n \in DOMAIN note'
       PROVE  note'[n].status # "FAILED" /\ (note'[n].status = "PENDING" => NoteUnderway(n)')
  <2>1. CASE n = k
    BY <1>2, <1>4, <1>5, <1>6, <1>9, <2>1 DEF NoteUnderway
  <2>2. CASE n # k
    BY <1>5, <1>8, <2>2
  <2>3. QED
    BY <2>1, <2>2
<1>12. ASSUME NEW j \in noteTaken, alerts[j] \notin Ignored \cup ToUser PROVE NoteMade(j)'
  <2>1. (\E n \in DOMAIN note : note[n].src = j) \/ j = i
    BY <1>1, <1>7, <1>12 DEF NoteInTurn, NoteMade, NoteIdle, NoteHolds, i
  <2>2. QED
    BY <1>2, <1>5, <2>1 DEF NoteMade
<1>13. QED
  BY <1>1, <1>10, <1>11, <1>12 DEF NoteInTurn, OneBusy

LEMMA NoteInTurnStep ==
    ASSUME NoteInv, NoteInTurn, alone, NotificationStep
    PROVE  NoteInTurn'
<1>0. N!TypeOK /\ OneBusy(noteTask')
  BY DEF NoteInv, NotificationStep
<1>1. ASSUME NEW i \in DOMAIN alerts, N!Ignore(i) PROVE NoteInTurn'
  <2>1. UNCHANGED <<alerts, note, noteTask>> /\ noteTaken' = noteTaken \cup {i}
        /\ alerts[i] \in Ignored
    BY <1>1 DEF N!Ignore
  <2>2. QED
    BY <2>1 DEF NoteInTurn, OneBusy, NoteSteady, NoteUnderway, NoteMade, NoteHolds, N!Row
<1>2. ASSUME NEW m \in Alerts, N!Arrive(m) PROVE NoteInTurn'
  <2>1. UNCHANGED <<note, noteTask, noteTaken>> /\ \A i \in noteTaken : alerts'[i] = alerts[i]
    BY <1>0, <1>2 DEF N!Arrive, N!delivery, N!TypeOK
  <2>2. QED
    BY <2>1 DEF NoteInTurn, OneBusy, NoteSteady, NoteUnderway, NoteMade, NoteHolds, N!Row
<1>3. QED
  BY <1>0, <1>1, <1>2, NoteInTurnStarts, NoteInTurnHandles, NoteInTurnCreates
     DEF NotificationStep, N!Handle

LEMMA NoteInTurnNext ==
    ASSUME NoteInv, NoteInTurn, alone, [SignalsNext]_signalsVars
    PROVE  NoteInTurn'
<1>1. CASE NotificationStep
  BY <1>1, NoteInTurnStep
<1>2. CASE UNCHANGED noteVars
  BY <1>2 DEF noteVars, NoteInTurn, OneBusy, NoteSteady, NoteUnderway, NoteMade, NoteHolds,
              N!Row
<1>3. QED
  BY <1>1, <1>2 DEF SignalsNext, TelemetryStep, LocationStep, DiagnosticsStep, DriverStep,
                    signalsVars

LEMMA NoteInTurnSettled == NoteInTurn => N!AlertsAreSettled
  BY DEF NoteInTurn, NoteUnderway, NoteMade, NoteHolds, N!AlertsAreSettled, N!Quiet
-----------------------------------------------------------------------------
\* All five, in turn

InTurn ==
    /\ TelemetryInTurn /\ LocationInTurn /\ DiagnosticsInTurn /\ DriverInTurn /\ NoteInTurn

LEMMA InTurnInit == SignalsInit => InTurn
  BY TelemetryInTurnInit, LocationInTurnInit, DiagnosticsInTurnInit, DriverInTurnInit,
     NoteInTurnInit
     DEF SignalsInit, InTurn

LEMMA InTurnNext ==
    ASSUME SignalsInv, InTurn, alone, [SignalsNext]_signalsVars
    PROVE  InTurn'
<1>1. TelemetryInv /\ DiagnosticsInv /\ DriverInv /\ NoteInv
  BY DEF SignalsInv, NoteOnceInv
<1>2. TelemetryInTurn' /\ LocationInTurn' /\ DiagnosticsInTurn'
  BY <1>1, TelemetryInTurnNext, LocationInTurnNext, DiagnosticsInTurnNext DEF InTurn
<1>3. DriverInTurn' /\ NoteInTurn'
  BY <1>1, DriverInTurnNext, NoteInTurnNext DEF InTurn
<1>4. QED
  BY <1>2, <1>3 DEF InTurn

\* Where all messages are taken, the last taken is the last announced.
LEMMA LocationIsLatest ==
    ASSUME SignalsInv, TelemetryInTurn, LocationInTurn, T!Quiet, Quiet, taken = DOMAIN inbox
    PROVE  cached = latest
<1>1. inbox \in Seq(Messages)
  BY DEF SignalsInv, IInv, TypeOK
<1>2. PICK k \in Nat : UpTo(k)
  BY DEF LocationInTurn
<1>3. taken = 1 .. k /\ (k = 0 => cached = None) /\ (k # 0 => cached = inbox[k])
  BY <1>2 DEF UpTo
<1>4. latest = LastSent
  BY DEF TelemetryInTurn, TelemetryRests
<1> HIDE DEF Quiet, LastSent
<1>5. k = Len(inbox)
  <2>1. DOMAIN inbox = 1 .. Len(inbox) /\ Len(inbox) \in Nat
    BY <1>1
  <2>2. ASSUME NEW n \in Nat, 1 .. k = 1 .. n PROVE k = n
    <3>1. k \in 1 .. k \/ k = 0
      BY <1>2
    <3>2. n \in 1 .. n \/ n = 0
      BY <2>2
    <3>3. QED
      BY <1>2, <2>2, <3>1, <3>2
  <2>3. QED
    BY <1>3, <2>1, <2>2
<1>6. latest = IF k = 0 THEN None ELSE inbox[k]
  BY <1>1, <1>4, <1>5 DEF LastSent
<1>7. QED
  BY <1>3, <1>6

LEMMA InTurnAgrees == SignalsInv /\ (alone => InTurn) => InOrderAgrees
<1> SUFFICES ASSUME SignalsInv, InTurn PROVE
        /\ T!LatestAtRest
        /\ FlagIsTold
        /\ T!Quiet /\ Quiet /\ taken = DOMAIN inbox => cached = latest
        /\ D!OneRowPerCode /\ D!HealthIsCurrent
        /\ B!ScoreIsCurrent
        /\ N!AlertsAreSettled
  BY DEF InOrderAgrees
<1>1. T!LatestAtRest
  BY DEF InTurn, TelemetryInTurn, TelemetryRests, T!LatestAtRest, LastSent
<1>2. T!Quiet /\ Quiet /\ taken = DOMAIN inbox => cached = latest
  BY LocationIsLatest DEF InTurn
<1>3. FlagIsTold /\ D!OneRowPerCode /\ D!HealthIsCurrent
  BY DEF InTurn, LocationInTurn, DiagnosticsInTurn
<1>4. B!ScoreIsCurrent /\ N!AlertsAreSettled
  BY DriverInTurnCurrent, NoteInTurnSettled DEF InTurn
<1>5. QED
  BY <1>1, <1>2, <1>3, <1>4

\* Where each service handles the messages of the vehicle one at a time, in their order
\* and without a failure, however the services themselves interleave and whenever the flag
\* of a fence expires: each keeps what its documentation says, and the location in Redis
\* ends as that of the latest telemetry.
THEOREM InOrderCorrect == SignalsSpec => []InOrderAgrees
<1> DEFINE Inv == SignalsInv /\ (alone => InTurn)
<1>1. SignalsInit => Inv
  BY SignalsInvInit, InTurnInit
<1>2. Inv /\ [SignalsNext]_signalsVars => Inv'
  BY SignalsInvStep, InTurnNext, AloneStays
<1>3. QED
  BY <1>1, <1>2, InTurnAgrees, PTL DEF SignalsSpec

-----------------------------------------------------------------------------
\* The preferences of the notification service

\* For all hours of the day, the quiet hours of a preference run from start to end, around
\* midnight if they have to.
THEOREM QuietCorrect ==
    ASSUME NEW now \in 0 .. 23, NEW start \in 0 .. 23, NEW end \in 0 .. 23
    PROVE  Calc!QuietIsInterval(now, start, end)
<1>1. ASSUME NEW a \in 0 .. 23, NEW b \in 0 .. 23
      PROVE  (a - b) % 24 = IF a >= b THEN a - b ELSE a - b + 24
  <2>1. CASE a >= b
    BY <2>1, Z3
  <2>2. CASE a < b
    BY <2>2, Z3
  <2>3. QED
    BY <2>1, <2>2
<1>2. QED
  BY <1>1 DEF Calc!QuietIsInterval, Calc!Quieted
=============================================================================
