---------------------------- MODULE OfficeProofs ----------------------------
(***************************************************************************)
(* Theorems about Office, for every number of workers, of fleets, reports, *)
(* flags and schedules.  A part for each service: what holds however its   *)
(* calls overlap and fail, what holds where nothing fails, what holds      *)
(* where calls do not overlap either.  The last part puts them together.   *)
(***************************************************************************)
EXTENDS Office, AccountsProofs, FiniteSetTheorems

-----------------------------------------------------------------------------
\* The circuit breaker

BreakerInv == B!TypeOK /\ B!ClosedIsBelow

LEMMA BreakerInvInit == B!Init => BreakerInv
  BY OfficeAssumption
     DEF B!BreakerAssumption, B!Init, B!CallsInit, BreakerInv, B!TypeOK, B!CircuitState,
         B!ClosedIsBelow

LEMMA BreakerInvStep ==
    ASSUME BreakerInv, [B!Next]_(B!vars)
    PROVE  BreakerInv' /\ B!OpenIsLeftByTrial
<1>0. /\ Threshold \in Nat \ {0} /\ failureCount \in Nat /\ state \in B!CircuitState
      /\ breakerTask \in [Workers -> {"call", None}] /\ rested \in BOOLEAN
  BY OfficeAssumption DEF B!BreakerAssumption, BreakerInv, B!TypeOK
<1> USE DEF BreakerInv, B!TypeOK, B!CircuitState, B!ClosedIsBelow, B!OpenIsLeftByTrial
<1>1. ASSUME NEW w \in Workers, B!Execute(w) PROVE BreakerInv' /\ B!OpenIsLeftByTrial
  <2>1. breakerTask' \in [Workers -> {"call", None}] /\ UNCHANGED <<failureCount, rested>>
    BY <1>0, <1>1 DEF B!Execute, B!Begin
  <2>2. state' = state \/ (state = "OPEN" /\ rested /\ state' = "HALF_OPEN")
    BY <1>1 DEF B!Execute
  <2>3. QED
    BY <1>0, <2>1, <2>2
<1>2. ASSUME NEW w \in Workers, B!onSuccess(w) PROVE BreakerInv' /\ B!OpenIsLeftByTrial
  BY <1>0, <1>2 DEF B!onSuccess, B!Finish
<1>3. ASSUME NEW w \in Workers, B!onFailure(w) PROVE BreakerInv' /\ B!OpenIsLeftByTrial
  <2>1. /\ breakerTask' \in [Workers -> {"call", None}] /\ rested' \in BOOLEAN
        /\ failureCount' = failureCount + 1
    BY <1>0, <1>3 DEF B!onFailure, B!Finish
  <2>2. state' = "OPEN" \/ (state' = state /\ failureCount' < Threshold)
    BY <1>0, <1>3, <2>1 DEF B!onFailure, B!Trips
  <2>3. QED
    BY <1>0, <2>1, <2>2
<1>4. CASE B!Rest
  BY <1>0, <1>4 DEF B!Rest
<1>5. CASE UNCHANGED B!vars
  BY <1>0, <1>5 DEF B!vars
<1>6. QED
  BY <1>1, <1>2, <1>3, <1>4, <1>5 DEF B!Next

\* Calls one at a time: the breaker is HALF_OPEN during a trial and no longer, and a
\* trial starts with the failures that opened it.
BreakerInTurn ==
    /\ OneBusy(breakerTask)
    /\ state = "OPEN" => B!Quiet /\ failureCount >= Threshold
    /\ state = "HALF_OPEN" => ~B!Quiet /\ failureCount >= Threshold

LEMMA BreakerInTurnInit == B!Init => BreakerInTurn
  BY PlaceholderAssumption DEF B!Init, B!CallsInit, BreakerInTurn, OneBusy

LEMMA BreakerInTurnStep ==
    ASSUME BreakerInv, BreakerInTurn, mode = "alone", BreakerStep
    PROVE  BreakerInTurn'
<1>0. /\ Threshold \in Nat \ {0} /\ failureCount \in Nat /\ state \in B!CircuitState
      /\ breakerTask \in [Workers -> {"call", None}] /\ None # "call"
      /\ mode' = mode /\ OneBusy(breakerTask')
  BY OfficeAssumption, PlaceholderAssumption
     DEF B!BreakerAssumption, BreakerInv, B!TypeOK, BreakerStep
<1>1. ASSUME NEW w \in Workers, B!Execute(w) PROVE BreakerInTurn'
  <2>1. breakerTask'[w] # None
    BY <1>0, <1>1 DEF B!Execute, B!Begin
  <2>2. state # "CLOSED" => state' = "HALF_OPEN" /\ failureCount' >= Threshold
    BY <1>0, <1>1 DEF B!Execute, BreakerInTurn, B!CircuitState
  <2>3. state = "CLOSED" => state' = "CLOSED"
    BY <1>1 DEF B!Execute
  <2>4. QED
    BY <1>0, <2>1, <2>2, <2>3 DEF BreakerInTurn, OneBusy, B!Quiet
<1>2. ASSUME NEW w \in Workers, breakerTask[w] = "call", B!Finish(w)
      PROVE  state # "OPEN" /\ B!Quiet'
  <2>1. breakerTask'[w] = None /\ \A x \in Workers : x # w => breakerTask'[x] = breakerTask[x]
    BY <1>0, <1>2 DEF B!Finish
  <2>2. \A x \in Workers : x # w => breakerTask[x] = None
    BY <1>0, <1>2 DEF BreakerInTurn, OneBusy
  <2>3. QED
    BY <1>0, <1>2, <2>1, <2>2 DEF BreakerInTurn, B!Quiet
<1>3. ASSUME NEW w \in Workers, B!onSuccess(w) PROVE BreakerInTurn'
  <2>1. state' = "CLOSED"
    BY <1>0, <1>2, <1>3 DEF B!onSuccess, B!CircuitState
  <2>2. QED
    BY <1>0, <2>1 DEF BreakerInTurn, OneBusy
<1>4. ASSUME NEW w \in Workers, B!onFailure(w) PROVE BreakerInTurn'
  <2>1. /\ B!Quiet' /\ state' \in {"CLOSED", "OPEN"}
        /\ state' = "OPEN" => failureCount' >= Threshold
    BY <1>0, <1>2, <1>4 DEF B!onFailure, B!Trips, B!CircuitState, BreakerInTurn
  <2>2. QED
    BY <1>0, <2>1 DEF BreakerInTurn, OneBusy
<1>5. CASE B!Rest
  BY <1>0, <1>5 DEF B!Rest, BreakerInTurn, OneBusy, B!Quiet
<1>6. QED
  BY <1>1, <1>3, <1>4, <1>5 DEF BreakerStep, B!Next

LEMMA BreakerDecides == BreakerInTurn => B!TrialDecides
  BY DEF BreakerInTurn, B!TrialDecides

-----------------------------------------------------------------------------
\* Analytics

StatInv ==
    /\ N!TypeOK
    /\ \A w \in Workers : statTask[w] # None =>
          /\ statTask[w].total # None => statTask[w].total <= total
          /\ statTask[w].at = "cache" => None \notin {statTask[w].total, statTask[w].active}
    /\ N!OverviewIsGrounded
    /\ active <= total

StatOthers(w) == \A x \in Workers : x # w => statTask'[x] = statTask[x]

LEMMA StatInvInit == N!Init => StatInv
  BY DEF N!Init, N!CallsInit, StatInv, N!TypeOK, N!OverviewIsGrounded

LEMMA StatSets ==
    ASSUME N!TypeOK, NEW w \in Workers, NEW t \in N!Task, statTask' = [statTask EXCEPT ![w] = t]
    PROVE  /\ statTask' \in [Workers -> N!Task \cup {None}]
           /\ statTask'[w] = t /\ t # None /\ StatOthers(w)
  BY PlaceholderAssumption DEF N!TypeOK, StatOthers

LEMMA StatEnds ==
    ASSUME N!TypeOK, NEW w \in Workers, N!Finish(w)
    PROVE  /\ statTask' \in [Workers -> N!Task \cup {None}]
           /\ statTask'[w] = None /\ StatOthers(w)
  BY DEF N!TypeOK, N!Finish, StatOthers

\* What a call goes on with: the statement after the one that is answered
LEMMA StatCalls ==
    ASSUME StatInv, NEW w \in Workers,
           \/ N!StartOverview(w) \/ N!StartRollup(w) \/ \E f \in FleetIds : N!RollUp(w, f)
           \/ N!CountTotal(w) \/ N!CountActive(w)
    PROVE  \E t \in N!Task :
              /\ statTask' = [statTask EXCEPT ![w] = t]
              /\ UNCHANGED <<fleets, total, active, overview>>
              /\ \/ t.total = None /\ t.active = None
                 \/ /\ statTask[w] # None
                    /\ \/ t.total = total /\ t.active = statTask[w].active
                       \/ t.total = statTask[w].total /\ t.active = active
              /\ t.at = "cache" => None \notin {t.total, t.active}
              /\ \/ UNCHANGED <<stats, found>> /\ t.at # "fleet" /\ ~N!Running(w, "fleet")
                 \/ /\ stats' = stats /\ statTask[w] = None /\ t = N!Left(fleets)
                    /\ found' = [f \in FleetIds |->
                                     IF f \in fleets THEN found[f] + 1 ELSE found[f]]
                 \/ \E f \in FleetIds : /\ stats' = Append(stats, f) /\ found' = found
                                        /\ N!Running(w, "fleet") /\ f \in statTask[w].todo
                                        /\ t = N!Left(statTask[w].todo \ {f})
<1>0. N!TypeOK /\ (statTask[w] # None => statTask[w] \in N!Task) /\ None \notin Nat
      /\ total \in Nat /\ active \in Nat /\ fleets \in SUBSET FleetIds
  BY PlaceholderAssumption DEF StatInv, N!TypeOK
<1>1. ASSUME NEW T \in SUBSET FleetIds
      PROVE  /\ N!Left(T) \in N!Task /\ N!Left(T).total = None /\ N!Left(T).active = None
             /\ N!Left(T).at # "cache"
  BY DEF N!Left, N!NewTask, N!Task
<1>2. CASE N!StartOverview(w)
  <2> DEFINE t == N!NewTask("count", {})
  <2>1. t \in N!Task /\ t.at = "count" /\ t.total = None /\ t.active = None
    BY DEF N!NewTask, N!Task
  <2>2. /\ statTask' = [statTask EXCEPT ![w] = t]
        /\ UNCHANGED <<fleets, total, active, overview, stats, found>>
        /\ ~N!Running(w, "fleet")
    BY <1>2 DEF N!StartOverview, N!Begin, N!Running
  <2> HIDE DEF t
  <2>3. QED
    BY <2>1, <2>2
<1>3. CASE N!StartRollup(w)
  <2> DEFINE t == N!Left(fleets)
  <2>1. /\ statTask' = [statTask EXCEPT ![w] = t] /\ statTask[w] = None /\ t = N!Left(fleets)
        /\ found' = [f \in FleetIds |-> IF f \in fleets THEN found[f] + 1 ELSE found[f]]
        /\ UNCHANGED <<fleets, total, active, overview, stats>>
    BY <1>3 DEF N!StartRollup, N!Begin
  <2>2. t \in N!Task /\ t.total = None /\ t.active = None /\ t.at # "cache"
    BY <1>0, <1>1
  <2> HIDE DEF t
  <2>3. QED
    BY <2>1, <2>2
<1>4. ASSUME NEW f \in FleetIds, N!RollUp(w, f) 
      PROVE  /\ stats' = Append(stats, f)
             /\ UNCHANGED <<fleets, total, active, overview, found>>
             /\ N!Running(w, "fleet") /\ f \in statTask[w].todo
             /\ N!Left(statTask[w].todo \ {f}) \in N!Task
             /\ statTask' = [statTask EXCEPT ![w] = N!Left(statTask[w].todo \ {f})]
  BY <1>0, <1>1, <1>4 DEF N!RollUp, N!Running, N!Task
<1>5. ASSUME NEW n \in Nat \cup {None}, NEW m \in Nat \cup {None}, N!Running(w, "count"),
             N!Counted(w, n, m)
      PROVE  \E t \in N!Task :
                /\ statTask' = [statTask EXCEPT ![w] = t] /\ t.total = n /\ t.active = m
                /\ t.at = IF None \in {n, m} THEN "count" ELSE "cache"
  <2> DEFINE at == IF None \in {n, m} THEN "count" ELSE "cache"
             t == [statTask[w] EXCEPT !.at = at, !.total = n, !.active = m]
  <2>1. at \in {"count", "cache"}
    OBVIOUS
  <2>2. statTask' = [statTask EXCEPT ![w] = t]
    BY <1>0, <1>5 DEF N!Counted, N!TypeOK
  <2> HIDE DEF at
  <2>3. t \in N!Task /\ t.at = at /\ t.total = n /\ t.active = m
    BY <1>0, <1>5, <2>1 DEF N!Running, N!Task
  <2> HIDE DEF t
  <2>4. QED
    BY <2>2, <2>3 DEF at
<1>6. CASE N!CountTotal(w)
  <2>1. N!Running(w, "count") /\ N!Counted(w, total, statTask[w].active)
        /\ statTask[w].active \in Nat \cup {None}
        /\ UNCHANGED <<fleets, total, active, overview, stats, found>>
    BY <1>0, <1>6 DEF N!CountTotal, N!Counted, N!Running, N!Task
  <2> DEFINE m == statTask[w].active
  <2>2. m \in Nat \cup {None} /\ total \in Nat \cup {None} /\ N!Counted(w, total, m)
    BY <1>0, <2>1
  <2> HIDE DEF m
  <2>3. PICK t \in N!Task :
            /\ statTask' = [statTask EXCEPT ![w] = t]
            /\ t.total = total /\ t.active = m
            /\ t.at = IF None \in {total, m} THEN "count" ELSE "cache"
    BY <1>5, <2>1, <2>2
  <2>4. /\ t.at # "fleet" /\ ~N!Running(w, "fleet") /\ statTask[w] # None
        /\ t.at = "cache" => None \notin {t.total, t.active}
    BY <2>1, <2>3 DEF N!Running
  <2>5. QED
    BY <2>1, <2>3, <2>4 DEF m
<1>7. CASE N!CountActive(w)
  <2>1. N!Running(w, "count") /\ N!Counted(w, statTask[w].total, active)
        /\ statTask[w].total \in Nat \cup {None}
        /\ UNCHANGED <<fleets, total, active, overview, stats, found>>
    BY <1>0, <1>7 DEF N!CountActive, N!Counted, N!Running, N!Task
  <2> DEFINE n == statTask[w].total
  <2>2. n \in Nat \cup {None} /\ active \in Nat \cup {None} /\ N!Counted(w, n, active)
    BY <1>0, <2>1
  <2> HIDE DEF n
  <2>3. PICK t \in N!Task :
            /\ statTask' = [statTask EXCEPT ![w] = t]
            /\ t.total = n /\ t.active = active
            /\ t.at = IF None \in {n, active} THEN "count" ELSE "cache"
    BY <1>5, <2>1, <2>2
  <2>4. /\ t.at # "fleet" /\ ~N!Running(w, "fleet") /\ statTask[w] # None
        /\ t.at = "cache" => None \notin {t.total, t.active}
    BY <2>1, <2>3 DEF N!Running
  <2>5. QED
    BY <2>1, <2>3, <2>4 DEF n
<1>8. QED
  BY <1>0, <1>1, <1>2, <1>3, <1>4, <1>6, <1>7 DEF N!Running, N!Task

\* The statement that renews the dashboard
LEMMA StatCaches ==
    ASSUME StatInv, NEW w \in Workers, N!CacheOverview(w)
    PROVE  /\ N!Running(w, "cache") /\ N!Finish(w)
           /\ UNCHANGED <<fleets, total, active, stats, found>>
           /\ overview' \in N!Overview /\ overview' # None
           /\ overview'.total = statTask[w].total /\ overview'.active = statTask[w].active
           /\ statTask[w].total # None /\ statTask[w].active # None
<1>1. N!Running(w, "cache") /\ statTask[w] \in N!Task
  BY DEF StatInv, N!TypeOK, N!CacheOverview, N!Running
<1>2. statTask[w].total \in Nat /\ statTask[w].active \in Nat
  BY <1>1 DEF StatInv, N!Task, N!Running
<1>3. overview' = [total |-> statTask[w].total, active |-> statTask[w].active]
  BY DEF N!CacheOverview
<1>4. overview' \in N!Overview
  BY <1>2, <1>3 DEF N!Overview
<1>5. QED
  BY <1>1, <1>2, <1>3, <1>4, PlaceholderAssumption DEF N!CacheOverview

LEMMA StatInvStep == StatInv /\ [N!Next]_(N!vars) => StatInv'
<1> SUFFICES ASSUME StatInv, [N!Next]_(N!vars) PROVE StatInv'
  OBVIOUS
<1>0. /\ N!TypeOK /\ total \in Nat /\ active \in Nat /\ None \notin Nat
      /\ \A w \in Workers : statTask[w] # None => statTask[w] \in N!Task
      /\ stats \in Seq(FleetIds) /\ found \in [FleetIds -> Nat]
  BY PlaceholderAssumption DEF StatInv, N!TypeOK
<1>1. ASSUME NEW w \in Workers, NEW t \in N!Task, statTask' = [statTask EXCEPT ![w] = t],
             t.total # None => t.total <= total, t.at = "cache" => None \notin {t.total, t.active},
             UNCHANGED <<fleets, total, active, overview>>, stats' \in Seq(FleetIds),
             found' \in [FleetIds -> Nat]
      PROVE  StatInv'
  <2>1. /\ statTask' \in [Workers -> N!Task \cup {None}]
        /\ statTask'[w] = t /\ StatOthers(w)
    BY <1>0, <1>1, StatSets
  <2>2. QED
    BY <1>1, <2>1 DEF StatInv, StatOthers, N!TypeOK, N!OverviewIsGrounded
<1>2. ASSUME NEW w \in Workers,
             \/ N!StartOverview(w) \/ N!StartRollup(w) \/ \E f \in FleetIds : N!RollUp(w, f)
             \/ N!CountTotal(w) \/ N!CountActive(w)
      PROVE  StatInv'
  <2>1. PICK t \in N!Task :
              /\ statTask' = [statTask EXCEPT ![w] = t]
              /\ UNCHANGED <<fleets, total, active, overview>>
              /\ \/ t.total = None
                 \/ statTask[w] # None /\ t.total = statTask[w].total
                 \/ t.total = total
              /\ t.at = "cache" => None \notin {t.total, t.active}
              /\ stats' = stats \/ \E f \in FleetIds : stats' = Append(stats, f)
              /\ \/ found' = found
                 \/ found' = [f \in FleetIds |->
                                  IF f \in fleets THEN found[f] + 1 ELSE found[f]]
    BY <1>2, StatCalls
  <2>2. stats' \in Seq(FleetIds) /\ found' \in [FleetIds -> Nat]
    <3>1. stats' = stats \/ \E f \in FleetIds : stats' = Append(stats, f)
      BY <2>1
    <3>2. stats' \in Seq(FleetIds)
      BY <1>0, <3>1
    <3>3. \A f \in FleetIds : (IF f \in fleets THEN found[f] + 1 ELSE found[f]) \in Nat
      BY <1>0
    <3>4. found' \in [FleetIds -> Nat]
      BY <1>0, <2>1, <3>3
    <3>5. QED
      BY <3>2, <3>4
  <2>3. t.total # None => t.total <= total
    BY <1>0, <2>1 DEF StatInv
  <2>4. QED
    BY <1>1, <2>1, <2>2, <2>3
<1>3. ASSUME NEW w \in Workers, N!CacheOverview(w) PROVE StatInv'
  <2>1. /\ N!Running(w, "cache") /\ N!Finish(w)
        /\ UNCHANGED <<fleets, total, active, stats, found>>
        /\ overview' \in N!Overview /\ overview'.total = statTask[w].total
        /\ statTask[w].total # None
    BY <1>3, StatCaches
  <2>2. /\ statTask' \in [Workers -> N!Task \cup {None}]
        /\ statTask'[w] = None /\ StatOthers(w)
    BY <1>0, <2>1, StatEnds
  <2>3. overview'.total <= total
    BY <2>1 DEF StatInv, N!Running
  <2>4. QED
    BY <2>1, <2>2, <2>3 DEF StatInv, StatOthers, N!TypeOK, N!OverviewIsGrounded
<1>4. ASSUME NEW w \in Workers, N!Reject(w) PROVE StatInv'
  <2>1. N!Finish(w) /\ UNCHANGED <<fleets, total, active, overview, stats, found>>
    BY <1>4 DEF N!Reject, N!Abandon
  <2>2. /\ statTask' \in [Workers -> N!Task \cup {None}]
        /\ statTask'[w] = None /\ StatOthers(w)
    BY <1>0, <2>1, StatEnds
  <2>3. QED
    BY <2>1, <2>2 DEF StatInv, StatOthers, N!TypeOK, N!OverviewIsGrounded
<1>5. CASE N!ExpireOverview
  BY <1>5 DEF N!ExpireOverview, StatInv, N!TypeOK, N!OverviewIsGrounded
<1>6. CASE N!Environment
  <2>1. /\ UNCHANGED <<statTask, overview, stats, found>> /\ fleets' \subseteq FleetIds
        /\ total' \in Nat /\ active' \in Nat /\ total <= total' /\ active' <= total'
    BY <1>0, <1>6 DEF N!Environment, N!AddFleet, N!AddVehicle, N!SetActive, StatInv, N!TypeOK
  <2>2. overview # None => overview.total \in Nat
    BY <1>0 DEF N!TypeOK, N!Overview
  <2>3. \A w \in Workers : statTask[w] # None => statTask[w].total \in Nat \cup {None}
    BY <1>0 DEF N!Task
  <2>4. QED
    BY <1>0, <2>1, <2>2, <2>3 DEF StatInv, N!TypeOK, N!OverviewIsGrounded
<1>7. CASE UNCHANGED N!vars
  BY <1>7 DEF N!vars, StatInv, N!TypeOK, N!OverviewIsGrounded
<1>8. QED
  BY <1>2, <1>3, <1>4, <1>5, <1>6, <1>7 DEF N!Next, N!Call

\* The instances count as FiniteSets does.
LEMMA SameCount ==
    /\ \A T : N!IsFiniteSet(T) <=> IsFiniteSet(T)
    /\ \A T : N!Cardinality(T) = Cardinality(T)
    /\ \A T : A!Cardinality(T) = Cardinality(T)
  BY DEF N!IsFiniteSet, IsFiniteSet, N!Cardinality, A!Cardinality, Cardinality

LEMMA FewWorkers == IsFiniteSet(Workers)
  BY OfficeAssumption, SameCount DEF N!AnalyticsAssumption

\* The places of a value in a sequence, counted, before and after another is added
Places(s, v) == {i \in DOMAIN s : s[i] = v}

LEMMA PlacesCount ==
    ASSUME NEW T, NEW s \in Seq(T), NEW v
    PROVE  IsFiniteSet(Places(s, v)) /\ Cardinality(Places(s, v)) \in Nat
<1>1. IsFiniteSet(1 .. Len(s))
  BY FS_Interval
<1>2. Places(s, v) \subseteq 1 .. Len(s)
  BY DEF Places
<1>3. QED
  BY <1>1, <1>2, FS_Subset, FS_CardinalityType

LEMMA PlacesGrow ==
    ASSUME NEW T, NEW s \in Seq(T), NEW x \in T, NEW v
    PROVE  Cardinality(Places(Append(s, x), v))
              = Cardinality(Places(s, v)) + (IF x = v THEN 1 ELSE 0)
<1> DEFINE n == Len(s) + 1
           P == Places(s, v)
<1>1. /\ DOMAIN Append(s, x) = DOMAIN s \cup {n} /\ n \notin DOMAIN s
      /\ Append(s, x)[n] = x
      /\ \A i \in DOMAIN s : Append(s, x)[i] = s[i]
  OBVIOUS
<1>2. Places(Append(s, x), v) = IF x = v THEN P \cup {n} ELSE P
  BY <1>1 DEF Places
<1>3. n \notin P
  BY <1>1 DEF Places
<1>4. IsFiniteSet(P) /\ Cardinality(P) \in Nat
  BY PlacesCount
<1> HIDE DEF P, n
<1>5. Cardinality(P \cup {n}) = Cardinality(P) + 1
  BY <1>3, <1>4, FS_AddElement
<1>6. Cardinality(Places(Append(s, x), v)) = Cardinality(P) + (IF x = v THEN 1 ELSE 0)
  BY <1>2, <1>4, <1>5
<1>7. QED
  BY <1>6 DEF P

\* A set of workers, counted, before and after one comes or goes
LEMMA WorkersCome ==
    ASSUME NEW U \in SUBSET Workers, NEW w \in Workers
    PROVE  /\ Cardinality(U) \in Nat
           /\ w \notin U => Cardinality(U \cup {w}) = Cardinality(U) + 1
           /\ w \in U => Cardinality(U \ {w}) = Cardinality(U) - 1
<1>1. IsFiniteSet(U)
  BY FewWorkers, FS_Subset
<1>2. QED
  BY <1>1, FS_AddElement, FS_RemoveElement, FS_CardinalityType

\* How many rollups have found a fleet: its documents, and the rollups that have still to
\* look at it.
Pending(f) == {w \in Workers : N!Running(w, "fleet") /\ f \in statTask[w].todo}
Rollups(f) == Cardinality(Places(stats, f)) + Cardinality(Pending(f))

RollupInv == \A f \in FleetIds : Rollups(f) = found[f]

LEMMA RollupInvInit == N!Init => RollupInv
<1> SUFFICES ASSUME N!Init, NEW f \in FleetIds PROVE Rollups(f) = 0 /\ found[f] = 0
  BY DEF RollupInv
<1>1. Pending(f) = {} /\ Places(stats, f) = {} /\ found[f] = 0
  BY DEF N!Init, N!CallsInit, Pending, N!Running, Places
<1>2. Cardinality({}) = 0
  BY FS_EmptySet
<1>3. QED
  BY <1>1, <1>2 DEF Rollups

\* Where nothing fails, a fleet is looked at in each rollup.
LEMMA RollupInvStep ==
    ASSUME StatInv, RollupInv, mode # "any", StatStep
    PROVE  RollupInv'
<1>0. N!TypeOK /\ stats \in Seq(FleetIds) /\ found \in [FleetIds -> Nat]
  BY DEF StatInv, N!TypeOK
<1>1. ASSUME NEW w \in Workers,
             \/ N!StartOverview(w) \/ N!StartRollup(w) \/ \E f \in FleetIds : N!RollUp(w, f)
             \/ N!CountTotal(w) \/ N!CountActive(w)
      PROVE  RollupInv'
  <2>1. PICK t \in N!Task :
            /\ statTask' = [statTask EXCEPT ![w] = t]
            /\ \/ UNCHANGED <<stats, found>> /\ t.at # "fleet" /\ ~N!Running(w, "fleet")
               \/ /\ stats' = stats /\ statTask[w] = None /\ t = N!Left(fleets)
                  /\ found' = [f \in FleetIds |->
                                   IF f \in fleets THEN found[f] + 1 ELSE found[f]]
               \/ \E f \in FleetIds : /\ stats' = Append(stats, f) /\ found' = found
                                      /\ N!Running(w, "fleet") /\ f \in statTask[w].todo
                                      /\ t = N!Left(statTask[w].todo \ {f})
    BY <1>1, StatCalls
  <2>2. statTask'[w] = t /\ t # None /\ StatOthers(w)
    BY <1>0, <2>1, StatSets
  <2>3. \A f : Pending(f)' = IF t.at = "fleet" /\ f \in t.todo THEN Pending(f) \cup {w}
                                                               ELSE Pending(f) \ {w}
    BY <2>2 DEF Pending, N!Running, StatOthers
  <2>4. \A T : /\ N!Left(T).todo = T
               /\ N!Left(T).at = IF T = {} THEN "count" ELSE "fleet"
    BY DEF N!Left, N!NewTask
  <2>5. CASE UNCHANGED <<stats, found>> /\ t.at # "fleet" /\ ~N!Running(w, "fleet")
    <3>1. \A f : Pending(f)' = Pending(f)
      BY <2>3, <2>5 DEF Pending
    <3>2. \A f : Rollups(f)' = Rollups(f)
      BY <2>5, <3>1 DEF Rollups
    <3>3. QED
      BY <2>5, <3>2 DEF RollupInv
  <2>6. ASSUME stats' = stats, statTask[w] = None, t = N!Left(fleets),
               found' = [f \in FleetIds |-> IF f \in fleets THEN found[f] + 1 ELSE found[f]]
        PROVE  RollupInv'
    <3>1. ASSUME NEW f \in fleets PROVE Rollups(f)' = Rollups(f) + 1
      <4>1. w \notin Pending(f) /\ Pending(f)' = Pending(f) \cup {w}
        BY <2>3, <2>4, <2>6 DEF Pending, N!Running
      <4>2. /\ Cardinality(Pending(f)') = Cardinality(Pending(f)) + 1
            /\ Cardinality(Pending(f)) \in Nat
        <5>1. Pending(f) \in SUBSET Workers
          BY DEF Pending
        <5>2. QED
          BY <4>1, <5>1, WorkersCome
      <4>3. Cardinality(Places(stats, f)) \in Nat
        BY <1>0, PlacesCount
      <4>4. QED
        BY <2>6, <4>2, <4>3 DEF Rollups
    <3>2. ASSUME NEW f \in FleetIds \ fleets PROVE Rollups(f)' = Rollups(f)
      <4>1. Pending(f)' = Pending(f)
        BY <2>3, <2>4, <2>6 DEF Pending, N!Running
      <4>2. QED
        BY <2>6, <4>1 DEF Rollups
    <3>3. ASSUME NEW f \in FleetIds PROVE Rollups(f)' = found'[f]
      <4>1. Rollups(f) = found[f]
        BY DEF RollupInv
      <4>2. found'[f] = IF f \in fleets THEN found[f] + 1 ELSE found[f]
        BY <2>6
      <4>3. CASE f \in fleets
        BY <3>1, <4>1, <4>2, <4>3
      <4>4. CASE f \notin fleets
        BY <3>2, <4>1, <4>2, <4>4
      <4>5. QED
        BY <4>3, <4>4
    <3>4. QED
      BY <3>3 DEF RollupInv
  <2>7. ASSUME NEW f \in FleetIds, stats' = Append(stats, f), found' = found, N!Running(w, "fleet"),
               f \in statTask[w].todo, t = N!Left(statTask[w].todo \ {f})
        PROVE  RollupInv'
    <3>1. ASSUME NEW g \in FleetIds PROVE Rollups(g)' = Rollups(g)
      <4>1. Pending(g)' = IF g = f THEN Pending(g) \ {w} ELSE Pending(g)
        <5> DEFINE T == statTask[w].todo \ {f}
        <5>1. t.todo = T /\ (g \in T => t.at = "fleet")
          BY <2>4, <2>7
        <5>2. w \in Pending(g) <=> g \in statTask[w].todo
          BY <2>7 DEF Pending
        <5>3. g \in T <=> g # f /\ g \in statTask[w].todo
          OBVIOUS
        <5> HIDE DEF T
        <5>4. CASE g \in T
          <6>1. Pending(g)' = Pending(g) \cup {w}
            BY <2>3, <5>1, <5>4
          <6>2. QED
            BY <5>2, <5>3, <5>4, <6>1
        <5>5. CASE g \notin T
          <6>1. Pending(g)' = Pending(g) \ {w}
            BY <2>3, <5>1, <5>5
          <6>2. QED
            BY <5>2, <5>3, <5>5, <6>1
        <5>6. QED
          BY <5>4, <5>5
      <4>2. w \in Pending(f)
        BY <2>7 DEF Pending
      <4>3. Cardinality(Pending(g)) \in Nat
        BY WorkersCome DEF Pending
      <4>4. Cardinality(Pending(g)') = Cardinality(Pending(g)) - (IF f = g THEN 1 ELSE 0)
        <5>1. CASE f = g
          <6>1. Pending(f) \in SUBSET Workers
            BY DEF Pending
          <6>2. QED
            BY <4>1, <4>2, <5>1, <6>1, WorkersCome
        <5>2. CASE f # g
          BY <4>1, <4>3, <5>2
        <5>3. QED
          BY <5>1, <5>2
      <4>5. Cardinality(Places(stats, g)) \in Nat
        BY <1>0, PlacesCount
      <4>6. Cardinality(Places(stats, g)')
               = Cardinality(Places(stats, g)) + (IF f = g THEN 1 ELSE 0)
        BY <1>0, <2>7, PlacesGrow
      <4>7. QED
        BY <4>3, <4>4, <4>5, <4>6 DEF Rollups
    <3>2. QED
      BY <2>7, <3>1 DEF RollupInv
  <2>8. QED
    BY <2>1, <2>5, <2>6, <2>7
<1>2. ASSUME \A w \in Workers : N!Running(w, "fleet") <=> N!Running(w, "fleet")',
             \A w \in Workers : N!Running(w, "fleet") => statTask'[w] = statTask[w],
             UNCHANGED <<stats, found>>
      PROVE  RollupInv'
  <2>1. \A f : Pending(f)' = Pending(f)
    BY <1>2 DEF Pending, N!Running
  <2>2. \A f : Rollups(f)' = Rollups(f)
    BY <1>2, <2>1 DEF Rollups
  <2>3. QED
    BY <1>2, <2>2 DEF RollupInv
<1>3. ASSUME NEW w \in Workers, N!CacheOverview(w) PROVE RollupInv'
  <2>1. N!Running(w, "cache") /\ UNCHANGED <<stats, found>> /\ N!Finish(w)
    BY <1>3, StatCaches DEF StatInv
  <2>2. statTask'[w] = None /\ StatOthers(w)
    BY <1>0, <2>1, StatEnds
  <2>3. QED
    BY <1>2, <2>1, <2>2 DEF N!Running, StatOthers
<1>4. CASE N!ExpireOverview \/ N!Environment
  <2>1. UNCHANGED <<statTask, stats, found>>
    BY <1>4 DEF N!ExpireOverview, N!Environment, N!AddFleet, N!AddVehicle, N!SetActive
  <2>2. QED
    BY <1>2, <2>1 DEF N!Running
<1>5. QED
  BY <1>1, <1>3, <1>4 DEF StatStep, N!Call, Fails

LEMMA RollupsWhole == N!TypeOK /\ RollupInv => N!RollupsAreWhole
<1> SUFFICES ASSUME N!TypeOK, RollupInv, N!Quiet, NEW f \in FleetIds
             PROVE  N!Documents(f) = found[f]
  BY DEF N!RollupsAreWhole
<1>1. Pending(f) = {}
  BY DEF N!Quiet, Pending, N!Running
<1>2. Rollups(f) = found[f]
  BY DEF RollupInv
<1>3. Cardinality(Places(stats, f)) \in Nat /\ Cardinality({}) = 0
  BY PlacesCount, FS_EmptySet DEF N!TypeOK
<1>4. N!Documents(f) = Cardinality(Places(stats, f))
  BY SameCount DEF N!Documents, Places
<1>5. QED
  BY <1>1, <1>2, <1>3, <1>4 DEF Rollups

\* Calls one at a time, and no vehicle comes or goes under one: what is counted still holds.
StatInTurn ==
    /\ OneBusy(statTask)
    /\ \A w \in Workers : statTask[w] # None =>
          /\ statTask[w].total # None => statTask[w].total = total
          /\ statTask[w].active # None => statTask[w].active = active
    /\ N!UtilizationIsPercentage

LEMMA StatInTurnInit == N!Init => StatInTurn
  BY DEF N!Init, N!CallsInit, StatInTurn, OneBusy, N!UtilizationIsPercentage

LEMMA StatInTurnStep ==
    ASSUME StatInv, StatInTurn, mode = "alone", StatStep
    PROVE  StatInTurn'
<1>0. N!TypeOK /\ mode' = mode /\ OneBusy(statTask')
  BY DEF StatInv, StatStep
<1>1. ASSUME NEW w \in Workers,
             \/ N!StartOverview(w) \/ N!StartRollup(w) \/ \E f \in FleetIds : N!RollUp(w, f)
             \/ N!CountTotal(w) \/ N!CountActive(w)
      PROVE  StatInTurn'
  <2>1. PICK t \in N!Task :
            /\ statTask' = [statTask EXCEPT ![w] = t]
            /\ UNCHANGED <<total, active, overview>>
            /\ \/ t.total = None /\ t.active = None
               \/ /\ statTask[w] # None
                  /\ \/ t.total = total /\ t.active = statTask[w].active
                     \/ t.total = statTask[w].total /\ t.active = active
    BY <1>1, StatCalls
  <2>2. statTask'[w] = t /\ t # None /\ StatOthers(w)
    BY <1>0, <2>1, StatSets
  <2>3. (t.total # None => t.total = total) /\ (t.active # None => t.active = active)
    BY <2>1 DEF StatInTurn
  <2>4. QED
    BY <1>0, <2>1, <2>2, <2>3 DEF StatInTurn, StatOthers, OneBusy, N!UtilizationIsPercentage
<1>2. ASSUME NEW w \in Workers, N!CacheOverview(w) PROVE StatInTurn'
  <2>1. /\ N!Running(w, "cache") /\ N!Finish(w) /\ UNCHANGED <<total, active, stats>>
        /\ overview'.total = statTask[w].total /\ overview'.active = statTask[w].active
        /\ statTask[w].total # None /\ statTask[w].active # None
    BY <1>2, StatCaches
  <2>2. statTask'[w] = None /\ StatOthers(w)
    BY <1>0, <2>1, StatEnds
  <2>3. overview'.active <= overview'.total
    BY <2>1 DEF StatInv, StatInTurn, N!Running
  <2>4. QED
    BY <1>0, <2>1, <2>2, <2>3 DEF StatInTurn, StatOthers, OneBusy, N!UtilizationIsPercentage
<1>3. CASE N!ExpireOverview
  BY <1>0, <1>3 DEF N!ExpireOverview, StatInTurn, OneBusy, N!UtilizationIsPercentage
<1>4. CASE N!Environment /\ N!Quiet
  <2>1. UNCHANGED <<statTask, overview>>
    BY <1>4 DEF N!Environment, N!AddFleet, N!AddVehicle, N!SetActive
  <2>2. QED
    BY <1>0, <1>4, <2>1 DEF StatInTurn, OneBusy, N!Quiet, N!UtilizationIsPercentage
<1>5. QED
  BY <1>1, <1>2, <1>3, <1>4 DEF StatStep, N!Call, Fails
-----------------------------------------------------------------------------
\* Fleets

\* A fleet is created before anything is told of it, by the one call that may tell so;
\* a deletion is told by a call that has written it.
FleetShape(w) ==
    LET t == fleetTask[w] IN
    t # None =>
        /\ t.at = "manager" => t.then \in {"create", "update"}
        /\ t.at \in {"update", "delete"} \/ (t.at = "manager" /\ t.then = "update") => F!Exists
        /\ t.at = "tell" =>
              /\ F!Exists /\ t.topic \in F!Topics
              /\ t.topic = "FLEET_DELETED" => fleet.deleted
        /\ t.at = "count" => t.total = None \/ t.active = None

TellsCreated(w) == F!Running(w, "tell") /\ fleetTask[w].topic = "FLEET_CREATED"

FleetInv ==
    /\ F!TypeOK
    /\ \A w \in Workers : FleetShape(w)
    /\ F!FleetIsTold
    /\ \A w \in Workers : TellsCreated(w) =>
          /\ ~F!Told("FLEET_CREATED")
          /\ \A x \in Workers : TellsCreated(x) => w = x

FleetOthers(w) == \A x \in Workers : x # w => fleetTask'[x] = fleetTask[x]

LEMMA FleetInvInit == F!Init => FleetInv
  BY DEF F!Init, F!CallsInit, FleetInv, F!TypeOK, F!FleetIsTold, F!Told, TellsCreated,
         F!Running, FleetShape

LEMMA FleetTypes ==
    ASSUME F!TypeOK
    PROVE  /\ \A w \in Workers : fleetTask[w] # None => fleetTask[w] \in F!Task
           /\ F!Exists => fleet \in F!Fleet
           /\ None \notin Int /\ None \notin F!Fleet
  BY PlaceholderAssumption DEF F!TypeOK, F!Exists

LEMMA FleetSets ==
    ASSUME F!TypeOK, NEW w \in Workers, NEW t \in F!Task,
           fleetTask' = [fleetTask EXCEPT ![w] = t]
    PROVE  /\ fleetTask' \in [Workers -> F!Task \cup {None}]
           /\ fleetTask'[w] = t /\ t # None /\ FleetOthers(w)
  BY PlaceholderAssumption DEF F!TypeOK, FleetOthers

LEMMA FleetEnds ==
    ASSUME F!TypeOK, NEW w \in Workers, F!Finish(w)
    PROVE  /\ fleetTask' \in [Workers -> F!Task \cup {None}]
           /\ fleetTask'[w] = None /\ FleetOthers(w)
  BY DEF F!TypeOK, F!Finish, FleetOthers

\* What a call begins with
LEMMA FleetBegins ==
    ASSUME FleetInv, NEW w \in Workers, F!Call(w)
    PROVE  \E t \in F!Task :
              /\ fleetTask[w] = None /\ fleetTask' = [fleetTask EXCEPT ![w] = t]
              /\ t.total = None /\ t.active = None
              /\ UNCHANGED <<fleet, fleetEvents, inactive>>
              /\ \/ t.at = "count"
                 \/ (t.at = "delete" /\ F!Alive)
                 \/ (t.at \in {"manager", "create"} /\ t.then = "create")
                 \/ /\ t.at \in {"manager", "update"} /\ t.then = "update"
                    /\ F!Alive /\ t.read = fleet.metadata
<1>0. F!TypeOK /\ (F!Exists => fleet \in F!Fleet)
  BY FleetTypes DEF FleetInv
<1>1. ASSUME NEW named \in BOOLEAN, NEW md \in SUBSET Keys, F!StartCreate(w, named, md)
      PROVE  \E t \in F!Task :
                /\ F!Start(w, t) /\ t.total = None /\ t.active = None
                /\ t.at \in {"manager", "create"} /\ t.then = "create"
  <2> DEFINE at == IF named THEN "manager" ELSE "create"
             t == [F!First("create", named) EXCEPT !.metadata = md]
  <2>1. at \in {"manager", "create"}
    OBVIOUS
  <2>3. t \in F!Task /\ t.total = None /\ t.active = None /\ t.at = at /\ t.then = "create"
    BY DEF F!First, F!NewTask, F!Task
  <2> HIDE DEF at
  <2>4. F!Start(w, t)
    BY <1>1 DEF F!StartCreate
  <2> HIDE DEF t
  <2>5. QED
    BY <2>1, <2>3, <2>4
<1>2. ASSUME NEW named \in BOOLEAN, NEW st \in F!FleetStatus \cup {None},
             NEW md \in SUBSET Keys, F!StartUpdate(w, named, st, md)
      PROVE  \E t \in F!Task :
                /\ F!Start(w, t) /\ t.total = None /\ t.active = None /\ F!Alive
                /\ t.at \in {"manager", "update"} /\ t.then = "update"
                /\ t.read = fleet.metadata
  <2> DEFINE at == IF named THEN "manager" ELSE "update"
             t == [F!First("update", named) EXCEPT !.status = st, !.metadata = md,
                                                   !.read = fleet.metadata]
  <2>1. at \in {"manager", "update"} /\ F!Alive /\ fleet.metadata \in SUBSET Keys
    BY <1>0, <1>2 DEF F!StartUpdate, F!Alive, F!Fleet
  <2>3. t \in F!Task /\ t.total = None /\ t.active = None /\ t.at = at /\ t.then = "update"
        /\ t.read = fleet.metadata
    BY <1>2, <2>1 DEF F!First, F!NewTask, F!Task
  <2> HIDE DEF at
  <2>4. F!Start(w, t)
    BY <1>2 DEF F!StartUpdate
  <2> HIDE DEF t
  <2>5. QED
    BY <2>1, <2>3, <2>4
<1>3. ASSUME NEW at \in {"delete", "count"}
      PROVE  LET t == F!NewTask(at) IN
             t \in F!Task /\ t.at = at /\ t.total = None /\ t.active = None
  BY DEF F!NewTask, F!Task
<1>4. CASE F!StartDelete(w)
  BY <1>3, <1>4 DEF F!StartDelete, F!Start, F!Begin
<1>5. CASE F!StartStatistics(w)
  BY <1>3, <1>5 DEF F!StartStatistics, F!Start, F!Begin
<1>6. QED
  BY <1>1, <1>2, <1>4, <1>5 DEF F!Call, F!Start, F!Begin

\* The statement after a write: what it will tell
LEMMA FleetTells ==
    ASSUME FleetInv, NEW w \in Workers, fleetTask[w] # None,
           NEW topic \in F!Topics,
           NEW st \in F!FleetStatus \cup {None}, F!Tell(w, topic, st)
    PROVE  /\ fleetTask' \in [Workers -> F!Task \cup {None}] /\ FleetOthers(w)
           /\ fleetTask'[w] # None /\ fleetTask'[w].at = "tell" /\ fleetTask'[w].topic = topic
<1> DEFINE t == [fleetTask[w] EXCEPT !.at = "tell", !.topic = topic, !.status = st]
<1>1. F!TypeOK /\ fleetTask[w] \in F!Task
  BY FleetTypes DEF FleetInv
<1>2. t \in F!Task /\ t.at = "tell" /\ t.topic = topic
  BY <1>1 DEF F!Task
<1>3. fleetTask' = [fleetTask EXCEPT ![w] = t]
  BY <1>1 DEF F!Tell, F!TypeOK
<1> HIDE DEF t
<1>4. QED
  BY <1>1, <1>2, <1>3, FleetSets

\* What the lookup of the manager, and a count, goes on with
LEMMA FleetReads ==
    ASSUME FleetInv, NEW w \in Workers,
           F!FindManager(w) \/ F!CountTotal(w) \/ F!CountActive(w)
    PROVE  /\ UNCHANGED <<fleet, fleetEvents>> /\ fleetTask[w] # None
           /\ \/ F!Finish(w) /\ fleetTask[w].at = "manager" /\ UNCHANGED inactive
              \/ /\ F!Finish(w) /\ fleetTask[w].at = "count"
                 /\ \/ /\ fleetTask[w].active # None
                       /\ inactive' = F!One(F!Alive) - fleetTask[w].active
                    \/ /\ fleetTask[w].total # None
                       /\ inactive' = fleetTask[w].total
                             - (IF F!Alive THEN F!One(fleet.status = "ACTIVE") ELSE 0)
              \/ \E t \in F!Task :
                    /\ fleetTask' = [fleetTask EXCEPT ![w] = t] /\ UNCHANGED inactive
                    /\ \/ /\ fleetTask[w].at = "manager" /\ t.at = fleetTask[w].then
                          /\ t.then = fleetTask[w].then /\ t.read = fleetTask[w].read
                       \/ /\ fleetTask[w].at = "count" /\ t.at = "count"
                          /\ \/ t.active = None /\ t.total = F!One(F!Alive)
                             \/ /\ t.total = None
                                /\ t.active = IF F!Alive THEN F!One(fleet.status = "ACTIVE") ELSE 0
<1>0. fleetTask[w] # None /\ fleetTask[w] \in F!Task /\ FleetShape(w) /\ None \notin Nat
      /\ fleetTask \in [Workers -> F!Task \cup {None}] /\ UNCHANGED <<fleet, fleetEvents>>
  BY FleetTypes, PlaceholderAssumption
     DEF FleetInv, F!TypeOK, F!FindManager, F!CountTotal, F!CountActive, F!Running
<1> DEFINE all == F!One(F!Alive)
           act == IF F!Alive THEN F!One(fleet.status = "ACTIVE") ELSE 0
<1>1. CASE F!FindManager(w)
  <2> DEFINE t == [fleetTask[w] EXCEPT !.at = fleetTask[w].then]
  <2>1. fleetTask[w].at = "manager" /\ fleetTask[w].then \in {"create", "update"}
    BY <1>0, <1>1 DEF F!FindManager, F!Running, FleetShape
  <2>2. t \in F!Task /\ t.at = fleetTask[w].then /\ t.then = fleetTask[w].then
        /\ t.read = fleetTask[w].read
    BY <1>0, <2>1 DEF F!Task
  <2>3. /\ F!Finish(w) \/ fleetTask' = [fleetTask EXCEPT ![w] = t]
        /\ UNCHANGED inactive
    BY <1>0, <1>1 DEF F!FindManager, F!Continue
  <2> HIDE DEF t
  <2>4. QED
    BY <1>0, <2>1, <2>2, <2>3
<1>2. all \in Nat /\ act \in Nat
  BY DEF F!One
<1> HIDE DEF all, act
<1>3. ASSUME NEW n \in Nat \cup {None}, NEW m \in Nat \cup {None},
             fleetTask[w].at = "count", F!Counted(w, n, m), None \in {n, m}
      PROVE  \E t \in F!Task : /\ fleetTask' = [fleetTask EXCEPT ![w] = t] /\ UNCHANGED inactive
                               /\ t.at = "count" /\ t.total = n /\ t.active = m
  <2> DEFINE t == [fleetTask[w] EXCEPT !.total = n, !.active = m]
  <2>1. t \in F!Task /\ t.at = "count" /\ t.total = n /\ t.active = m
    BY <1>0, <1>3 DEF F!Task
  <2>2. fleetTask' = [fleetTask EXCEPT ![w] = t] /\ UNCHANGED inactive
    BY <1>0, <1>3 DEF F!Counted
  <2> HIDE DEF t
  <2>3. QED
    BY <2>1, <2>2
<1>4. CASE F!CountTotal(w)
  <2>1. /\ fleetTask[w].at = "count" /\ fleetTask[w].active \in Nat \cup {None}
        /\ F!Counted(w, all, fleetTask[w].active)
    BY <1>0, <1>4 DEF F!CountTotal, F!Running, F!Task, all
  <2>2. CASE fleetTask[w].active = None
    <3> DEFINE m == fleetTask[w].active
    <3>0. m = None /\ F!Counted(w, all, m) /\ None \in {all, m}
          /\ m \in Nat \cup {None} /\ all \in Nat \cup {None}
      BY <1>2, <2>1, <2>2
    <3> HIDE DEF m
    <3>1. PICK t \in F!Task :
              /\ fleetTask' = [fleetTask EXCEPT ![w] = t] /\ UNCHANGED inactive
              /\ t.at = "count" /\ t.total = all /\ t.active = m
      BY <1>3, <2>1, <3>0
    <3>2. QED
      BY <1>0, <2>1, <3>0, <3>1 DEF all
  <2>3. CASE fleetTask[w].active # None
    BY <1>0, <1>2, <2>1, <2>3 DEF F!Counted, all
  <2>4. QED
    BY <2>2, <2>3
<1>5. CASE F!CountActive(w)
  <2>1. /\ fleetTask[w].at = "count" /\ fleetTask[w].total \in Nat \cup {None}
        /\ F!Counted(w, fleetTask[w].total, act)
    BY <1>0, <1>5 DEF F!CountActive, F!Running, F!Task, act
  <2>2. CASE fleetTask[w].total = None
    <3> DEFINE n == fleetTask[w].total
    <3>0. n = None /\ F!Counted(w, n, act) /\ None \in {n, act}
          /\ n \in Nat \cup {None} /\ act \in Nat \cup {None}
      BY <1>2, <2>1, <2>2
    <3> HIDE DEF n
    <3>1. PICK t \in F!Task :
              /\ fleetTask' = [fleetTask EXCEPT ![w] = t] /\ UNCHANGED inactive
              /\ t.at = "count" /\ t.total = n /\ t.active = act
      BY <1>3, <2>1, <3>0
    <3>2. QED
      BY <1>0, <2>1, <3>0, <3>1 DEF act
  <2>3. CASE fleetTask[w].total # None
    BY <1>0, <1>2, <2>1, <2>3 DEF F!Counted, act
  <2>4. QED
    BY <2>2, <2>3
<1>6. QED
  BY <1>1, <1>4, <1>5

LEMMA FleetInvStep ==
    ASSUME FleetInv, [F!Next]_(F!vars)
    PROVE  FleetInv'
<1>0. /\ F!TypeOK /\ None \notin Nat /\ None \notin Int
      /\ F!Exists => fleet \in F!Fleet
      /\ \A w \in Workers : fleetTask[w] # None => fleetTask[w] \in F!Task
  BY FleetTypes, PlaceholderAssumption DEF FleetInv
\* A step that writes neither the row nor the topic
<1>1. ASSUME NEW w \in Workers, UNCHANGED <<fleet, fleetEvents>>,
             fleetTask' \in [Workers -> F!Task \cup {None}], FleetOthers(w),
             inactive' \in Int \cup {None}, FleetShape(w)', ~TellsCreated(w)'
      PROVE  FleetInv'
  <2>1. \A x \in Workers : FleetShape(x)'
    BY <1>1 DEF FleetInv, FleetOthers, FleetShape, F!Exists
  <2>2. \A x \in Workers : TellsCreated(x)' => TellsCreated(x)
    BY <1>1 DEF TellsCreated, F!Running, FleetOthers
  <2>3. F!TypeOK' /\ F!FleetIsTold'
    BY <1>1 DEF FleetInv, F!TypeOK, F!FleetIsTold, F!Exists, F!Told
  <2>4. F!Told("FLEET_CREATED")' = F!Told("FLEET_CREATED")
    BY <1>1 DEF F!Told
  <2>5. QED
    BY <2>1, <2>2, <2>3, <2>4 DEF FleetInv
<1>2. ASSUME NEW w \in Workers, UNCHANGED <<fleet, fleetEvents, inactive>>, F!Finish(w)
      PROVE  FleetInv'
  <2>1. /\ fleetTask' \in [Workers -> F!Task \cup {None}]
        /\ fleetTask'[w] = None /\ FleetOthers(w)
    BY <1>0, <1>2, FleetEnds
  <2>2. QED
    BY <1>0, <1>1, <1>2, <2>1 DEF FleetShape, TellsCreated, F!Running, F!TypeOK
<1>3. ASSUME NEW w \in Workers, F!Call(w) PROVE FleetInv'
  <2>1. PICK t \in F!Task :
            /\ fleetTask' = [fleetTask EXCEPT ![w] = t]
            /\ t.total = None /\ UNCHANGED <<fleet, fleetEvents, inactive>>
            /\ \/ t.at = "count"
               \/ (t.at = "delete" /\ F!Alive)
               \/ (t.at \in {"manager", "create"} /\ t.then = "create")
               \/ (t.at \in {"manager", "update"} /\ t.then = "update" /\ F!Alive)
    BY <1>3, FleetBegins
  <2>2. /\ fleetTask' \in [Workers -> F!Task \cup {None}]
        /\ fleetTask'[w] = t /\ FleetOthers(w)
    BY <1>0, <2>1, FleetSets
  <2>3. FleetShape(w)' /\ ~TellsCreated(w)'
    BY <2>1, <2>2 DEF FleetShape, TellsCreated, F!Running, F!Alive, F!Exists
  <2>4. QED
    BY <1>0, <1>1, <2>1, <2>2, <2>3 DEF F!TypeOK
<1>4. ASSUME NEW w \in Workers, F!FindManager(w) \/ F!CountTotal(w) \/ F!CountActive(w)
      PROVE  FleetInv'
  <2>1. CASE F!Finish(w)
    <3>1. /\ fleetTask' \in [Workers -> F!Task \cup {None}]
          /\ fleetTask'[w] = None /\ FleetOthers(w)
      BY <1>0, <2>1, FleetEnds
    <3>2. fleetTask[w] \in F!Task /\ UNCHANGED <<fleet, fleetEvents>>
      BY <1>0, <1>4, FleetReads
    <3>3. inactive' \in Int \cup {None}
      <4>1. \A P : F!One(P) \in Nat
        BY DEF F!One
      <4>2. CASE UNCHANGED inactive
        BY <1>0, <4>2 DEF F!TypeOK
      <4>3. CASE fleetTask[w].active # None /\ inactive' = F!One(F!Alive) - fleetTask[w].active
        BY <3>2, <4>1, <4>3 DEF F!Task
      <4>4. CASE /\ fleetTask[w].total # None
                 /\ inactive' = fleetTask[w].total
                       - (IF F!Alive THEN F!One(fleet.status = "ACTIVE") ELSE 0)
        BY <3>2, <4>1, <4>4 DEF F!Task
      <4>5. QED
        BY <1>0, <1>4, <3>1, <4>2, <4>3, <4>4, FleetReads
    <3>4. QED
      BY <1>1, <3>1, <3>2, <3>3 DEF FleetShape, TellsCreated, F!Running
  <2>2. ASSUME NEW t \in F!Task, fleetTask' = [fleetTask EXCEPT ![w] = t], UNCHANGED inactive,
               \/ fleetTask[w].at = "manager" /\ t.at = fleetTask[w].then
               \/ t.at = "count" /\ (t.total = None \/ t.active = None)
        PROVE  FleetInv'
    <3>1. /\ fleetTask' \in [Workers -> F!Task \cup {None}]
          /\ fleetTask'[w] = t /\ FleetOthers(w)
      BY <1>0, <2>2, FleetSets
    <3>2. fleetTask[w] # None /\ FleetShape(w) /\ UNCHANGED <<fleet, fleetEvents>>
      BY <1>4, FleetReads DEF FleetInv
    <3>3. FleetShape(w)' /\ ~TellsCreated(w)'
      BY <2>2, <3>1, <3>2 DEF FleetShape, TellsCreated, F!Running, F!Exists
    <3>4. QED
      BY <1>0, <1>1, <2>2, <3>1, <3>2, <3>3 DEF F!TypeOK
  <2>3. QED
    BY <1>4, <2>1, <2>2, FleetReads
\* A write of the row, by the call that will tell it
<1>5. ASSUME NEW w \in Workers, fleetTask[w] # None, NEW topic \in F!Topics,
             NEW st \in F!FleetStatus \cup {None}, F!Tell(w, topic, st),
             fleet' \in F!Fleet, F!Exists => (fleet.deleted => fleet'.deleted),
             topic = "FLEET_DELETED" => fleet'.deleted,
             topic = "FLEET_CREATED" <=> ~F!Exists,
             UNCHANGED <<fleetEvents, inactive>>
      PROVE  FleetInv'
  <2>1. /\ fleetTask' \in [Workers -> F!Task \cup {None}] /\ FleetOthers(w)
        /\ fleetTask'[w] # None /\ fleetTask'[w].at = "tell" /\ fleetTask'[w].topic = topic
    BY <1>5, FleetTells
  <2>2. F!Exists'
    BY <1>0, <1>5, FleetTypes DEF F!Exists
  <2>3. \A x \in Workers : FleetShape(x)'
    <3>1. FleetShape(w)'
      BY <1>5, <2>1, <2>2 DEF FleetShape, F!Exists
    <3>2. ASSUME NEW x \in Workers, x # w PROVE FleetShape(x)'
      BY <1>5, <2>1, <2>2, <3>2 DEF FleetInv, FleetShape, FleetOthers, F!Exists
    <3>3. QED
      BY <3>1, <3>2
  <2>4. F!TypeOK'
    BY <1>0, <1>5, <2>1 DEF F!TypeOK
  <2>5. F!FleetIsTold'
    BY <1>5, <2>2 DEF FleetInv, F!FleetIsTold, F!Told, F!Exists
  <2>6. CASE F!Exists
    <3>1. \A x \in Workers : TellsCreated(x)' => TellsCreated(x)
      BY <1>5, <2>1, <2>6 DEF TellsCreated, F!Running, FleetOthers
    <3>2. QED
      BY <1>5, <2>3, <2>4, <2>5, <3>1 DEF FleetInv, F!Told
  <2>7. CASE ~F!Exists
    <3>1. fleetEvents = <<>> /\ \A x \in Workers : ~TellsCreated(x)
      BY <2>7 DEF FleetInv, FleetShape, TellsCreated, F!Running, F!FleetIsTold
    <3>2. \A x \in Workers : TellsCreated(x)' => x = w
      BY <2>1, <3>1 DEF TellsCreated, F!Running, FleetOthers
    <3>3. QED
      BY <1>5, <2>3, <2>4, <2>5, <3>1, <3>2 DEF FleetInv, F!Told
  <2>8. QED
    BY <2>6, <2>7
<1>6. ASSUME NEW w \in Workers, F!CreateFleet(w) PROVE FleetInv'
  <2>1. fleetTask[w] # None /\ fleetTask[w] \in F!Task /\ UNCHANGED <<fleetEvents, inactive>>
    BY <1>0, <1>6 DEF F!CreateFleet, F!Running
  <2>2. CASE F!Exists
    BY <1>2, <1>6, <2>1, <2>2 DEF F!CreateFleet
  <2>3. CASE ~F!Exists
    <3>1. /\ F!Tell(w, "FLEET_CREATED", None)
          /\ fleet' = [status |-> "ACTIVE", deleted |-> FALSE, metadata |-> fleetTask[w].metadata]
      BY <1>6, <2>3 DEF F!CreateFleet
    <3>2. fleet' \in F!Fleet
      BY <2>1, <3>1 DEF F!Fleet, F!Task, F!FleetStatus
    <3>3. QED
      BY <1>5, <2>1, <2>3, <3>1, <3>2 DEF F!Topics
  <2>4. QED
    BY <2>2, <2>3
<1>7. ASSUME NEW w \in Workers, F!UpdateFleet(w) PROVE FleetInv'
  <2>1. fleetTask[w] # None /\ fleetTask[w] \in F!Task /\ UNCHANGED <<fleetEvents, inactive>>
        /\ F!Exists /\ fleet \in F!Fleet
    BY <1>0, <1>7 DEF F!UpdateFleet, F!Running, FleetInv, FleetShape
  <2> DEFINE st == IF fleetTask[w].status = None THEN fleet.status ELSE fleetTask[w].status
  <2>2. fleet' = [fleet EXCEPT !.status = st, !.metadata = F!Merged(w)]
        /\ F!Tell(w, "FLEET_UPDATED", fleet'.status)
    BY <1>7 DEF F!UpdateFleet
  <2>3. st \in F!FleetStatus /\ F!Merged(w) \in SUBSET Keys
    BY <2>1 DEF F!Merged, F!Task, F!Fleet
  <2> HIDE DEF st
  <2>4. fleet' \in F!Fleet /\ fleet'.deleted = fleet.deleted /\ fleet'.status \in F!FleetStatus
    BY <2>1, <2>2, <2>3 DEF F!Fleet
  <2>5. QED
    BY <1>5, <2>1, <2>2, <2>4 DEF F!Topics
<1>8. ASSUME NEW w \in Workers, F!DeleteFleet(w) PROVE FleetInv'
  <2>1. fleetTask[w] # None /\ fleetTask[w] \in F!Task /\ UNCHANGED <<fleetEvents, inactive>>
        /\ F!Exists /\ fleet \in F!Fleet
    BY <1>0, <1>8 DEF F!DeleteFleet, F!Running, FleetInv, FleetShape
  <2>2. fleet' = [fleet EXCEPT !.deleted = TRUE, !.status = "DECOMMISSIONED"]
        /\ F!Tell(w, "FLEET_DELETED", None)
    BY <1>8 DEF F!DeleteFleet
  <2>3. fleet' \in F!Fleet /\ fleet'.deleted
    BY <2>1, <2>2 DEF F!Fleet, F!FleetStatus
  <2>4. QED
    BY <1>5, <2>1, <2>2, <2>3 DEF F!Topics
<1>9. ASSUME NEW w \in Workers, F!Announce(w) PROVE FleetInv'
  <2> DEFINE e == [topic |-> fleetTask[w].topic, status |-> fleetTask[w].status]
             n == Len(fleetEvents) + 1
  <2>1. /\ fleetTask[w] # None /\ fleetTask[w] \in F!Task /\ fleetTask[w].at = "tell"
        /\ FleetShape(w) /\ UNCHANGED <<fleet, inactive>> /\ F!Finish(w)
        /\ fleetEvents' = Append(fleetEvents, e)
    BY <1>0, <1>9 DEF F!Announce, F!Running, FleetInv
  <2>2. /\ fleetTask' \in [Workers -> F!Task \cup {None}]
        /\ fleetTask'[w] = None /\ FleetOthers(w)
    BY <1>0, <2>1, FleetEnds
  <2>3. e \in F!Event /\ e.topic = fleetTask[w].topic
        /\ F!Exists /\ (e.topic = "FLEET_DELETED" => fleet.deleted)
    BY <2>1 DEF F!Event, F!Task, FleetShape
  <2> HIDE DEF e
  <2>4. /\ fleetEvents' \in Seq(F!Event) /\ DOMAIN fleetEvents' = DOMAIN fleetEvents \cup {n}
        /\ n \notin DOMAIN fleetEvents /\ fleetEvents'[n] = e
        /\ \A i \in DOMAIN fleetEvents : fleetEvents'[i] = fleetEvents[i]
    BY <1>0, <2>1, <2>3 DEF F!TypeOK
  <2> HIDE DEF n
  <2>5. e.topic = "FLEET_CREATED" => TellsCreated(w)
    BY <2>1, <2>3 DEF TellsCreated, F!Running
  <2>6. \A x \in Workers : TellsCreated(x)' => TellsCreated(x) /\ x # w
    BY <2>2 DEF TellsCreated, F!Running, FleetOthers
  <2>7. \A x \in Workers : FleetShape(x)'
    BY <2>1, <2>2 DEF FleetInv, FleetShape, FleetOthers, F!Exists
  <2>8. \A i \in DOMAIN fleetEvents' :
            fleetEvents'[i].topic = IF i = n THEN e.topic ELSE fleetEvents[i].topic
    BY <2>4
  <2>9. F!FleetIsTold'
    <3>1. F!Exists' /\ (F!Told("FLEET_DELETED")' => fleet'.deleted)
      BY <2>1, <2>3, <2>4, <2>8 DEF FleetInv, F!FleetIsTold, F!Exists, F!Told
    <3>2. ASSUME NEW i \in DOMAIN fleetEvents', NEW j \in DOMAIN fleetEvents',
                 fleetEvents'[i].topic = "FLEET_CREATED", fleetEvents'[j].topic = "FLEET_CREATED"
          PROVE  i = j
      <4>1. CASE i = n /\ j # n
        BY <2>4, <2>5, <2>8, <3>2, <4>1 DEF FleetInv, F!Told
      <4>2. CASE j = n /\ i # n
        BY <2>4, <2>5, <2>8, <3>2, <4>2 DEF FleetInv, F!Told
      <4>3. CASE i # n /\ j # n
        BY <2>4, <2>8, <3>2, <4>3 DEF FleetInv, F!FleetIsTold
      <4>4. QED
        BY <4>1, <4>2, <4>3
    <3>3. QED
      BY <3>1, <3>2 DEF F!FleetIsTold
  <2>10. \A x \in Workers : TellsCreated(x)' =>
            /\ ~F!Told("FLEET_CREATED")'
            /\ \A y \in Workers : TellsCreated(y)' => x = y
    BY <2>4, <2>5, <2>6, <2>8 DEF FleetInv, F!Told
  <2>11. QED
    BY <1>0, <2>1, <2>2, <2>4, <2>7, <2>9, <2>10 DEF FleetInv, F!TypeOK
<1>10. ASSUME NEW w \in Workers, F!Reject(w) PROVE FleetInv'
  BY <1>2, <1>10 DEF F!Reject, F!Abandon
<1>11. CASE UNCHANGED F!vars
  BY <1>11 DEF F!vars, FleetInv, F!TypeOK, FleetShape, F!FleetIsTold, F!Exists, F!Told,
               TellsCreated, F!Running
<1>12. QED
  BY <1>3, <1>4, <1>6, <1>7, <1>8, <1>9, <1>10, <1>11 DEF F!Next, F!Go

\* Calls one at a time: what an update has read, or a count has counted, still holds.
FleetSteady(w) ==
    LET t == fleetTask[w] IN
    t # None =>
        /\ t.at = "update" \/ (t.at = "manager" /\ t.then = "update") =>
              F!Alive /\ t.read = fleet.metadata
        /\ t.at = "count" =>
              /\ t.total # None => t.total = F!One(F!Alive)
              /\ t.active # None =>
                    t.active = IF F!Alive THEN F!One(fleet.status = "ACTIVE") ELSE 0

FleetInTurn ==
    /\ OneBusy(fleetTask)
    /\ \A w \in Workers : FleetSteady(w)
    /\ F!DeletedIsDecommissioned

FleetIdle(w) == \A x \in Workers : x # w => fleetTask[x] = None

LEMMA FleetInTurnInit == F!Init => FleetInTurn
  BY DEF F!Init, F!CallsInit, FleetInTurn, OneBusy, FleetSteady, F!DeletedIsDecommissioned,
         F!Exists

LEMMA FleetInTurnStep ==
    ASSUME FleetInv, FleetInTurn, mode = "alone", FleetStep
    PROVE  FleetInTurn' /\ F!MetadataIsMerged
<1>0. /\ F!TypeOK /\ mode' = mode /\ OneBusy(fleetTask') /\ None \notin Nat /\ None \notin Int
      /\ F!Exists => fleet \in F!Fleet
      /\ \A w \in Workers : fleetTask[w] # None => fleetTask[w] \in F!Task
  BY FleetTypes, PlaceholderAssumption DEF FleetInv, FleetStep
<1>1. ASSUME NEW w \in Workers, FleetOthers(w), fleetTask[w] # None \/ fleetTask'[w] # None
      PROVE  FleetIdle(w)'
  BY <1>0, <1>1 DEF FleetInTurn, OneBusy, FleetIdle, FleetOthers
<1>2. ASSUME NEW w \in Workers, FleetIdle(w)', FleetSteady(w)', F!DeletedIsDecommissioned'
      PROVE  FleetInTurn'
  BY <1>0, <1>2 DEF FleetInTurn, OneBusy, FleetIdle, FleetSteady
\* A step that does not write the row
<1>3. ASSUME NEW w \in Workers, FleetOthers(w), fleetTask[w] # None \/ fleetTask'[w] # None,
             FleetSteady(w)', UNCHANGED fleet,
             UNCHANGED inactive \/ inactive' >= 0
      PROVE  FleetInTurn' /\ F!MetadataIsMerged
  <2>1. F!DeletedIsDecommissioned'
    BY <1>3 DEF FleetInTurn, F!DeletedIsDecommissioned, F!Exists
  <2>2. F!MetadataIsMerged
    BY <1>3 DEF F!MetadataIsMerged, F!Exists
  <2>3. QED
    BY <1>1, <1>2, <1>3, <2>1, <2>2
<1>4. ASSUME NEW w \in Workers, F!Call(w) PROVE FleetInTurn' /\ F!MetadataIsMerged
  <2>1. PICK t \in F!Task :
            /\ fleetTask' = [fleetTask EXCEPT ![w] = t]
            /\ t.total = None /\ t.active = None /\ UNCHANGED <<fleet, fleetEvents, inactive>>
            /\ \/ t.at = "count"
               \/ (t.at = "delete" /\ F!Alive)
               \/ (t.at \in {"manager", "create"} /\ t.then = "create")
               \/ /\ t.at \in {"manager", "update"} /\ t.then = "update"
                  /\ F!Alive /\ t.read = fleet.metadata
    BY <1>4, FleetBegins
  <2>2. fleetTask'[w] = t /\ t # None /\ FleetOthers(w)
    BY <1>0, <2>1, FleetSets
  <2>3. FleetSteady(w)'
    BY <2>1, <2>2 DEF FleetSteady, F!Alive, F!Exists
  <2>4. QED
    BY <1>3, <2>1, <2>2, <2>3
<1>5. ASSUME NEW w \in Workers, F!FindManager(w) \/ F!CountTotal(w) \/ F!CountActive(w)
      PROVE  FleetInTurn' /\ F!MetadataIsMerged
  <2>0. UNCHANGED fleet /\ fleetTask[w] # None /\ fleetTask[w] \in F!Task /\ FleetSteady(w)
    BY <1>0, <1>5, FleetReads DEF FleetInTurn
  <2> DEFINE all == F!One(F!Alive)
             act == IF F!Alive THEN F!One(fleet.status = "ACTIVE") ELSE 0
  <2>1. all \in Nat /\ act \in Nat /\ act <= all
    BY DEF F!One
  <2>2. UNCHANGED fleet => all' = all /\ act' = act
    BY DEF F!One, F!Alive, F!Exists
  <2>3. CASE F!Finish(w)
    <3>1. fleetTask'[w] = None /\ FleetOthers(w)
      BY <1>0, <2>3, FleetEnds
    <3>2. \/ UNCHANGED inactive
          \/ fleetTask[w].at = "count" /\ fleetTask[w].active # None
             /\ inactive' = all - fleetTask[w].active
          \/ fleetTask[w].at = "count" /\ fleetTask[w].total # None
             /\ inactive' = fleetTask[w].total - act
      BY <1>0, <1>5, <2>3, <3>1, FleetReads
    <3>3. UNCHANGED inactive \/ inactive' >= 0
      <4>1. fleetTask[w].at = "count" /\ fleetTask[w].active # None => fleetTask[w].active = act
        BY <2>0 DEF FleetSteady
      <4>2. fleetTask[w].at = "count" /\ fleetTask[w].total # None => fleetTask[w].total = all
        BY <2>0 DEF FleetSteady
      <4> HIDE DEF all, act
      <4>3. QED
        BY <2>1, <3>2, <4>1, <4>2
    <3>4. FleetSteady(w)'
      BY <3>1 DEF FleetSteady
    <3>5. QED
      BY <1>3, <2>0, <3>1, <3>3, <3>4
  <2>4. ASSUME NEW t \in F!Task, fleetTask' = [fleetTask EXCEPT ![w] = t], UNCHANGED inactive,
               \/ /\ fleetTask[w].at = "manager" /\ t.at = fleetTask[w].then
                  /\ t.then = fleetTask[w].then /\ t.read = fleetTask[w].read
               \/ t.at = "count" /\ t.active = None /\ t.total = all
               \/ t.at = "count" /\ t.total = None /\ t.active = act
        PROVE  FleetInTurn' /\ F!MetadataIsMerged
    <3>1. fleetTask'[w] = t /\ t # None /\ FleetOthers(w)
      BY <1>0, <2>4, FleetSets
    <3>2. fleetTask[w].at = "manager" => fleetTask[w].then \in {"create", "update"}
      BY <2>0 DEF FleetInv, FleetShape
    <3>3. FleetSteady(w)'
      <4>1. CASE t.at = "count"
        BY <2>0, <2>2, <2>4, <3>1, <3>2, <4>1 DEF FleetSteady
      <4>2. CASE t.at # "count"
        BY <2>0, <2>4, <3>1, <3>2, <4>2 DEF FleetSteady, F!Alive, F!Exists
      <4>3. QED
        BY <4>1, <4>2
    <3>4. QED
      BY <1>3, <2>0, <2>4, <3>1, <3>3
  <2>5. QED
    BY <1>5, <2>3, <2>4, FleetReads
\* A write of the row
<1>6. ASSUME NEW w \in Workers, fleetTask[w] # None, NEW topic \in F!Topics,
             NEW st \in F!FleetStatus \cup {None}, F!Tell(w, topic, st),
             fleet'.deleted => fleet'.status = "DECOMMISSIONED", UNCHANGED inactive
      PROVE  FleetInTurn'
  <2>1. FleetOthers(w) /\ fleetTask'[w].at = "tell"
    BY <1>6, FleetTells
  <2>2. FleetSteady(w)' /\ F!DeletedIsDecommissioned'
    BY <1>6, <2>1 DEF FleetSteady, FleetInTurn, F!DeletedIsDecommissioned
  <2>3. QED
    BY <1>1, <1>2, <1>6, <2>1, <2>2
<1>7. ASSUME NEW w \in Workers, F!CreateFleet(w) PROVE FleetInTurn' /\ F!MetadataIsMerged
  <2>1. fleetTask[w] # None /\ fleetTask[w] \in F!Task /\ UNCHANGED inactive
    BY <1>0, <1>7 DEF F!CreateFleet, F!Running
  <2>2. CASE F!Exists
    <3>1. fleetTask'[w] = None /\ FleetOthers(w) /\ UNCHANGED fleet
      BY <1>0, <1>7, <2>2, FleetEnds DEF F!CreateFleet
    <3>2. QED
      BY <1>3, <2>1, <3>1 DEF FleetSteady
  <2>3. CASE ~F!Exists
    <3>1. F!Tell(w, "FLEET_CREATED", None) /\ ~fleet'.deleted
      BY <1>7, <2>3 DEF F!CreateFleet
    <3>2. QED
      BY <1>6, <2>1, <2>3, <3>1 DEF F!Topics, F!MetadataIsMerged
  <2>4. QED
    BY <2>2, <2>3
<1>8. ASSUME NEW w \in Workers, F!UpdateFleet(w) PROVE FleetInTurn' /\ F!MetadataIsMerged
  <2>1. fleetTask[w] # None /\ fleetTask[w] \in F!Task /\ UNCHANGED inactive
        /\ F!Alive /\ fleet \in F!Fleet /\ fleetTask[w].read = fleet.metadata
    BY <1>0, <1>8 DEF F!UpdateFleet, F!Running, FleetInTurn, FleetSteady, F!Alive
  <2> DEFINE st == IF fleetTask[w].status = None THEN fleet.status ELSE fleetTask[w].status
  <2>2. fleet' = [fleet EXCEPT !.status = st, !.metadata = F!Merged(w)]
        /\ F!Tell(w, "FLEET_UPDATED", fleet'.status)
    BY <1>8 DEF F!UpdateFleet
  <2>3. /\ st \in F!FleetStatus /\ F!Merged(w) \in SUBSET Keys
        /\ fleet.metadata \subseteq F!Merged(w)
    BY <2>1 DEF F!Merged, F!Task, F!Fleet
  <2> HIDE DEF st
  <2>4. /\ fleet' \in F!Fleet /\ ~fleet'.deleted /\ fleet'.status \in F!FleetStatus
        /\ fleet'.metadata = F!Merged(w)
    BY <2>1, <2>2, <2>3 DEF F!Fleet, F!Alive
  <2>5. fleet' # None
    BY <2>4, PlaceholderAssumption
  <2>6. QED
    BY <1>6, <2>1, <2>2, <2>3, <2>4, <2>5 DEF F!Topics, F!MetadataIsMerged
<1>9. ASSUME NEW w \in Workers, F!DeleteFleet(w) PROVE FleetInTurn' /\ F!MetadataIsMerged
  <2>1. fleetTask[w] # None /\ UNCHANGED inactive /\ fleet \in F!Fleet
    BY <1>0, <1>9 DEF F!DeleteFleet, F!Running, FleetInv, FleetShape
  <2>2. fleet' = [fleet EXCEPT !.deleted = TRUE, !.status = "DECOMMISSIONED"]
        /\ F!Tell(w, "FLEET_DELETED", None)
    BY <1>9 DEF F!DeleteFleet
  <2>3. /\ fleet' \in F!Fleet /\ fleet'.status = "DECOMMISSIONED"
        /\ fleet'.metadata = fleet.metadata
    BY <2>1, <2>2 DEF F!Fleet, F!FleetStatus
  <2>4. fleet' # None
    BY <2>3, PlaceholderAssumption
  <2>5. QED
    BY <1>6, <2>1, <2>2, <2>3, <2>4 DEF F!Topics, F!MetadataIsMerged
<1>10. ASSUME NEW w \in Workers, F!Announce(w) PROVE FleetInTurn' /\ F!MetadataIsMerged
  <2>1. fleetTask[w] # None /\ fleetTask'[w] = None /\ FleetOthers(w)
        /\ UNCHANGED <<fleet, inactive>>
    BY <1>0, <1>10, FleetEnds DEF F!Announce, F!Running
  <2>2. QED
    BY <1>3, <2>1 DEF FleetSteady
<1>11. QED
  BY <1>4, <1>5, <1>7, <1>8, <1>9, <1>10 DEF FleetStep, F!Go, Fails
-----------------------------------------------------------------------------
\* Reports

Made == {"COMPLETED", "DELETED"}
Announced(r) == \E i \in DOMAIN generated : generated[i] = r

\* What a call has done so far to the report it makes; only the call itself completes it.
ReportShape(w) ==
    LET t == reportTask[w] IN
    t # None =>
        /\ t.at \in {"gather", "complete"} => t.row \in Rows /\ report[t.row] \in {"PROCESSING", "DELETED"}
        /\ t.at \in {"cache", "tell", "tellDaily"} => t.row \in Rows /\ report[t.row] \in Made
        /\ t.at = "remove" => t.row \in Rows /\ report[t.row] # "ABSENT"

Makes(w, r) ==
    /\ reportTask[w] # None /\ reportTask[w].row = r
    /\ reportTask[w].at \in {"gather", "complete", "cache", "tell", "tellDaily"}

\* A report is made by one call, and announced by it at its end.
ReportInv ==
    /\ R!TypeOK
    /\ \A w \in Workers : ReportShape(w)
    /\ R!ReportIsFiled
    /\ \A r \in Rows, w \in Workers : Makes(w, r) =>
          /\ ~Announced(r)
          /\ \A x \in Workers : Makes(x, r) => w = x

ReportOthers(w) == \A x \in Workers : x # w => reportTask'[x] = reportTask[x]

LEMMA ReportInvInit == R!Init => ReportInv
  BY DEF R!Init, R!CallsInit, ReportInv, R!TypeOK, R!ReportIsFiled, ReportShape, Makes

LEMMA ReportSets ==
    ASSUME R!TypeOK, NEW w \in Workers, NEW t \in R!Task,
           reportTask' = [reportTask EXCEPT ![w] = t]
    PROVE  /\ reportTask' \in [Workers -> R!Task \cup {None}]
           /\ reportTask'[w] = t /\ t # None /\ ReportOthers(w)
  BY PlaceholderAssumption DEF R!TypeOK, ReportOthers

LEMMA ReportEnds ==
    ASSUME R!TypeOK, NEW w \in Workers, R!Finish(w)
    PROVE  /\ reportTask' \in [Workers -> R!Task \cup {None}]
           /\ reportTask'[w] = None /\ ReportOthers(w)
  BY DEF R!TypeOK, R!Finish, ReportOthers

LEMMA ReportGoesOn ==
    ASSUME R!TypeOK, NEW w \in Workers, reportTask[w] # None,
           NEW at \in {"complete", "cache", "tell"}, R!Continue(w, at)
    PROVE  /\ reportTask' \in [Workers -> R!Task \cup {None}] /\ ReportOthers(w)
           /\ reportTask'[w] # None /\ reportTask'[w].at = at
           /\ reportTask'[w].row = reportTask[w].row
<1> DEFINE t == [reportTask[w] EXCEPT !.at = at]
<1>1. reportTask[w] \in R!Task
  BY DEF R!TypeOK
<1>2. t \in R!Task /\ t.at = at /\ t.row = reportTask[w].row
  BY <1>1 DEF R!Task
<1>3. reportTask' = [reportTask EXCEPT ![w] = t]
  BY DEF R!Continue
<1> HIDE DEF t
<1>4. QED
  BY <1>2, <1>3, ReportSets

\* A step of w: what it may do to the reports, so that those of the others stay theirs
LEMMA ReportMoves ==
    ASSUME ReportInv, NEW w \in Workers, ReportOthers(w), R!TypeOK', ReportShape(w)',
           \A r \in Rows :
               \/ report'[r] = report[r] \/ report[r] = "ABSENT"
               \/ report'[r] = "DELETED"
               \/ Makes(w, r) /\ report[r] # "DELETED" /\ report'[r] = "COMPLETED",
           \A r \in Rows : Makes(w, r)' => Makes(w, r) \/ report[r] = "ABSENT",
           \A r \in cachedData' : r \in cachedData \/ report'[r] \in Made,
           \/ generated' = generated
           \/ \E r \in Rows : /\ generated' = Append(generated, r)
                              /\ Makes(w, r) /\ ~Makes(w, r)' /\ report'[r] \in Made
    PROVE  ReportInv' /\ R!DeletedStays
<1>0. R!TypeOK
  BY DEF ReportInv
<1>1. R!DeletedStays
  BY DEF R!DeletedStays
<1>2. \A x \in Workers, r \in Rows : x # w => (Makes(x, r)' <=> Makes(x, r))
  BY DEF Makes, ReportOthers
<1>3. \A x \in Workers, r \in Rows : Makes(x, r) => report[r] # "ABSENT"
  BY DEF ReportInv, ReportShape, Makes, Made
<1>4. ASSUME NEW x \in Workers PROVE ReportShape(x)'
  <2>1. CASE x = w
    BY <2>1
  <2>2. CASE x # w
    <3>1. reportTask'[x] = reportTask[x] /\ ReportShape(x)
      BY <2>2 DEF ReportOthers, ReportInv
    <3>2. \A r \in Rows : Makes(w, r) => ~Makes(x, r)
      BY <2>2 DEF ReportInv
    <3>3. QED
      BY <3>1, <3>2 DEF ReportShape, Makes, Made
  <2>3. QED
    BY <2>1, <2>2
<1>5. \A r \in Rows : Announced(r) \/ r \in cachedData => report[r] \in Made
  BY DEF ReportInv, R!ReportIsFiled, Announced, Made
<1>6. \A r \in Rows : report[r] \in Made => report'[r] \in Made
  BY DEF Made
<1>7. CASE generated' = generated
  <2>1. \A r : Announced(r)' <=> Announced(r)
    BY <1>7 DEF Announced
  <2>2. R!ReportIsFiled'
    <3>1. \A r \in Rows : Announced(r)' \/ r \in cachedData' => report'[r] \in Made
      BY <1>5, <1>6, <2>1
    <3>2. QED
      BY <1>7, <3>1 DEF ReportInv, R!ReportIsFiled, Announced, Made
  <2>3. ASSUME NEW r \in Rows, NEW x \in Workers, Makes(x, r)'
        PROVE  ~Announced(r)' /\ \A y \in Workers : Makes(y, r)' => x = y
    <3>1. CASE report[r] = "ABSENT"
      BY <1>2, <1>3, <1>5, <2>1, <2>3, <3>1 DEF Made
    <3>2. CASE report[r] # "ABSENT"
      <4>1. \A y \in Workers : Makes(y, r)' => Makes(y, r)
        BY <1>2, <3>2
      <4>2. QED
        BY <2>1, <2>3, <4>1 DEF ReportInv
    <3>3. QED
      BY <3>1, <3>2
  <2>4. QED
    BY <1>1, <1>4, <2>2, <2>3 DEF ReportInv
<1>8. ASSUME NEW a \in Rows, generated' = Append(generated, a), Makes(w, a), ~Makes(w, a)',
             report'[a] \in Made
      PROVE  ReportInv'
  <2> DEFINE n == Len(generated) + 1
  <2>1. /\ DOMAIN generated' = DOMAIN generated \cup {n} /\ n \notin DOMAIN generated
        /\ generated'[n] = a /\ \A i \in DOMAIN generated : generated'[i] = generated[i]
    BY <1>0, <1>8 DEF R!TypeOK
  <2> HIDE DEF n
  <2>2. \A r : Announced(r)' <=> Announced(r) \/ r = a
    BY <2>1 DEF Announced
  <2>3. ~Announced(a)
    BY <1>8 DEF ReportInv
  <2>4. R!ReportIsFiled'
    <3>1. \A r \in Rows : Announced(r)' \/ r \in cachedData' => report'[r] \in Made
      BY <1>5, <1>6, <1>8, <2>2
    <3>2. ASSUME NEW i \in DOMAIN generated', NEW j \in DOMAIN generated',
                 generated'[i] = generated'[j]
          PROVE  i = j
      <4>1. CASE i = n /\ j # n
        BY <2>1, <2>3, <3>2, <4>1 DEF Announced
      <4>2. CASE j = n /\ i # n
        BY <2>1, <2>3, <3>2, <4>2 DEF Announced
      <4>3. CASE i # n /\ j # n
        BY <2>1, <3>2, <4>3 DEF ReportInv, R!ReportIsFiled
      <4>4. QED
        BY <4>1, <4>2, <4>3
    <3>3. QED
      BY <3>1, <3>2 DEF R!ReportIsFiled, Announced, Made
  <2>5. ASSUME NEW r \in Rows, NEW x \in Workers, Makes(x, r)'
        PROVE  ~Announced(r)' /\ \A y \in Workers : Makes(y, r)' => x = y
    <3>1. r # a
      <4>1. \A y \in Workers : Makes(y, a) => y = w
        BY <1>8 DEF ReportInv
      <4>2. QED
        BY <1>2, <1>8, <2>5, <4>1
    <3>2. CASE report[r] = "ABSENT"
      BY <1>2, <1>3, <1>5, <2>2, <2>5, <3>1, <3>2 DEF Made
    <3>3. CASE report[r] # "ABSENT"
      <4>1. \A y \in Workers : Makes(y, r)' => Makes(y, r)
        BY <1>2, <3>3
      <4>2. QED
        BY <2>2, <2>5, <3>1, <4>1 DEF ReportInv
    <3>4. QED
      BY <3>2, <3>3
  <2>6. QED
    BY <1>4, <2>4, <2>5 DEF ReportInv
<1>9. QED
  BY <1>1, <1>7, <1>8

LEMMA ReportInvStep ==
    ASSUME ReportInv, [R!Next]_(R!vars)
    PROVE  ReportInv' /\ R!DeletedStays
<1>0. /\ R!TypeOK /\ None \notin Rows
      /\ \A w \in Workers : reportTask[w] # None => reportTask[w] \in R!Task /\ ReportShape(w)
  BY OfficeAssumption DEF R!ReportsAssumption, ReportInv, R!TypeOK
\* A step that writes no report and tells nothing
<1>1. ASSUME NEW w \in Workers, UNCHANGED <<report, cachedData, schedules, generated>>,
             reportTask' \in [Workers -> R!Task \cup {None}], ReportOthers(w),
             reportTask'[w] # None =>
                 \/ /\ reportTask'[w].at = "remove"
                    /\ reportTask'[w].row \in Rows /\ report[reportTask'[w].row] # "ABSENT"
                 \/ reportTask'[w].at = "file"
                 \/ /\ reportTask[w] # None /\ reportTask'[w].row = reportTask[w].row
                    /\ reportTask[w].at = "gather" /\ reportTask'[w].at = "complete"
      PROVE  ReportInv' /\ R!DeletedStays
  <2>1. ReportShape(w)'
    BY <1>0, <1>1 DEF ReportShape
  <2>2. \A r \in Rows : Makes(w, r)' => Makes(w, r)
    BY <1>1 DEF Makes
  <2>3. R!TypeOK'
    BY <1>0, <1>1 DEF R!TypeOK
  <2>4. QED
    BY <1>1, <2>1, <2>2, <2>3, ReportMoves
<1>2. ASSUME NEW w \in Workers, UNCHANGED <<report, cachedData, schedules, generated>>,
             R!Finish(w)
      PROVE  ReportInv' /\ R!DeletedStays
  BY <1>0, <1>1, <1>2, ReportEnds
\* What the daily job goes on with
<1>3. ASSUME NEW w \in Workers, NEW T \in SUBSET Schedules, R!GoOn(w, T)
      PROVE  /\ reportTask' \in [Workers -> R!Task \cup {None}] /\ ReportOthers(w)
             /\ reportTask'[w] # None => reportTask'[w].at = "file"
  <2> DEFINE t == R!NewTask("file", None, T)
  <2>1. t \in R!Task /\ t.at = "file"
    BY DEF R!NewTask, R!Task
  <2>2. R!Finish(w) \/ reportTask' = [reportTask EXCEPT ![w] = t]
    BY <1>3 DEF R!GoOn
  <2> HIDE DEF t
  <2>3. QED
    BY <1>0, <2>1, <2>2, ReportSets, ReportEnds
<1>4. ASSUME NEW w \in Workers, NEW r \in Rows, R!CreateReport(w, r)
      PROVE  ReportInv' /\ R!DeletedStays
  <2> DEFINE t == R!NewTask("gather", r, {})
  <2>1. t \in R!Task /\ t.at = "gather" /\ t.row = r
    BY DEF R!NewTask, R!Task
  <2>2. /\ report[r] = "ABSENT" /\ report' = [report EXCEPT ![r] = "PROCESSING"]
        /\ reportTask' = [reportTask EXCEPT ![w] = t]
        /\ UNCHANGED <<cachedData, schedules, generated>>
    BY <1>4 DEF R!CreateReport, R!SetReport, R!Begin
  <2> HIDE DEF t
  <2>3. /\ reportTask' \in [Workers -> R!Task \cup {None}]
        /\ reportTask'[w] = t /\ t # None /\ ReportOthers(w)
    BY <1>0, <2>1, <2>2, ReportSets
  <2>4. R!TypeOK' /\ report'[r] = "PROCESSING" /\ \A s \in Rows : s # r => report'[s] = report[s]
    BY <1>0, <2>2, <2>3 DEF R!TypeOK, R!ReportStatus
  <2>5. ReportShape(w)' /\ \A s \in Rows : Makes(w, s)' => s = r
    BY <2>1, <2>3, <2>4 DEF ReportShape, Makes
  <2>6. QED
    BY <2>2, <2>3, <2>4, <2>5, ReportMoves
<1>5. ASSUME NEW w \in Workers, R!GatherData(w) PROVE ReportInv' /\ R!DeletedStays
  <2>1. reportTask[w] # None /\ reportTask[w].at = "gather" /\ R!Continue(w, "complete")
        /\ UNCHANGED <<report, cachedData, schedules, generated>>
    BY <1>5 DEF R!GatherData, R!Running
  <2>2. QED
    BY <1>0, <1>1, <2>1, ReportGoesOn
<1>6. ASSUME NEW w \in Workers, R!CompleteReport(w) PROVE ReportInv' /\ R!DeletedStays
  <2> DEFINE r == R!Row(w)
  <2>1. /\ reportTask[w] # None /\ reportTask[w].at = "complete" /\ r = reportTask[w].row
        /\ r \in Rows /\ report[r] \in {"PROCESSING", "DELETED"}
        /\ UNCHANGED <<cachedData, schedules, generated>>
    BY <1>0, <1>6 DEF R!CompleteReport, R!Running, ReportShape, R!Row
  <2>2. CASE R!Finish(w) /\ UNCHANGED report
    BY <1>2, <2>1, <2>2
  <2>3. CASE R!Exists(r) /\ R!SetReport(r, "COMPLETED") /\ R!Continue(w, "cache")
    <3> HIDE DEF r
    <3>1. /\ reportTask' \in [Workers -> R!Task \cup {None}] /\ ReportOthers(w)
          /\ reportTask'[w] # None /\ reportTask'[w].at = "cache" /\ reportTask'[w].row = r
      BY <1>0, <2>1, <2>3, ReportGoesOn
    <3>2. R!TypeOK' /\ report'[r] = "COMPLETED" /\ \A s \in Rows : s # r => report'[s] = report[s]
      BY <1>0, <2>1, <2>3, <3>1 DEF R!TypeOK, R!SetReport, R!ReportStatus
    <3>3. /\ ReportShape(w)' /\ Makes(w, r) /\ report[r] # "DELETED"
          /\ \A s \in Rows : Makes(w, s)' => Makes(w, s)
      BY <2>1, <2>3, <3>1, <3>2 DEF ReportShape, Makes, Made, R!Exists
    <3>4. QED
      BY <2>1, <3>1, <3>2, <3>3, ReportMoves
  <2>4. QED
    BY <1>6, <2>2, <2>3 DEF R!CompleteReport, R!Completes
<1>7. ASSUME NEW w \in Workers, R!CacheData(w) PROVE ReportInv' /\ R!DeletedStays
  <2>1. /\ reportTask[w] # None /\ reportTask[w].at = "cache" /\ reportTask[w].row \in Rows
        /\ report[reportTask[w].row] \in Made /\ R!Continue(w, "tell")
        /\ cachedData' = cachedData \cup {reportTask[w].row}
        /\ UNCHANGED <<report, schedules, generated>>
    BY <1>0, <1>7 DEF R!CacheData, R!Running, ReportShape, R!Row
  <2>2. /\ reportTask' \in [Workers -> R!Task \cup {None}] /\ ReportOthers(w)
        /\ reportTask'[w] # None /\ reportTask'[w].at = "tell"
        /\ reportTask'[w].row = reportTask[w].row
    BY <1>0, <2>1, ReportGoesOn
  <2>3. R!TypeOK'
    BY <1>0, <2>1, <2>2 DEF R!TypeOK
  <2>4. ReportShape(w)' /\ \A s \in Rows : Makes(w, s)' => Makes(w, s)
    BY <2>1, <2>2 DEF ReportShape, Makes
  <2>5. QED
    BY <2>1, <2>2, <2>3, <2>4, ReportMoves
\* An announcement, at the end of what makes the report
<1>8. ASSUME NEW w \in Workers, reportTask[w] # None, reportTask[w].at \in {"tell", "tellDaily"},
             generated' = Append(generated, R!Row(w)), UNCHANGED <<report, cachedData, schedules>>,
             reportTask' \in [Workers -> R!Task \cup {None}], ReportOthers(w),
             reportTask'[w] # None => reportTask'[w].at = "file"
      PROVE  ReportInv' /\ R!DeletedStays
  <2> DEFINE r == reportTask[w].row
  <2>1. r \in Rows /\ report[r] \in Made /\ Makes(w, r) /\ generated' = Append(generated, r)
    BY <1>0, <1>8 DEF ReportShape, Makes, R!Row
  <2> HIDE DEF r
  <2>2. R!TypeOK'
    BY <1>0, <1>8, <2>1 DEF R!TypeOK
  <2>3. ReportShape(w)' /\ \A s \in Rows : ~Makes(w, s)'
    BY <1>8 DEF ReportShape, Makes
  <2>4. QED
    BY <1>8, <2>1, <2>2, <2>3, ReportMoves
<1>9. ASSUME NEW w \in Workers, R!AnnounceReport(w) PROVE ReportInv' /\ R!DeletedStays
  <2>1. /\ reportTask[w] # None /\ reportTask[w].at = "tell" /\ R!Finish(w)
        /\ generated' = Append(generated, R!Row(w)) /\ UNCHANGED <<report, cachedData, schedules>>
    BY <1>9 DEF R!AnnounceReport, R!Running
  <2>2. QED
    BY <1>0, <1>8, <2>1, ReportEnds
<1>10. ASSUME NEW w \in Workers, NEW r \in Rows, R!StartDelete(w, r)
       PROVE  ReportInv' /\ R!DeletedStays
  <2> DEFINE t == R!NewTask("remove", r, {})
  <2>1. t \in R!Task /\ t.at = "remove" /\ t.row = r
    BY DEF R!NewTask, R!Task
  <2>2. /\ report[r] # "ABSENT" /\ reportTask' = [reportTask EXCEPT ![w] = t]
        /\ UNCHANGED <<report, cachedData, schedules, generated>>
    BY <1>10 DEF R!StartDelete, R!Exists, R!Begin
  <2> HIDE DEF t
  <2>3. QED
    BY <1>0, <1>1, <2>1, <2>2, ReportSets
<1>11. ASSUME NEW w \in Workers, R!DeleteReport(w) PROVE ReportInv' /\ R!DeletedStays
  <2> DEFINE r == R!Row(w)
  <2>1. /\ r \in Rows /\ R!Finish(w) /\ UNCHANGED <<cachedData, schedules, generated>>
        /\ report' = [report EXCEPT ![r] = "DELETED"]
    BY <1>0, <1>11 DEF R!DeleteReport, R!Running, R!SetReport, ReportShape, R!Row
  <2> HIDE DEF r
  <2>2. /\ reportTask' \in [Workers -> R!Task \cup {None}]
        /\ reportTask'[w] = None /\ ReportOthers(w)
    BY <1>0, <2>1, ReportEnds
  <2>3. R!TypeOK' /\ \A s \in Rows : report'[s] = report[s] \/ report'[s] = "DELETED"
    BY <1>0, <2>1, <2>2 DEF R!TypeOK
  <2>4. ReportShape(w)' /\ \A s \in Rows : ~Makes(w, s)'
    BY <2>2 DEF ReportShape, Makes
  <2>5. QED
    BY <2>1, <2>2, <2>3, <2>4, ReportMoves
<1>12. ASSUME NEW s \in Schedules, R!ScheduleReport(s) PROVE ReportInv' /\ R!DeletedStays
  BY <1>0, <1>12
     DEF R!ScheduleReport, ReportInv, R!TypeOK, ReportShape, R!ReportIsFiled, Makes, Announced,
         R!DeletedStays
<1>13. ASSUME NEW w \in Workers, R!StartDaily(w) PROVE ReportInv' /\ R!DeletedStays
  <2> DEFINE t == R!NewTask("file", None, schedules)
  <2>1. t \in R!Task /\ t.at = "file"
    BY <1>0 DEF R!NewTask, R!Task, R!TypeOK
  <2>2. /\ reportTask' = [reportTask EXCEPT ![w] = t]
        /\ UNCHANGED <<report, cachedData, schedules, generated>>
    BY <1>13 DEF R!StartDaily, R!Begin
  <2> HIDE DEF t
  <2>3. QED
    BY <1>0, <1>1, <2>1, <2>2, ReportSets
<1>14. ASSUME NEW w \in Workers, NEW s \in Schedules, NEW r \in Rows, R!FileReport(w, s, r)
       PROVE  ReportInv' /\ R!DeletedStays
  <2> DEFINE t == R!NewTask("tellDaily", r, reportTask[w].todo \ {s})
  <2>1. /\ report[r] = "ABSENT" /\ report' = [report EXCEPT ![r] = "COMPLETED"]
        /\ reportTask' = [reportTask EXCEPT ![w] = t]
        /\ UNCHANGED <<cachedData, schedules, generated>>
    BY <1>14 DEF R!FileReport, R!SetReport
  <2>2. reportTask[w].todo \in SUBSET Schedules
    BY <1>0, <1>14 DEF R!FileReport, R!Running, R!Task
  <2>3. t \in R!Task /\ t.at = "tellDaily" /\ t.row = r
    BY <2>2 DEF R!NewTask, R!Task
  <2> HIDE DEF t
  <2>4. /\ reportTask' \in [Workers -> R!Task \cup {None}]
        /\ reportTask'[w] = t /\ t # None /\ ReportOthers(w)
    BY <1>0, <2>1, <2>3, ReportSets
  <2>5. R!TypeOK' /\ report'[r] = "COMPLETED" /\ \A q \in Rows : q # r => report'[q] = report[q]
    BY <1>0, <2>1, <2>4 DEF R!TypeOK, R!ReportStatus
  <2>6. ReportShape(w)' /\ \A q \in Rows : Makes(w, q)' => q = r
    BY <2>3, <2>4, <2>5 DEF ReportShape, Makes, Made
  <2>7. QED
    BY <2>1, <2>4, <2>5, <2>6, ReportMoves
<1>15. ASSUME NEW w \in Workers, R!AnnounceDaily(w) PROVE ReportInv' /\ R!DeletedStays
  <2>1. /\ reportTask[w] # None /\ reportTask[w].at = "tellDaily" /\ R!GoOn(w, reportTask[w].todo)
        /\ generated' = Append(generated, R!Row(w)) /\ UNCHANGED <<report, cachedData, schedules>>
    BY <1>15 DEF R!AnnounceDaily, R!Running
  <2>2. reportTask[w].todo \in SUBSET Schedules
    BY <1>0, <2>1 DEF R!Task
  <2>3. QED
    BY <1>3, <1>8, <2>1, <2>2
<1>16. ASSUME NEW w \in Workers, R!SkipSchedule(w) PROVE ReportInv' /\ R!DeletedStays
  <2>1. UNCHANGED <<report, cachedData, schedules, generated>> /\ reportTask[w] # None
    BY <1>16 DEF R!SkipSchedule, R!Running
  <2>2. reportTask[w].todo \in SUBSET Schedules
    BY <1>0, <2>1 DEF R!Task
  <2>3. \E T \in SUBSET Schedules : R!GoOn(w, T)
    BY <1>16, <2>2 DEF R!SkipSchedule
  <2>4. QED
    BY <1>1, <1>3, <2>1, <2>3
<1>17. ASSUME NEW w \in Workers, R!Reject(w) PROVE ReportInv' /\ R!DeletedStays
  BY <1>2, <1>17 DEF R!Reject, R!Abandon
<1>18. CASE UNCHANGED R!vars
  BY <1>18 DEF R!vars, ReportInv, R!TypeOK, ReportShape, R!ReportIsFiled, Makes, Announced,
               R!DeletedStays
<1>19. QED
  BY <1>4, <1>5, <1>6, <1>7, <1>9, <1>10, <1>11, <1>12, <1>13, <1>14, <1>15, <1>16, <1>17,
     <1>18 DEF R!Next, R!Call, R!Daily

\* Where nothing fails: a report PROCESSING has a call that completes it.
Making(w, r) == Makes(w, r) /\ reportTask[w].at \in {"gather", "complete"}

ReportDone ==
    \A r \in Rows : report[r] = "PROCESSING" => \E w \in Workers : Making(w, r)

LEMMA ReportDoneInit == R!Init => ReportDone
  BY DEF R!Init, ReportDone

LEMMA ReportsDone == ReportDone => R!ReportsAreDone
  BY DEF ReportDone, R!ReportsAreDone, R!Quiet, Making, Makes

LEMMA ReportDoneStep ==
    ASSUME ReportInv, ReportDone, mode # "any", ReportStep
    PROVE  ReportDone'
<1>0. /\ R!TypeOK
      /\ \A w \in Workers : reportTask[w] # None => reportTask[w] \in R!Task /\ ReportShape(w)
  BY DEF ReportInv, R!TypeOK
\* A step of w, which leaves what the others make to them
<1>1. ASSUME NEW w \in Workers, ReportOthers(w),
             \A r \in Rows : report'[r] = "PROCESSING" =>
                Making(w, r)' \/ (report[r] = "PROCESSING" /\ ~Making(w, r))
      PROVE  ReportDone'
  <2> SUFFICES ASSUME NEW r \in Rows, report'[r] = "PROCESSING", ~Making(w, r)'
               PROVE  \E x \in Workers : Making(x, r)'
    BY DEF ReportDone
  <2>1. report[r] = "PROCESSING" /\ ~Making(w, r)
    BY <1>1
  <2>2. PICK x \in Workers : Making(x, r)
    BY <2>1 DEF ReportDone
  <2>3. reportTask'[x] = reportTask[x]
    BY <1>1, <2>1, <2>2 DEF ReportOthers
  <2>4. QED
    BY <2>2, <2>3 DEF Making, Makes
\* A step of one who makes nothing, or nothing that is not made
<1>2. ASSUME NEW w \in Workers, NEW t \in R!Task \cup {None},
             reportTask' = [reportTask EXCEPT ![w] = t],
             reportTask[w] = None \/ reportTask[w].at \notin {"gather", "complete"},
             \A r \in Rows : report'[r] = "PROCESSING" =>
                Making(w, r)' \/ report[r] = "PROCESSING"
      PROVE  ReportDone'
  <2>1. ReportOthers(w)
    BY <1>0, <1>2 DEF ReportOthers, R!TypeOK
  <2>2. \A r \in Rows : ~Making(w, r)
    BY <1>2 DEF Making, Makes
  <2>3. QED
    BY <1>1, <1>2, <2>1, <2>2
<1>3. ASSUME NEW w \in Workers, NEW r \in Rows, R!CreateReport(w, r) PROVE ReportDone'
  <2> DEFINE t == R!NewTask("gather", r, {})
  <2>1. t \in R!Task /\ t.at = "gather" /\ t.row = r
    BY DEF R!NewTask, R!Task
  <2>2. /\ report' = [report EXCEPT ![r] = "PROCESSING"] /\ reportTask[w] = None
        /\ reportTask' = [reportTask EXCEPT ![w] = t]
    BY <1>3 DEF R!CreateReport, R!SetReport, R!Begin
  <2> HIDE DEF t
  <2>3. Making(w, r)'
    BY <1>0, <2>1, <2>2, ReportSets DEF Making, Makes
  <2>4. \A s \in Rows : s # r => report'[s] = report[s]
    BY <1>0, <2>2 DEF R!TypeOK
  <2>5. QED
    BY <1>2, <2>1, <2>2, <2>3, <2>4
<1>4. ASSUME NEW w \in Workers, R!GatherData(w) PROVE ReportDone'
  <2>1. reportTask[w] # None /\ reportTask[w].at = "gather" /\ R!Continue(w, "complete")
        /\ UNCHANGED report
    BY <1>4 DEF R!GatherData, R!Running
  <2>2. /\ ReportOthers(w) /\ reportTask'[w] # None /\ reportTask'[w].at = "complete"
        /\ reportTask'[w].row = reportTask[w].row
    BY <1>0, <2>1, ReportGoesOn
  <2>3. \A r \in Rows : Making(w, r) => Making(w, r)'
    BY <2>1, <2>2 DEF Making, Makes
  <2>4. QED
    BY <1>1, <2>1, <2>2, <2>3
<1>5. ASSUME NEW w \in Workers, R!CompleteReport(w) PROVE ReportDone'
  <2> DEFINE r == R!Row(w)
  <2>1. /\ reportTask[w] # None /\ reportTask[w].at = "complete" /\ r = reportTask[w].row
        /\ r \in Rows /\ report[r] \in {"PROCESSING", "DELETED"}
    BY <1>0, <1>5 DEF R!CompleteReport, R!Running, ReportShape, R!Row
  <2>2. \/ R!Exists(r) /\ R!SetReport(r, "COMPLETED") /\ R!Continue(w, "cache")
        \/ ~R!Exists(r) /\ R!Finish(w) /\ UNCHANGED report
    BY <1>5 DEF R!CompleteReport, R!Completes
  <2> HIDE DEF r
  <2>3. ReportOthers(w)
    BY <1>0, <2>1, <2>2, ReportGoesOn, ReportEnds
  <2>4. report'[r] # "PROCESSING" /\ \A s \in Rows : s # r => report'[s] = report[s]
    BY <1>0, <2>1, <2>2 DEF R!Exists, R!SetReport, R!TypeOK
  <2>5. \A s \in Rows : Making(w, s) => s = r
    BY <2>1 DEF Making, Makes
  <2>6. QED
    BY <1>1, <2>3, <2>4, <2>5
<1>6. ASSUME NEW w \in Workers,
             R!CacheData(w) \/ R!AnnounceReport(w) \/ R!AnnounceDaily(w) \/ R!StartDaily(w)
      PROVE  ReportDone'
  <2>1. UNCHANGED report /\ (reportTask[w] = None \/ reportTask[w].at \notin {"gather", "complete"})
    BY <1>6 DEF R!CacheData, R!AnnounceReport, R!AnnounceDaily, R!StartDaily, R!Running, R!Begin
  <2>2. reportTask \in [Workers -> R!Task \cup {None}]
        /\ \A x \in Workers : x # w => reportTask'[x] = reportTask[x]
    BY <1>0, <1>6 DEF R!CacheData, R!AnnounceReport, R!AnnounceDaily, R!StartDaily, R!Begin,
       R!Continue, R!Finish, R!GoOn, R!TypeOK
  <2>3. \A r \in Rows : ~Making(w, r)
    BY <2>1 DEF Making, Makes
  <2>4. QED
    BY <1>1, <2>1, <2>2, <2>3 DEF ReportOthers
<1>7. ASSUME NEW w \in Workers, NEW r \in Rows, R!StartDelete(w, r) PROVE ReportDone'
  <2> DEFINE t == R!NewTask("remove", r, {})
  <2>1. t \in R!Task
    BY DEF R!NewTask, R!Task
  <2>2. UNCHANGED report /\ reportTask[w] = None /\ reportTask' = [reportTask EXCEPT ![w] = t]
    BY <1>7 DEF R!StartDelete, R!Begin
  <2> HIDE DEF t
  <2>3. QED
    BY <1>2, <2>1, <2>2
<1>8. ASSUME NEW w \in Workers, R!DeleteReport(w) PROVE ReportDone'
  <2>1. /\ reportTask[w] # None /\ reportTask[w].at = "remove"
        /\ report' = [report EXCEPT ![R!Row(w)] = "DELETED"]
        /\ reportTask' = [reportTask EXCEPT ![w] = None]
    BY <1>8 DEF R!DeleteReport, R!Running, R!SetReport, R!Finish
  <2>2. \A r \in Rows : report'[r] = "PROCESSING" => report[r] = "PROCESSING"
    BY <1>0, <2>1 DEF R!TypeOK
  <2>3. QED
    BY <1>2, <2>1, <2>2
<1>9. ASSUME NEW s \in Schedules, R!ScheduleReport(s) PROVE ReportDone'
  BY <1>9 DEF R!ScheduleReport, ReportDone, Making, Makes
<1>10. ASSUME NEW w \in Workers, NEW s \in Schedules, NEW r \in Rows, R!FileReport(w, s, r)
       PROVE  ReportDone'
  <2> DEFINE t == R!NewTask("tellDaily", r, reportTask[w].todo \ {s})
  <2>1. /\ reportTask[w] # None /\ reportTask[w].at = "file"
        /\ report' = [report EXCEPT ![r] = "COMPLETED"]
        /\ reportTask' = [reportTask EXCEPT ![w] = t]
    BY <1>10 DEF R!FileReport, R!Running, R!SetReport
  <2>2. reportTask[w].todo \in SUBSET Schedules
    BY <1>0, <2>1 DEF R!Task
  <2>3. t \in R!Task
    BY <2>2 DEF R!NewTask, R!Task
  <2>4. \A q \in Rows : report'[q] = "PROCESSING" => report[q] = "PROCESSING"
    BY <1>0, <2>1 DEF R!TypeOK
  <2> HIDE DEF t
  <2>5. QED
    BY <1>2, <2>1, <2>3, <2>4
<1>11. QED
  BY <1>3, <1>4, <1>5, <1>6, <1>7, <1>8, <1>9, <1>10
     DEF ReportStep, Fails, R!Call, R!Daily
-----------------------------------------------------------------------------
\* The audit trail

One(b) == IF b THEN 1 ELSE 0

\* The deliveries of message i so far, and the workers that have still to make its row
Deliveries(i) == One(i \in taken) + One(i \in again)
Loggers(i) == {w \in Workers : A!Running(w, "log") /\ auditTask[w].msg = i}

ToLog(i) == \E w \in Workers : A!Running(w, "log") /\ auditTask[w].msg = i

AuditShape(w) ==
    auditTask[w] # None =>
        /\ auditTask[w].msg \in DOMAIN generated
        /\ auditTask[w].at = "detail" => auditTask[w].row \in DOMAIN logs

\* Each delivery of a message makes one row of it at most.
AuditCounts ==
    \A i \in Nat : Cardinality(Places(logs, i)) + Cardinality(Loggers(i)) <= Deliveries(i)

AuditInv ==
    /\ A!TypeOK
    /\ \A w \in Workers : AuditShape(w)
    /\ \A r \in DOMAIN logs : logs[r] \in DOMAIN generated
    /\ AuditCounts

\* Where nothing fails: what is not on record is being recorded.
AuditDone ==
    /\ \A i \in taken : (\E r \in DOMAIN logs : logs[r] = i) \/ ToLog(i)
    /\ \A r \in DOMAIN logs :
          r \in details
            \/ \E w \in Workers : A!Running(w, "detail") /\ auditTask[w].row = r

AuditOthers(w) == \A x \in Workers : x # w => auditTask'[x] = auditTask[x]

LEMMA AuditInvInit == generated = <<>> /\ A!Init => AuditInv /\ AuditDone
<1> SUFFICES ASSUME generated = <<>>, A!Init PROVE AuditInv /\ AuditDone
  OBVIOUS
<1>1. /\ taken = {} /\ again = {} /\ logs = <<>> /\ details = {}
      /\ auditTask = [w \in Workers |-> None]
  BY DEF A!Init, A!DeliveryInit
<1>2. \A i \in Nat : Places(logs, i) = {} /\ Loggers(i) = {} /\ Deliveries(i) = 0
  BY <1>1 DEF Places, Loggers, A!Running, Deliveries, One
<1>3. AuditCounts
  <2>1. \A i \in Nat : Cardinality(Places(logs, i)) = 0 /\ Cardinality(Loggers(i)) = 0
    BY <1>2, FS_EmptySet
  <2>2. QED
    BY <1>2, <2>1 DEF AuditCounts
<1>4. A!TypeOK /\ \A w \in Workers : AuditShape(w)
  BY <1>1 DEF A!TypeOK, AuditShape
<1>5. QED
  BY <1>1, <1>3, <1>4 DEF AuditInv, AuditDone

LEMMA AuditSets ==
    ASSUME A!TypeOK, NEW w \in Workers, NEW t \in A!Task \cup {None},
           auditTask' = [auditTask EXCEPT ![w] = t]
    PROVE  /\ auditTask' \in [Workers -> A!Task \cup {None}]
           /\ auditTask'[w] = t /\ AuditOthers(w)
           /\ auditTask[w] # None => auditTask[w] \in A!Task
           /\ None \notin A!Task /\ generated \in Seq(Rows) => DOMAIN generated \subseteq Nat
  BY PlaceholderAssumption DEF A!TypeOK, AuditOthers

\* By a step of w alone, only w may come or go.
LEMMA LoggersStay ==
    ASSUME NEW w \in Workers, AuditOthers(w), NEW i
    PROVE  \E n \in Nat :
              /\ Cardinality(Loggers(i)) = IF w \in Loggers(i) THEN n + 1 ELSE n
              /\ Cardinality(Loggers(i)') = IF w \in Loggers(i)' THEN n + 1 ELSE n
<1>1. Loggers(i) \in SUBSET Workers /\ Loggers(i)' \in SUBSET Workers
  BY DEF Loggers
<1>2. Loggers(i) \ {w} = Loggers(i)' \ {w}
  BY DEF Loggers, A!Running, AuditOthers
<1> DEFINE U == Loggers(i)
           V == Loggers(i)'
<1>3. /\ IsFiniteSet(U) /\ IsFiniteSet(V)
  BY <1>1, FewWorkers, FS_Subset
<1> HIDE DEF U, V
<1>4. /\ Cardinality(U) \in Nat /\ Cardinality(V) \in Nat /\ Cardinality(U \ {w}) \in Nat
      /\ Cardinality(U \ {w}) = IF w \in U THEN Cardinality(U) - 1 ELSE Cardinality(U)
      /\ Cardinality(V \ {w}) = IF w \in V THEN Cardinality(V) - 1 ELSE Cardinality(V)
  BY <1>3, FS_CardinalityType, FS_RemoveElement
<1>5. U \ {w} = V \ {w}
  BY <1>2 DEF U, V
<1>6. \E n \in Nat : /\ Cardinality(U) = IF w \in U THEN n + 1 ELSE n
                     /\ Cardinality(V) = IF w \in V THEN n + 1 ELSE n
  BY <1>4, <1>5
<1>7. QED
  BY <1>6 DEF U, V

\* The reports may grow meanwhile.
LEMMA AuditSees ==
    ASSUME AuditInv, UNCHANGED auditVars, DOMAIN generated \subseteq DOMAIN generated'
    PROVE  AuditInv'
  BY DEF auditVars, AuditInv, AuditCounts, A!TypeOK, AuditShape, Deliveries, Loggers, A!Running

LEMMA AuditDoneSees == AuditDone /\ UNCHANGED auditVars => AuditDone'
  BY DEF auditVars, AuditDone, ToLog, A!Running

LEMMA AuditInvStep ==
    ASSUME AuditInv, generated \in Seq(Rows), AuditStep
    PROVE  AuditInv'
<1> USE DEF One
<1>0. /\ A!TypeOK /\ UNCHANGED generated /\ None \notin A!Task
      /\ DOMAIN generated \subseteq Nat /\ taken \subseteq DOMAIN generated
      /\ \A w \in Workers : AuditShape(w)
      /\ \A w \in Workers : auditTask[w] # None => auditTask[w] \in A!Task
      /\ logs \in Seq(Nat)
  BY PlaceholderAssumption DEF AuditStep, reportVars, AuditInv, A!TypeOK
<1>1. /\ \A i \in Nat : Cardinality(Places(logs, i)) \in Nat
      /\ \A i \in Nat : Cardinality(Loggers(i)) \in Nat
  <2>1. \A i \in Nat : Loggers(i) \subseteq Workers
    BY DEF Loggers
  <2>2. QED
    BY <1>0, <2>1, PlacesCount, FewWorkers, FS_Subset, FS_CardinalityType
\* A worker that ends
<1>2. ASSUME NEW w \in Workers, auditTask[w] # None, A!Finish(w),
             UNCHANGED <<taken, again, logs>>, details' \subseteq DOMAIN logs
      PROVE  AuditInv'
  <2>1. /\ auditTask' \in [Workers -> A!Task \cup {None}]
        /\ auditTask'[w] = None /\ AuditOthers(w)
    BY <1>0, <1>2, AuditSets DEF A!Finish
  <2>2. A!TypeOK'
    BY <1>0, <1>2, <2>1 DEF A!TypeOK
  <2>3. \A x \in Workers : AuditShape(x)'
    BY <1>0, <1>2, <2>1 DEF AuditShape, AuditOthers
  <2>4. ASSUME NEW i \in Nat
        PROVE  Cardinality(Places(logs', i)) + Cardinality(Loggers(i)') <= Deliveries(i)'
    <3>1. w \notin Loggers(i)'
      BY <2>1 DEF Loggers, A!Running
    <3>2. Cardinality(Loggers(i)') <= Cardinality(Loggers(i)) /\ Cardinality(Loggers(i)') \in Nat
      BY <2>1, <3>1, LoggersStay
    <3>3. Deliveries(i)' = Deliveries(i) /\ Deliveries(i) \in Nat /\ logs' = logs
      BY <1>2 DEF Deliveries
    <3>4. Cardinality(Places(logs, i)) + Cardinality(Loggers(i)) <= Deliveries(i)
      BY DEF AuditInv, AuditCounts
    <3>5. QED
      BY <1>1, <3>2, <3>3, <3>4
  <2>5. AuditCounts'
    BY <2>4 DEF AuditCounts, Places
  <2>6. QED
    BY <1>0, <1>2, <2>2, <2>3, <2>5 DEF AuditInv
<1>3. ASSUME NEW w \in Workers, NEW i \in DOMAIN generated, A!Receive(w, i) PROVE AuditInv'
  <2> DEFINE t == [at |-> "log", msg |-> i, row |-> 0]
  <2>1. t \in A!Task /\ t.at = "log" /\ t.msg = i
    BY <1>0 DEF A!Task
  <2>2. /\ auditTask[w] = None /\ i \notin taken /\ taken' = taken \cup {i}
        /\ auditTask' = [auditTask EXCEPT ![w] = t] /\ UNCHANGED <<again, logs, details>>
    BY <1>3 DEF A!Receive, A!Deliver
  <2> HIDE DEF t
  <2>3. /\ auditTask' \in [Workers -> A!Task \cup {None}]
        /\ auditTask'[w] = t /\ t # None /\ AuditOthers(w)
    BY <1>0, <2>1, <2>2, AuditSets
  <2>4. A!TypeOK'
    BY <1>0, <2>2, <2>3 DEF A!TypeOK
  <2>5. \A x \in Workers : AuditShape(x)'
    BY <1>0, <2>1, <2>2, <2>3 DEF AuditShape, AuditOthers
  <2>6. ASSUME NEW j \in Nat
        PROVE  Cardinality(Places(logs, j)) + Cardinality(Loggers(j)') <= Deliveries(j)'
    <3>1. w \notin Loggers(j) /\ (w \in Loggers(j)' => j = i)
      BY <2>1, <2>2, <2>3 DEF Loggers, A!Running
    <3>2. PICK n \in Nat : /\ Cardinality(Loggers(j)) = n
                           /\ Cardinality(Loggers(j)') = IF w \in Loggers(j)' THEN n + 1 ELSE n
      BY <2>3, <3>1, LoggersStay
    <3>3. /\ Deliveries(j) \in Nat
          /\ Deliveries(j)' = IF j = i THEN Deliveries(j) + 1 ELSE Deliveries(j)
      BY <2>2 DEF Deliveries
    <3>4. Cardinality(Places(logs, j)) + n <= Deliveries(j)
      BY <3>2 DEF AuditInv, AuditCounts
    <3>5. /\ Cardinality(Loggers(j)') \in Nat
          /\ Cardinality(Loggers(j)') <= IF j = i THEN n + 1 ELSE n
      BY <3>1, <3>2
    <3>6. CASE j = i
      <4>1. Deliveries(j)' = Deliveries(j) + 1 /\ Cardinality(Loggers(j)') <= n + 1
        BY <3>3, <3>5, <3>6
      <4>2. PICK p \in Nat : p = Cardinality(Places(logs, j))
        BY <1>1
      <4>3. PICK l \in Nat : l = Cardinality(Loggers(j)')
        BY <3>5
      <4>4. n \in Nat
        BY <3>2
      <4>5. QED
        BY <3>3, <3>4, <4>1, <4>2, <4>3, <4>4
    <3>7. CASE j # i
      BY <1>1, <3>3, <3>4, <3>5, <3>7
    <3>8. QED
      BY <3>6, <3>7
  <2>7. AuditCounts'
    BY <2>2, <2>6 DEF AuditCounts, Places
  <2>8. QED
    BY <1>0, <2>2, <2>4, <2>5, <2>7 DEF AuditInv
<1>4. ASSUME NEW w \in Workers, A!LogAudit(w) PROVE AuditInv'
  <2> DEFINE m == auditTask[w].msg
             n == Len(logs) + 1
             t == [auditTask[w] EXCEPT !.at = "detail", !.row = n]
  <2>1. /\ auditTask[w] # None /\ auditTask[w].at = "log" /\ logs' = Append(logs, m)
        /\ UNCHANGED <<taken, again, details>>
    BY <1>4 DEF A!LogAudit, A!Running
  <2>2. auditTask[w] \in A!Task /\ m \in DOMAIN generated /\ m \in Nat
    BY <1>0, <2>1 DEF AuditShape
  <2>3. n \in Nat
    BY <1>0
  <2>4. t \in A!Task /\ t.at = "detail" /\ t.row = n /\ t.msg = m
    BY <2>2, <2>3 DEF A!Task
  <2>5. auditTask' = [auditTask EXCEPT ![w] = t]
    BY <1>0, <1>4 DEF A!LogAudit, A!TypeOK
  <2>6. /\ DOMAIN logs' = DOMAIN logs \cup {n} /\ logs'[n] = m /\ logs' \in Seq(Nat)
        /\ \A r \in DOMAIN logs : logs'[r] = logs[r]
    BY <1>0, <2>1, <2>2
  <2> HIDE DEF t, n
  <2>7. /\ auditTask' \in [Workers -> A!Task \cup {None}]
        /\ auditTask'[w] = t /\ t # None /\ AuditOthers(w)
    BY <1>0, <2>4, <2>5, AuditSets
  <2>8. A!TypeOK'
    BY <1>0, <2>1, <2>6, <2>7 DEF A!TypeOK
  <2>9. \A x \in Workers : AuditShape(x)'
    BY <1>0, <2>1, <2>2, <2>4, <2>6, <2>7 DEF AuditShape, AuditOthers
  <2>10. \A i \in Nat : w \notin Loggers(i)' /\ (w \in Loggers(i) <=> i = m)
    BY <2>1, <2>4, <2>7 DEF Loggers, A!Running
  <2> HIDE DEF m
  <2>11. ASSUME NEW i \in Nat
         PROVE  Cardinality(Places(logs', i)) + Cardinality(Loggers(i)') <= Deliveries(i)'
    <3>1. Cardinality(Places(logs', i)) = Cardinality(Places(logs, i)) + (IF m = i THEN 1 ELSE 0)
      <4>1. m \in Nat /\ logs \in Seq(Nat) /\ logs' = Append(logs, m)
        BY <1>0, <2>1, <2>2
      <4>2. QED
        BY ONLY <4>1, PlacesGrow
    <3>2. PICK k \in Nat : /\ Cardinality(Loggers(i)) = IF i = m THEN k + 1 ELSE k
                           /\ Cardinality(Loggers(i)') = k
      BY <2>7, <2>10, LoggersStay
    <3>3. Cardinality(Places(logs, i)) + Cardinality(Loggers(i)) <= Deliveries(i)
      BY DEF AuditInv, AuditCounts
    <3>4. Deliveries(i)' = Deliveries(i) /\ Deliveries(i) \in Nat
      BY <2>1 DEF Deliveries
    <3>5. CASE i = m
      BY <1>1, <3>1, <3>2, <3>3, <3>4, <3>5
    <3>6. CASE i # m
      BY <1>1, <3>1, <3>2, <3>3, <3>4, <3>6
    <3>7. QED
      BY <3>5, <3>6
  <2>12. AuditCounts'
    BY <2>11 DEF AuditCounts, Places
  <2>13. \A r \in DOMAIN logs' : logs'[r] \in DOMAIN generated'
    BY <1>0, <2>2, <2>6 DEF AuditInv
  <2>14. QED
    BY <2>8, <2>9, <2>12, <2>13 DEF AuditInv
<1>5. ASSUME NEW w \in Workers, A!LogDetail(w) PROVE AuditInv'
  <2>1. /\ auditTask[w] # None /\ A!Finish(w) /\ UNCHANGED <<taken, again, logs>>
        /\ details' \subseteq DOMAIN logs
    BY <1>0, <1>5 DEF A!LogDetail, A!Running, A!RowOf, A!TypeOK, AuditShape
  <2>2. QED
    BY <1>2, <2>1
<1>6. ASSUME NEW w \in Workers, A!Fail(w) PROVE AuditInv'
  <2>1. /\ auditTask[w] # None /\ A!Finish(w) /\ UNCHANGED <<taken, again, logs, details>>
    BY <1>6 DEF A!Fail, A!Reject
  <2>2. details' \subseteq DOMAIN logs
    BY <1>0, <2>1 DEF A!TypeOK
  <2>3. QED
    BY <1>2, <2>1, <2>2
<1>7. ASSUME NEW i \in taken, A!Recommit(i) PROVE AuditInv'
  <2>1. /\ i \notin again /\ taken' = taken \ {i} /\ again' = again \cup {i}
        /\ UNCHANGED <<auditTask, logs, details, generated>>
    BY <1>0, <1>7 DEF A!Recommit, A!Redeliver
  <2>2. A!TypeOK'
    BY <1>0, <2>1 DEF A!TypeOK
  <2>3. \A j : Deliveries(j)' = Deliveries(j)
    BY <2>1 DEF Deliveries
  <2>4. QED
    BY <2>1, <2>2, <2>3 DEF AuditInv, AuditShape, AuditCounts, Loggers, A!Running
<1>8. QED
  BY <1>3, <1>4, <1>5, <1>6, <1>7 DEF AuditStep, A!Handle

LEMMA AuditDoneStep ==
    ASSUME AuditInv, AuditDone, generated \in Seq(Rows), mode # "any", AuditStep
    PROVE  AuditDone'
<1>0. /\ A!TypeOK /\ None \notin A!Task /\ DOMAIN generated \subseteq Nat
      /\ taken \subseteq DOMAIN generated
      /\ \A w \in Workers : auditTask[w] # None => auditTask[w] \in A!Task
      /\ \A w \in Workers : AuditShape(w)
      /\ logs \in Seq(Nat)
  BY PlaceholderAssumption DEF AuditInv, A!TypeOK
<1>1. ASSUME NEW w \in Workers, NEW i \in DOMAIN generated, A!Receive(w, i) PROVE AuditDone'
  <2> DEFINE t == [at |-> "log", msg |-> i, row |-> 0]
  <2>1. t \in A!Task /\ t.at = "log" /\ t.msg = i
    BY <1>0 DEF A!Task
  <2>2. /\ auditTask[w] = None /\ taken' = taken \cup {i}
        /\ auditTask' = [auditTask EXCEPT ![w] = t] /\ UNCHANGED <<logs, details>>
    BY <1>1 DEF A!Receive, A!Deliver
  <2> HIDE DEF t
  <2>3. auditTask'[w] = t /\ t # None /\ AuditOthers(w)
    BY <1>0, <2>1, <2>2, AuditSets
  <2>4. ToLog(i)' /\ \A j : ToLog(j) => ToLog(j)'
    BY <2>1, <2>2, <2>3 DEF ToLog, A!Running, AuditOthers
  <2>5. \A x \in Workers : auditTask[x] # None => auditTask'[x] = auditTask[x]
    BY <2>2, <2>3 DEF AuditOthers
  <2>6. QED
    BY <2>2, <2>4, <2>5 DEF AuditDone, A!Running
<1>2. ASSUME NEW w \in Workers, A!LogAudit(w) PROVE AuditDone'
  <2> DEFINE m == auditTask[w].msg
             n == Len(logs) + 1
             t == [auditTask[w] EXCEPT !.at = "detail", !.row = n]
  <2>1. /\ auditTask[w] # None /\ auditTask[w].at = "log" /\ logs' = Append(logs, m)
        /\ UNCHANGED <<taken, details>>
    BY <1>2 DEF A!LogAudit, A!Running
  <2>2. auditTask[w] \in A!Task /\ m \in Nat /\ n \in Nat
    BY <1>0, <2>1 DEF AuditShape
  <2>3. t \in A!Task /\ t.at = "detail" /\ t.row = n
    BY <2>2 DEF A!Task
  <2>4. auditTask' = [auditTask EXCEPT ![w] = t]
    BY <1>0, <1>2 DEF A!LogAudit, A!TypeOK
  <2>5. /\ DOMAIN logs' = DOMAIN logs \cup {n} /\ logs'[n] = m
        /\ \A r \in DOMAIN logs : logs'[r] = logs[r]
    BY <1>0, <2>1, <2>2
  <2> HIDE DEF t, n
  <2>6. auditTask'[w] = t /\ t # None /\ AuditOthers(w)
    BY <1>0, <2>3, <2>4, AuditSets
  <2>7. \A i : i # m => (ToLog(i) => ToLog(i)')
    BY <2>6 DEF ToLog, A!Running, AuditOthers
  <2>8. \A i \in taken : (\E r \in DOMAIN logs' : logs'[r] = i) \/ ToLog(i)'
    BY <2>5, <2>7 DEF AuditDone
  <2>9. ASSUME NEW r \in DOMAIN logs'
        PROVE  r \in details \/ \E x \in Workers : A!Running(x, "detail")' /\ auditTask'[x].row = r
    <3>1. CASE r = n
      BY <2>3, <2>6, <3>1 DEF A!Running
    <3>2. CASE r \in DOMAIN logs
      BY <2>1, <2>6, <3>2 DEF AuditDone, A!Running, AuditOthers
    <3>3. QED
      BY <2>5, <3>1, <3>2
  <2>10. QED
    BY <2>1, <2>8, <2>9 DEF AuditDone
<1>3. ASSUME NEW w \in Workers, A!LogDetail(w) PROVE AuditDone'
  <2>1. /\ auditTask[w] # None /\ auditTask[w].at = "detail" /\ A!Finish(w)
        /\ details' = details \cup {auditTask[w].row} /\ UNCHANGED <<taken, logs>>
    BY <1>3 DEF A!LogDetail, A!Running, A!RowOf
  <2>2. AuditOthers(w)
    BY <1>0, <2>1, AuditSets DEF A!Finish
  <2>3. \A i : ToLog(i) => ToLog(i)'
    BY <2>1, <2>2 DEF ToLog, A!Running, AuditOthers
  <2>4. ASSUME NEW r \in DOMAIN logs
        PROVE  r \in details' \/ \E x \in Workers : A!Running(x, "detail")' /\ auditTask'[x].row = r
    <3>1. r \in details \/ \E x \in Workers : A!Running(x, "detail") /\ auditTask[x].row = r
      BY DEF AuditDone
    <3>2. QED
      BY <2>1, <2>2, <3>1 DEF A!Running, AuditOthers
  <2>5. QED
    BY <2>1, <2>3, <2>4 DEF AuditDone
<1>4. QED
  BY <1>1, <1>2, <1>3 DEF AuditStep, Fails, A!Handle

LEMMA AuditsGrounded ==
    ASSUME AuditInv, generated \in Seq(Rows)
    PROVE  A!AuditIsGrounded
<1> SUFFICES ASSUME NEW i \in DOMAIN generated
             PROVE  A!Cardinality(Places(logs, i)) <=
                       IF i \in again THEN 2 ELSE IF i \in taken THEN 1 ELSE 0
  BY DEF A!AuditIsGrounded, Places
<1>1. i \in Nat /\ logs \in Seq(Nat)
  BY DEF AuditInv, A!TypeOK
<1>2. /\ Cardinality(Places(logs, i)) + Cardinality(Loggers(i)) <= Deliveries(i)
      /\ Cardinality(Places(logs, i)) \in Nat
  BY <1>1, PlacesCount DEF AuditInv, AuditCounts
<1>5. Loggers(i) \subseteq Workers
  BY DEF Loggers
<1>6. Cardinality(Loggers(i)) \in Nat
  BY <1>5, FewWorkers, FS_Subset, FS_CardinalityType
<1>3. A!Cardinality(Places(logs, i)) = Cardinality(Places(logs, i))
  BY SameCount
<1>4. QED
  BY <1>2, <1>3, <1>6 DEF Deliveries, One

LEMMA AuditsComplete == AuditInv /\ AuditDone => A!AuditIsComplete
<1> SUFFICES ASSUME AuditInv, AuditDone, A!Quiet
             PROVE  taken \subseteq {logs[r] : r \in DOMAIN logs} /\ details = DOMAIN logs
  BY DEF A!AuditIsComplete
<1>1. \A w \in Workers : \A at : ~A!Running(w, at)
  BY DEF A!Quiet, A!Running
<1>2. \A i \in taken : \E r \in DOMAIN logs : logs[r] = i
  BY <1>1 DEF AuditDone, ToLog
<1>3. details = DOMAIN logs
  BY <1>1 DEF AuditDone, AuditInv, A!TypeOK
<1>4. QED
  BY <1>2, <1>3
-----------------------------------------------------------------------------
\* Settings

Justified(m) ==
    /\ m[1] = "SETTING" => m[2] <= settings
    /\ m[1] = "FLAG" => m[2] <= versions
    /\ m[1] = "KEY" => key # "ABSENT"
    /\ m[1] = "WEBHOOK" => webhook # "ABSENT"

\* What a call holds was written and, where calls do not overlap, still is.
AdminFits(t) ==
    /\ Justified(<<t.topic, t.seen>>)
    /\ t.at \in {"readSettings", "fillSettings", "dropSettings"} => t.topic = "SETTING"
    /\ t.at \in {"createFlag", "updateFlag", "deleteFlag", "readFlag", "fillFlag", "putFlag",
                  "dropFlag"} =>
          t.topic = "FLAG"
    /\ t.at \in {"createFlag", "deleteFlag", "readFlag", "fillFlag", "putFlag", "dropFlag"} =>
          t.key \in FlagKeys
    /\ mode = "alone" =>
          /\ t.at = "fillSettings" => t.seen = settings
          /\ t.at \in {"fillFlag", "putFlag"} =>
                S!FlagExists /\ t.seen = flag.version /\ t.key = flag.key

AdminShape(w) == adminTask[w] # None => AdminFits(adminTask[w])

SettingsCurrent == cachedSettings \in {None, settings}
FlagKnown == S!FlagExists => flag.version <= versions
FlagCurrent == S!FlagExists => cachedFlag[flag.key] \in {None, flag.version}

\* Where calls do not overlap, Redis is behind Postgres only under a call that is about
\* to write it.
AdminInv ==
    /\ S!TypeOK
    /\ \A w \in Workers : AdminShape(w)
    /\ S!WrittenIsGrounded
    /\ FlagKnown
    /\ OneBusy(adminTask)
    /\ mode = "alone" =>
          /\ (\A w \in Workers : ~S!Running(w, "dropSettings")) => SettingsCurrent
          /\ (\A w \in Workers : ~S!Running(w, "putFlag")) => FlagCurrent

AdminOthers(w) == \A x \in Workers : x # w => adminTask'[x] = adminTask[x]

LEMMA AdminInvInit == S!Init => AdminInv
  BY PlaceholderAssumption
     DEF S!Init, S!CallsInit, AdminInv, S!TypeOK, AdminShape, S!WrittenIsGrounded, OneBusy,
         SettingsCurrent, FlagCurrent, FlagKnown, S!FlagExists

LEMMA AdminTypes ==
    ASSUME AdminInv
    PROVE  /\ S!TypeOK /\ None \notin Nat /\ None \notin FlagKeys /\ None \notin S!Row
           /\ flag # None => flag \in S!Row
           /\ \A w \in Workers : adminTask[w] # None =>
                 adminTask[w] \in S!Task /\ AdminFits(adminTask[w])
  BY OfficeAssumption, PlaceholderAssumption
     DEF S!AdminAssumption, AdminInv, S!TypeOK, AdminShape

LEMMA AdminSets ==
    ASSUME S!TypeOK, NEW w \in Workers, NEW t \in S!Task, adminTask' = [adminTask EXCEPT ![w] = t]
    PROVE  /\ adminTask' \in [Workers -> S!Task \cup {None}]
           /\ adminTask'[w] = t /\ t # None /\ AdminOthers(w)
  BY PlaceholderAssumption DEF S!TypeOK, AdminOthers

LEMMA AdminEnds ==
    ASSUME S!TypeOK, NEW w \in Workers, S!Finish(w)
    PROVE  /\ adminTask' \in [Workers -> S!Task \cup {None}]
           /\ adminTask'[w] = None /\ AdminOthers(w)
  BY DEF S!TypeOK, S!Finish, AdminOthers

LEMMA AdminGoesOn ==
    ASSUME S!TypeOK, NEW w \in Workers, adminTask[w] \in S!Task, NEW at \in {"tell", "dropFlag"},
           S!Continue(w, at)
    PROVE  \E t \in S!Task :
              /\ adminTask' = [adminTask EXCEPT ![w] = t]
              /\ t.at = at /\ t.topic = adminTask[w].topic /\ t.seen = adminTask[w].seen
              /\ t.key = adminTask[w].key
<1> DEFINE t == [adminTask[w] EXCEPT !.at = at]
<1>1. t \in S!Task /\ t.at = at /\ t.topic = adminTask[w].topic /\ t.seen = adminTask[w].seen
      /\ t.key = adminTask[w].key
  BY DEF S!Task
<1>2. adminTask' = [adminTask EXCEPT ![w] = t]
  BY DEF S!Continue
<1> HIDE DEF t
<1>3. QED
  BY <1>1, <1>2

\* A call alone finds Redis as it has left it.
LEMMA AdminAlone ==
    ASSUME AdminInv, NEW w \in Workers, AdminOthers(w), OneBusy(adminTask'), mode = "alone",
           adminTask[w] # None \/ adminTask'[w] # None
    PROVE  /\ ~S!Running(w, "dropSettings") => SettingsCurrent
           /\ ~S!Running(w, "putFlag") => FlagCurrent
           /\ \A x \in Workers : x # w => adminTask[x] = None /\ adminTask'[x] = None
<1>1. \A x \in Workers : x # w => adminTask[x] = None /\ adminTask'[x] = None
  BY DEF AdminInv, OneBusy, AdminOthers
<1>2. QED
  BY <1>1 DEF AdminInv, S!Running

\* What a step of w has to keep
LEMMA AdminMoves ==
    ASSUME AdminInv, NEW w \in Workers, AdminOthers(w), OneBusy(adminTask'), mode' = mode,
           adminTask[w] # None \/ adminTask'[w] # None,
           S!TypeOK', AdminShape(w)', settings <= settings', versions <= versions',
           key' = key \/ key' # "ABSENT", webhook' = webhook \/ webhook' # "ABSENT",
           FlagKnown', cachedSettings' # None => cachedSettings' <= settings',
           \A k \in FlagKeys : cachedFlag'[k] # None => cachedFlag'[k] <= versions',
           \/ adminEvents' = adminEvents
           \/ \E m \in S!Topics \X Nat : Justified(m) /\ adminEvents' = Append(adminEvents, m),
           mode = "alone" => /\ S!Running(w, "dropSettings")' \/ SettingsCurrent'
                             /\ S!Running(w, "putFlag")' \/ FlagCurrent'
    PROVE  AdminInv'
<1>0. /\ S!TypeOK /\ None \notin Nat
      /\ \A x \in Workers : adminTask[x] # None =>
            adminTask[x] \in S!Task /\ AdminFits(adminTask[x])
  BY AdminTypes
<1>1. mode = "alone" =>
         \A x \in Workers : x # w => adminTask[x] = None /\ adminTask'[x] = None
  BY AdminAlone
<1>2. \A m \in S!Topics \X Nat : Justified(m) => Justified(m)'
  BY <1>0 DEF Justified, S!TypeOK
<1>3. ASSUME NEW x \in Workers PROVE AdminShape(x)'
  <2>1. CASE x = w
    BY <2>1
  <2>2. CASE x # w /\ adminTask[x] # None
    <3> DEFINE t == adminTask[x]
    <3>1. t \in S!Task /\ AdminFits(t) /\ mode # "alone" /\ adminTask'[x] = t
      BY <1>0, <1>1, <2>2 DEF AdminOthers
    <3>2. <<t.topic, t.seen>> \in S!Topics \X Nat
      BY <3>1 DEF S!Task
    <3> HIDE DEF t
    <3>3. PICK u \in S!Task : u = t
      BY <3>1
    <3>4. Justified(<<u.topic, u.seen>>)'
      BY <1>2, <3>1, <3>2, <3>3 DEF AdminFits
    <3>5. AdminFits(u)'
      BY <3>1, <3>3, <3>4 DEF AdminFits
    <3>6. adminTask'[x] = u
      BY <3>1, <3>3
    <3>7. QED
      BY <3>5, <3>6 DEF AdminShape
  <2>3. CASE x # w /\ adminTask[x] = None
    BY <2>3 DEF AdminOthers, AdminShape
  <2>4. QED
    BY <2>1, <2>2, <2>3
<1>4. \A i \in DOMAIN adminEvents : adminEvents[i] \in S!Topics \X Nat /\ Justified(adminEvents[i])
  BY <1>0 DEF AdminInv, S!WrittenIsGrounded, Justified, S!TypeOK
<1>5. ASSUME NEW i \in DOMAIN adminEvents'
      PROVE  \E m \in S!Topics \X Nat : adminEvents'[i] = m /\ Justified(m)'
  <2>1. CASE adminEvents' = adminEvents
    BY <1>2, <1>4, <2>1
  <2>2. ASSUME NEW m \in S!Topics \X Nat, Justified(m), adminEvents' = Append(adminEvents, m)
        PROVE  \E n \in S!Topics \X Nat : adminEvents'[i] = n /\ Justified(n)'
    <3>1. adminEvents'[i] = m \/ (i \in DOMAIN adminEvents /\ adminEvents'[i] = adminEvents[i])
      BY <1>0, <2>2 DEF S!TypeOK
    <3>2. QED
      BY <1>2, <1>4, <2>2, <3>1
  <2>3. QED
    BY <2>1, <2>2
<1>6. S!WrittenIsGrounded'
  BY <1>5 DEF S!WrittenIsGrounded, Justified
<1>7. mode' = "alone" =>
         /\ (\A x \in Workers : ~S!Running(x, "dropSettings")') => SettingsCurrent'
         /\ (\A x \in Workers : ~S!Running(x, "putFlag")') => FlagCurrent'
  OBVIOUS
<1>8. QED
  BY <1>3, <1>6, <1>7 DEF AdminInv, OneBusy

LEMMA AdminInvStep ==
    ASSUME AdminInv, AdminStep
    PROVE  AdminInv'
<1>0. /\ S!TypeOK /\ None \notin Nat /\ None \notin FlagKeys /\ None \notin S!Row
      /\ flag # None => flag \in S!Row
      /\ \A w \in Workers : adminTask[w] # None =>
            adminTask[w] \in S!Task /\ AdminFits(adminTask[w])
      /\ OneBusy(adminTask') /\ mode' = mode
  BY AdminTypes DEF AdminStep
<1>1. /\ FlagKnown
      /\ cachedSettings # None => cachedSettings <= settings
      /\ \A k \in FlagKeys : cachedFlag[k] # None => cachedFlag[k] <= versions
  BY DEF AdminInv, S!WrittenIsGrounded
<1>2. /\ settings \in Nat /\ versions \in Nat /\ settings <= settings /\ versions <= versions
  BY <1>0 DEF S!TypeOK
\* A call that goes on, and writes nothing
<1>3. ASSUME NEW w \in Workers, NEW t \in S!Task, adminTask' = [adminTask EXCEPT ![w] = t],
             UNCHANGED <<S!Settings, S!Flag, S!Integration, adminEvents>>, AdminFits(t),
             ~S!Running(w, "dropSettings") /\ ~S!Running(w, "putFlag")
      PROVE  AdminInv'
  <2>1. /\ adminTask' \in [Workers -> S!Task \cup {None}]
        /\ adminTask'[w] = t /\ t # None /\ AdminOthers(w)
    BY <1>0, <1>3, AdminSets
  <2>2. S!TypeOK'
    BY <1>0, <1>3, <2>1 DEF S!TypeOK, S!Settings, S!Flag, S!Integration
  <2>3. AdminShape(w)'
    BY <1>0, <1>3, <2>1
       DEF AdminShape, AdminFits, Justified, S!Settings, S!Flag, S!Integration, S!FlagExists
  <2>4. mode = "alone" => SettingsCurrent' /\ FlagCurrent'
    <3>1. mode = "alone" => SettingsCurrent /\ FlagCurrent
      BY <1>0, <1>3, <2>1, AdminAlone
    <3>2. QED
      BY <1>3, <3>1 DEF SettingsCurrent, FlagCurrent, S!FlagExists, S!Settings, S!Flag
  <2>5. QED
    BY <1>0, <1>1, <1>2, <1>3, <2>1, <2>2, <2>3, <2>4, AdminMoves
       DEF S!Settings, S!Flag, S!Integration, FlagKnown, S!FlagExists
<1>4. ASSUME NEW w \in Workers, NEW t \in S!Task, S!Start(w, t), AdminFits(t)
      PROVE  AdminInv'
  BY <1>3, <1>4 DEF S!Start, S!Begin, S!Running
\* A call that ends, and writes nothing
<1>5. ASSUME NEW w \in Workers, S!Finish(w), adminTask[w] # None,
             UNCHANGED <<S!Settings, S!Flag, S!Integration>>,
             \/ adminEvents' = adminEvents
             \/ \E m \in S!Topics \X Nat : Justified(m) /\ adminEvents' = Append(adminEvents, m),
             mode = "alone" => ~S!Running(w, "dropSettings") /\ ~S!Running(w, "putFlag")
      PROVE  AdminInv'
  <2>1. /\ adminTask' \in [Workers -> S!Task \cup {None}]
        /\ adminTask'[w] = None /\ AdminOthers(w)
    BY <1>0, <1>5, AdminEnds
  <2>2. S!TypeOK'
    BY <1>0, <1>5, <2>1 DEF S!TypeOK, S!Settings, S!Flag, S!Integration
  <2>3. AdminShape(w)'
    BY <2>1 DEF AdminShape
  <2>4. mode = "alone" => SettingsCurrent' /\ FlagCurrent'
    <3>1. mode = "alone" => SettingsCurrent /\ FlagCurrent
      BY <1>0, <1>5, <2>1, AdminAlone
    <3>2. QED
      BY <1>5, <3>1 DEF SettingsCurrent, FlagCurrent, S!FlagExists, S!Settings, S!Flag
  <2>5. QED
    BY <1>0, <1>1, <1>2, <1>5, <2>1, <2>2, <2>3, <2>4, AdminMoves
       DEF S!Settings, S!Flag, S!Integration, FlagKnown, S!FlagExists
<1>6. ASSUME NEW w \in Workers, S!SettingCall(w) PROVE AdminInv'
  <2>1. CASE S!StartSettings(w)
    <3> DEFINE t == S!NewTask("readSettings", "SETTING", 0)
    <3>1. /\ t \in S!Task /\ t.at = "readSettings" /\ t.topic = "SETTING" /\ t.seen = 0
          /\ S!Start(w, t)
      BY <1>2, <2>1 DEF S!StartSettings, S!NewTask, S!Task, S!Topics
    <3> HIDE DEF t
    <3>2. AdminFits(t)
      BY <1>2, <3>1 DEF AdminFits, Justified
    <3>3. QED
      BY <1>4, <3>1, <3>2
  <2>6. CASE S!ReadSettings(w)
    <3> DEFINE t == S!NewTask("fillSettings", "SETTING", settings)
    <3>1. /\ t \in S!Task /\ t.at = "fillSettings" /\ t.topic = "SETTING" /\ t.seen = settings
      BY <1>2 DEF S!NewTask, S!Task, S!Topics
    <3>2. /\ adminTask' = [adminTask EXCEPT ![w] = t] /\ S!Running(w, "readSettings")
          /\ UNCHANGED <<S!Settings, S!Flag, S!Integration, adminEvents>>
      BY <2>6 DEF S!ReadSettings
    <3> HIDE DEF t
    <3>3. AdminFits(t)
      BY <1>2, <3>1 DEF AdminFits, Justified
    <3>4. QED
      BY <1>3, <3>1, <3>2, <3>3 DEF S!Running
  <2>2. CASE S!FillSettings(w)
    <3>1. /\ adminTask[w] # None /\ adminTask[w].at = "fillSettings" /\ S!Finish(w)
          /\ cachedSettings' = adminTask[w].seen
          /\ UNCHANGED <<settings, S!Flag, S!Integration, adminEvents>>
      BY <2>2 DEF S!FillSettings, S!Running
    <3>2. /\ cachedSettings' \in Nat /\ cachedSettings' <= settings
          /\ mode = "alone" => cachedSettings' = settings
      BY <1>0, <3>1 DEF AdminFits, Justified, S!Task
    <3>3. /\ adminTask' \in [Workers -> S!Task \cup {None}]
          /\ adminTask'[w] = None /\ AdminOthers(w)
      BY <1>0, <3>1, AdminEnds
    <3>4. S!TypeOK'
      BY <1>0, <3>1, <3>2, <3>3 DEF S!TypeOK, S!Flag, S!Integration
    <3>5. mode = "alone" => SettingsCurrent' /\ FlagCurrent'
      <4>1. mode = "alone" => FlagCurrent
        BY <1>0, <3>1, <3>3, AdminAlone DEF S!Running
      <4>2. QED
        BY <3>1, <3>2, <4>1 DEF SettingsCurrent, FlagCurrent, S!FlagExists, S!Flag
    <3>6. AdminShape(w)'
      BY <3>3 DEF AdminShape
    <3>7. QED
      BY <1>0, <1>1, <1>2, <3>1, <3>2, <3>3, <3>4, <3>5, <3>6, AdminMoves
         DEF S!Flag, S!Integration, FlagKnown, S!FlagExists
  <2>3. CASE S!UpsertSetting(w)
    <3> DEFINE t == S!NewTask("dropSettings", "SETTING", settings + 1)
    <3>1. /\ adminTask[w] = None /\ adminTask' = [adminTask EXCEPT ![w] = t]
          /\ settings' = settings + 1
          /\ UNCHANGED <<cachedSettings, S!Flag, S!Integration, adminEvents>>
      BY <2>3 DEF S!UpsertSetting, S!Begin
    <3>2. t \in S!Task /\ t.at = "dropSettings" /\ t.topic = "SETTING" /\ t.seen = settings'
      BY <1>2, <3>1 DEF S!NewTask, S!Task, S!Topics
    <3> HIDE DEF t
    <3>3. /\ adminTask' \in [Workers -> S!Task \cup {None}]
          /\ adminTask'[w] = t /\ t # None /\ AdminOthers(w)
      BY <1>0, <3>1, <3>2, AdminSets
    <3>4. S!TypeOK' /\ settings <= settings' /\ settings' <= settings'
      BY <1>0, <1>2, <3>1, <3>3 DEF S!TypeOK, S!Flag, S!Integration
    <3>5. AdminShape(w)' /\ S!Running(w, "dropSettings")'
      BY <3>2, <3>3, <3>4 DEF AdminShape, AdminFits, Justified, S!Running
    <3>6. mode = "alone" => FlagCurrent'
      <4>1. mode = "alone" => FlagCurrent
        BY <1>0, <3>1, <3>3, AdminAlone DEF S!Running
      <4>2. QED
        BY <3>1, <4>1 DEF FlagCurrent, S!FlagExists, S!Flag
    <3>7. cachedSettings' # None => cachedSettings' <= settings'
      BY <1>0, <1>1, <1>2, <3>1 DEF S!TypeOK
    <3>8. QED
      BY <1>0, <1>1, <1>2, <3>1, <3>3, <3>4, <3>5, <3>6, <3>7, AdminMoves
         DEF S!Flag, S!Integration, FlagKnown, S!FlagExists
  <2>4. CASE S!DropSettings(w)
    <3>1. /\ adminTask[w] # None /\ adminTask[w].at = "dropSettings" /\ S!Continue(w, "tell")
          /\ cachedSettings' = None /\ UNCHANGED <<settings, S!Flag, S!Integration, adminEvents>>
      BY <2>4 DEF S!DropSettings, S!Running, S!Dropped
    <3>2. PICK t \in S!Task :
             /\ adminTask' = [adminTask EXCEPT ![w] = t] /\ t.at = "tell"
             /\ t.topic = adminTask[w].topic /\ t.seen = adminTask[w].seen
      BY <1>0, <3>1, AdminGoesOn
    <3>3. /\ adminTask' \in [Workers -> S!Task \cup {None}]
          /\ adminTask'[w] = t /\ t # None /\ AdminOthers(w)
      BY <1>0, <3>2, AdminSets
    <3>4. S!TypeOK'
      BY <1>0, <3>1, <3>3 DEF S!TypeOK, S!Flag, S!Integration
    <3>5. AdminShape(w)'
      BY <1>0, <3>1, <3>2, <3>3 DEF AdminShape, AdminFits, Justified, S!Flag, S!Integration
    <3>6. mode = "alone" => SettingsCurrent' /\ FlagCurrent'
      <4>1. mode = "alone" => FlagCurrent
        BY <1>0, <3>1, <3>3, AdminAlone DEF S!Running
      <4>2. QED
        BY <3>1, <4>1 DEF SettingsCurrent, FlagCurrent, S!FlagExists, S!Flag
    <3>7. QED
      BY <1>0, <1>1, <1>2, <3>1, <3>3, <3>4, <3>5, <3>6, AdminMoves
         DEF S!Flag, S!Integration, FlagKnown, S!FlagExists
  <2>5. CASE S!Tell(w)
    <3> DEFINE m == <<adminTask[w].topic, adminTask[w].seen>>
    <3>1. /\ adminTask[w] # None /\ adminTask[w].at = "tell" /\ S!Finish(w)
          /\ adminEvents' = Append(adminEvents, m)
          /\ UNCHANGED <<S!Settings, S!Flag, S!Integration>>
      BY <2>5 DEF S!Tell, S!Running
    <3>2. m \in S!Topics \X Nat /\ Justified(m)
      BY <1>0, <3>1 DEF AdminFits, S!Task
    <3> HIDE DEF m
    <3>3. ~S!Running(w, "dropSettings") /\ ~S!Running(w, "putFlag")
      BY <3>1 DEF S!Running
    <3>4. QED
      BY <1>5, <3>1, <3>2, <3>3
  <2>7. QED
    BY <1>6, <2>1, <2>2, <2>3, <2>4, <2>5, <2>6 DEF S!SettingCall
\* A flag task, and what it has to fit
<1>7. ASSUME NEW at \in {"createFlag", "updateFlag", "deleteFlag", "readFlag", "fillFlag", "putFlag"},
             NEW n \in Nat, NEW i \in Nat, NEW k \in FlagKeys \cup {None}
      PROVE  LET t == S!FlagTask(at, n, i, k) IN
             /\ t \in S!Task /\ t.at = at /\ t.topic = "FLAG" /\ t.seen = n /\ t.id = i
             /\ t.key = k
  BY DEF S!FlagTask, S!Task, S!Topics
<1>8. ASSUME NEW w \in Workers, S!PutFlag(w) PROVE AdminInv'
  <2> DEFINE k == adminTask[w].key
             n == adminTask[w].seen
  <2>1. /\ adminTask[w] # None /\ adminTask[w].at \in {"fillFlag", "putFlag"}
        /\ cachedFlag' = [cachedFlag EXCEPT ![k] = n]
        /\ UNCHANGED <<S!Settings, flag, versions, S!Integration, adminEvents>>
        /\ \/ adminTask[w].at = "putFlag" /\ S!Continue(w, "tell")
           \/ S!Finish(w)
    BY <1>8 DEF S!PutFlag, S!Running
  <2>2. /\ k \in FlagKeys /\ n \in Nat /\ n <= versions /\ adminTask[w].topic = "FLAG"
        /\ mode = "alone" => S!FlagExists /\ n = flag.version /\ k = flag.key
    BY <1>0, <2>1 DEF AdminFits, Justified, S!Task
  <2>3. /\ adminTask' \in [Workers -> S!Task \cup {None}] /\ AdminOthers(w)
        /\ adminTask'[w] # None => /\ adminTask'[w].at = "tell" /\ adminTask'[w].topic = "FLAG"
                                   /\ adminTask'[w].seen = n
    <3>1. CASE S!Finish(w)
      BY <1>0, <3>1, AdminEnds
    <3>2. CASE S!Continue(w, "tell")
      BY <1>0, <2>1, <2>2, <3>2, AdminGoesOn, AdminSets
    <3>3. QED
      BY <2>1, <3>1, <3>2
  <2> HIDE DEF k, n
  <2>4. S!TypeOK'
    BY <1>0, <2>1, <2>2, <2>3 DEF S!TypeOK, S!Settings, S!Integration
  <2>5. AdminShape(w)'
    BY <2>1, <2>2, <2>3 DEF AdminShape, AdminFits, Justified
  <2>6. \A j \in FlagKeys : cachedFlag'[j] # None => cachedFlag'[j] <= versions'
    BY <1>0, <1>1, <2>1, <2>2 DEF S!TypeOK
  <2>7. mode = "alone" => SettingsCurrent' /\ FlagCurrent'
    <3>1. mode = "alone" => SettingsCurrent
      BY <1>0, <2>1, <2>3, AdminAlone DEF S!Running
    <3>2. mode = "alone" => cachedFlag'[flag.key] = flag.version
      BY <1>0, <2>1, <2>2 DEF S!TypeOK
    <3>3. QED
      BY <2>1, <3>1, <3>2 DEF SettingsCurrent, FlagCurrent, S!FlagExists, S!Settings
  <2>8. QED
    BY <1>0, <1>1, <1>2, <2>1, <2>3, <2>4, <2>5, <2>6, <2>7, AdminMoves
       DEF S!Settings, S!Integration, FlagKnown, S!FlagExists
\* The row that is written, and put into Redis next
<1>9. ASSUME NEW w \in Workers, NEW row \in S!Row, row.version = versions + 1, S!Write(w, row),
             adminTask[w] # None, adminTask[w].at \in {"createFlag", "updateFlag"},
             UNCHANGED <<S!Settings, cachedFlag, S!Integration, adminEvents>>
      PROVE  AdminInv'
  <2> DEFINE t == S!FlagTask("putFlag", row.version, row.id, row.key)
  <2>1. row.version \in Nat /\ row.id \in Nat /\ row.key \in FlagKeys
    BY DEF S!Row
  <2>2. /\ t \in S!Task /\ t.at = "putFlag" /\ t.topic = "FLAG" /\ t.seen = row.version
        /\ t.key = row.key
    BY <1>7, <2>1
  <2>3. /\ flag' = row /\ versions' = versions + 1 /\ adminTask' = [adminTask EXCEPT ![w] = t]
    BY <1>9 DEF S!Write
  <2> HIDE DEF t
  <2>4. /\ adminTask' \in [Workers -> S!Task \cup {None}]
        /\ adminTask'[w] = t /\ t # None /\ AdminOthers(w)
    BY <1>0, <2>2, <2>3, AdminSets
  <2>5. S!TypeOK' /\ versions <= versions' /\ versions' <= versions'
    BY <1>0, <1>2, <1>9, <2>3, <2>4 DEF S!TypeOK, S!Settings, S!Integration
  <2>6. row # None
    BY <1>0
  <2>7. AdminShape(w)' /\ S!Running(w, "putFlag")'
    BY <1>9, <2>1, <2>2, <2>3, <2>4, <2>5, <2>6
       DEF AdminShape, AdminFits, Justified, S!Running, S!FlagExists
  <2>8. \A j \in FlagKeys : cachedFlag'[j] # None => cachedFlag'[j] <= versions'
    BY <1>0, <1>1, <1>2, <1>9, <2>3 DEF S!TypeOK
  <2>9. mode = "alone" => SettingsCurrent'
    <3>1. mode = "alone" => SettingsCurrent
      BY <1>0, <1>9, <2>4, AdminAlone DEF S!Running
    <3>2. QED
      BY <1>9, <3>1 DEF SettingsCurrent, S!Settings
  <2>10. FlagKnown'
    BY <1>9, <2>3, <2>5 DEF FlagKnown
  <2>11. QED
    BY <1>0, <1>1, <1>2, <1>9, <2>4, <2>5, <2>7, <2>8, <2>9, <2>10, AdminMoves
       DEF S!Settings, S!Integration
<1>10. ASSUME NEW w \in Workers, S!Refused(w), S!Running(w, "createFlag") \/ S!Running(w, "updateFlag")
                                                 \/ S!Running(w, "deleteFlag"),
              UNCHANGED <<S!Settings, cachedFlag, S!Integration, adminEvents>>
       PROVE  AdminInv'
  BY <1>5, <1>10 DEF S!Refused, S!Running, S!Flag
<1>11. ASSUME NEW w \in Workers, S!FlagCall(w) PROVE AdminInv'
  <2>1. ASSUME NEW k \in FlagKeys, S!StartEnabled(w, k) PROVE AdminInv'
    <3> DEFINE t == S!FlagTask("readFlag", 0, 0, k)
    <3>1. /\ t \in S!Task /\ t.at = "readFlag" /\ t.topic = "FLAG" /\ t.seen = 0 /\ t.key = k
          /\ S!Start(w, t)
      BY <1>7, <2>1 DEF S!StartEnabled
    <3> HIDE DEF t
    <3>2. AdminFits(t)
      BY <1>2, <3>1 DEF AdminFits, Justified
    <3>3. QED
      BY <1>4, <3>1, <3>2
  <2>11. CASE S!ReadFlag(w)
    <3>1. /\ adminTask[w] # None /\ adminTask[w].at = "readFlag"
          /\ UNCHANGED <<S!Settings, S!Flag, S!Integration, adminEvents>>
      BY <2>11 DEF S!ReadFlag, S!Running
    <3>2. CASE S!Finish(w)
      BY <1>5, <3>1, <3>2 DEF S!Running
    <3>3. CASE /\ S!FlagExists
               /\ adminTask' = [adminTask EXCEPT
                                   ![w] = S!FlagTask("fillFlag", flag.version, flag.id, flag.key)]
      <4> DEFINE t == S!FlagTask("fillFlag", flag.version, flag.id, flag.key)
      <4>1. flag.version \in Nat /\ flag.id \in Nat /\ flag.key \in FlagKeys
        BY <1>0, <3>3 DEF S!FlagExists, S!Row
      <4>2. /\ t \in S!Task /\ t.at = "fillFlag" /\ t.topic = "FLAG" /\ t.seen = flag.version
            /\ t.key = flag.key /\ adminTask' = [adminTask EXCEPT ![w] = t]
        BY <1>7, <3>3, <4>1
      <4> HIDE DEF t
      <4>3. flag.version <= versions
        BY <1>1, <3>3 DEF FlagKnown
      <4>4. AdminFits(t)
        BY <3>3, <4>1, <4>2, <4>3 DEF AdminFits, Justified
      <4>5. QED
        BY <1>3, <3>1, <4>2, <4>4 DEF S!Running
    <3>4. QED
      BY <2>11, <3>2, <3>3 DEF S!ReadFlag
  <2>2. ASSUME NEW k \in FlagKeys, S!StartCreate(w, k) PROVE AdminInv'
    <3> DEFINE t == S!FlagTask("createFlag", 0, 0, k)
    <3>1. /\ t \in S!Task /\ t.at = "createFlag" /\ t.topic = "FLAG" /\ t.seen = 0 /\ t.key = k
          /\ S!Start(w, t)
      BY <1>7, <2>2 DEF S!StartCreate
    <3> HIDE DEF t
    <3>2. AdminFits(t)
      BY <1>2, <3>1 DEF AdminFits, Justified
    <3>3. QED
      BY <1>4, <3>1, <3>2
  <2>3. ASSUME NEW k \in FlagKeys \cup {None}, S!StartUpdate(w, k) PROVE AdminInv'
    <3> DEFINE t == S!FlagTask("updateFlag", 0, flag.id, k)
    <3>1. flag.id \in Nat /\ S!Start(w, t)
      BY <1>0, <2>3 DEF S!StartUpdate, S!FlagExists, S!Row
    <3>2. t \in S!Task /\ t.at = "updateFlag" /\ t.topic = "FLAG" /\ t.seen = 0
      BY <1>7, <3>1
    <3> HIDE DEF t
    <3>3. AdminFits(t)
      BY <1>2, <3>2 DEF AdminFits, Justified
    <3>4. QED
      BY <1>4, <3>1, <3>2, <3>3
  <2>4. CASE S!StartDelete(w)
    <3> DEFINE t == S!FlagTask("deleteFlag", 0, flag.id, flag.key)
    <3>1. flag.id \in Nat /\ flag.key \in FlagKeys /\ S!Start(w, t)
      BY <1>0, <2>4 DEF S!StartDelete, S!FlagExists, S!Row
    <3>2. /\ t \in S!Task /\ t.at = "deleteFlag" /\ t.topic = "FLAG" /\ t.seen = 0
          /\ t.key = flag.key
      BY <1>7, <3>1
    <3> HIDE DEF t
    <3>3. AdminFits(t)
      BY <1>2, <3>1, <3>2 DEF AdminFits, Justified
    <3>4. QED
      BY <1>4, <3>1, <3>2, <3>3
  <2>5. CASE S!CreateFlag(w)
    <3> DEFINE row == [id |-> versions + 1, key |-> adminTask[w].key, version |-> versions + 1]
    <3>1. /\ adminTask[w] # None /\ adminTask[w].at = "createFlag"
          /\ UNCHANGED <<S!Settings, cachedFlag, S!Integration, adminEvents>>
          /\ S!Refused(w) \/ S!Write(w, row)
      BY <2>5 DEF S!CreateFlag, S!Running
    <3>2. adminTask[w].key \in FlagKeys
      BY <1>0, <3>1 DEF AdminFits
    <3>3. row \in S!Row /\ row.version = versions + 1
      <4>1. versions + 1 \in Nat
        BY <1>2
      <4>2. QED
        BY <3>2, <4>1 DEF S!Row
    <3> HIDE DEF row
    <3>4. QED
      BY <1>9, <1>10, <3>1, <3>3 DEF S!Running
  <2>6. CASE S!UpdateFlag(w)
    <3> DEFINE k == IF adminTask[w].key = None THEN flag.key ELSE adminTask[w].key
               row == [flag EXCEPT !.version = versions + 1, !.key = k]
    <3>1. /\ adminTask[w] # None /\ adminTask[w].at = "updateFlag"
          /\ UNCHANGED <<S!Settings, cachedFlag, S!Integration, adminEvents>>
          /\ S!Refused(w) \/ (S!Found(w) /\ S!Write(w, row))
      BY <2>6 DEF S!UpdateFlag, S!Running
    <3>2. S!Found(w) => row \in S!Row /\ row.version = versions + 1
      <4>1. SUFFICES ASSUME S!Found(w) PROVE row \in S!Row /\ row.version = versions + 1
        OBVIOUS
      <4>2. flag \in S!Row /\ adminTask[w].key \in FlagKeys \cup {None}
        BY <1>0, <3>1, <4>1 DEF S!Found, S!FlagExists, S!Task
      <4>3. k \in FlagKeys /\ flag.id \in Nat /\ versions + 1 \in Nat
        BY <1>2, <4>2 DEF S!Row
      <4> HIDE DEF k
      <4>4. PICK f \in S!Row, j \in FlagKeys, n \in Nat : f = flag /\ j = k /\ n = versions + 1
        BY <4>2, <4>3
      <4>5. row = [f EXCEPT !.version = n, !.key = j]
        BY <4>4
      <4> HIDE DEF row
      <4>6. [f EXCEPT !.version = n, !.key = j] \in S!Row
            /\ [f EXCEPT !.version = n, !.key = j].version = n
        BY <4>4 DEF S!Row
      <4>7. QED
        BY <4>4, <4>5, <4>6
    <3> HIDE DEF row, k
    <3>3. QED
      BY <1>9, <1>10, <3>1, <3>2 DEF S!Running
  <2>7. CASE S!DeleteFlag(w)
    <3>1. /\ adminTask[w] # None /\ adminTask[w].at = "deleteFlag"
          /\ UNCHANGED <<S!Settings, cachedFlag, S!Integration, adminEvents>>
          /\ S!Refused(w) \/ (S!Continue(w, "dropFlag") /\ flag' = None /\ UNCHANGED versions)
      BY <2>7 DEF S!DeleteFlag, S!Running
    <3>2. CASE S!Refused(w)
      BY <1>10, <3>1, <3>2 DEF S!Running
    <3>3. CASE S!Continue(w, "dropFlag") /\ flag' = None /\ UNCHANGED versions
      <4>1. PICK t \in S!Task :
               /\ adminTask' = [adminTask EXCEPT ![w] = t] /\ t.at = "dropFlag"
               /\ t.topic = adminTask[w].topic /\ t.seen = adminTask[w].seen
               /\ t.key = adminTask[w].key
        BY <1>0, <3>1, <3>3, AdminGoesOn
      <4>2. /\ adminTask' \in [Workers -> S!Task \cup {None}]
            /\ adminTask'[w] = t /\ t # None /\ AdminOthers(w)
        BY <1>0, <4>1, AdminSets
      <4>3. S!TypeOK'
        BY <1>0, <3>1, <3>3, <4>2 DEF S!TypeOK, S!Settings, S!Integration
      <4>4. AdminShape(w)'
        BY <1>0, <3>1, <3>3, <4>1, <4>2
           DEF AdminShape, AdminFits, Justified, S!Settings, S!Integration
      <4>5. mode = "alone" => SettingsCurrent' /\ FlagCurrent'
        <5>1. mode = "alone" => SettingsCurrent
          BY <1>0, <3>1, <4>2, AdminAlone DEF S!Running
        <5>2. QED
          BY <3>1, <3>3, <5>1 DEF SettingsCurrent, FlagCurrent, S!FlagExists, S!Settings
      <4>6. QED
        BY <1>0, <1>1, <1>2, <3>1, <3>3, <4>2, <4>3, <4>4, <4>5, AdminMoves
           DEF S!Settings, S!Integration, FlagKnown, S!FlagExists
    <3>4. QED
      BY <3>1, <3>2, <3>3
  <2>8. CASE S!DropFlag(w)
    <3> DEFINE k == adminTask[w].key
    <3>1. /\ adminTask[w] # None /\ adminTask[w].at = "dropFlag" /\ S!Finish(w)
          /\ cachedFlag' = [cachedFlag EXCEPT ![k] = None]
          /\ UNCHANGED <<S!Settings, flag, versions, S!Integration, adminEvents>>
      BY <2>8 DEF S!DropFlag, S!Running
    <3>2. k \in FlagKeys
      BY <1>0, <3>1 DEF AdminFits
    <3>3. /\ adminTask' \in [Workers -> S!Task \cup {None}]
          /\ adminTask'[w] = None /\ AdminOthers(w)
      BY <1>0, <3>1, AdminEnds
    <3> HIDE DEF k
    <3>4. S!TypeOK'
      BY <1>0, <3>1, <3>2, <3>3 DEF S!TypeOK, S!Settings, S!Integration
    <3>5. \A j \in FlagKeys : cachedFlag'[j] \in {None, cachedFlag[j]}
      BY <1>0, <3>1, <3>2 DEF S!TypeOK
    <3>6. mode = "alone" => SettingsCurrent' /\ FlagCurrent'
      <4>1. mode = "alone" => SettingsCurrent /\ FlagCurrent
        BY <1>0, <3>1, <3>3, AdminAlone DEF S!Running
      <4>2. S!FlagExists => flag.key \in FlagKeys
        BY <1>0 DEF S!FlagExists, S!Row
      <4>3. QED
        BY <3>1, <3>5, <4>1, <4>2 DEF SettingsCurrent, FlagCurrent, S!FlagExists, S!Settings
    <3>7. AdminShape(w)'
      BY <3>3 DEF AdminShape
    <3>8. QED
      BY <1>0, <1>1, <1>2, <3>1, <3>3, <3>4, <3>5, <3>6, <3>7, AdminMoves
         DEF S!Settings, S!Integration, FlagKnown, S!FlagExists
  <2>9. CASE S!Tell(w)
    BY <1>6, <2>9 DEF S!SettingCall
  <2>10. QED
    BY <1>8, <1>11, <2>1, <2>2, <2>3, <2>4, <2>5, <2>6, <2>7, <2>8, <2>9, <2>11
       DEF S!FlagCall
\* A write of an API key or a webhook
<1>12. ASSUME NEW w \in Workers, UNCHANGED <<S!Settings, S!Flag, adminEvents>>,
              key' = key \/ key' # "ABSENT", webhook' = webhook \/ webhook' # "ABSENT",
              adminTask[w] # None \/ adminTask'[w] # None,
              ~S!Running(w, "dropSettings") /\ ~S!Running(w, "putFlag"),
              AdminOthers(w), S!TypeOK', AdminShape(w)'
       PROVE  AdminInv'
  <2>1. mode = "alone" => SettingsCurrent' /\ FlagCurrent'
    <3>1. mode = "alone" => SettingsCurrent /\ FlagCurrent
      BY <1>0, <1>12, AdminAlone
    <3>2. QED
      BY <1>12, <3>1 DEF SettingsCurrent, FlagCurrent, S!FlagExists, S!Settings, S!Flag
  <2>2. QED
    BY <1>0, <1>1, <1>2, <1>12, <2>1, AdminMoves DEF S!Settings, S!Flag, FlagKnown, S!FlagExists
<1>13. ASSUME NEW w \in Workers, S!IntegrationCall(w) PROVE AdminInv'
  <2>1. CASE S!CreateKey(w)
    <3> DEFINE t == S!NewTask("tell", "KEY", 1)
    <3>1. t \in S!Task /\ t.at = "tell" /\ t.topic = "KEY"
      BY DEF S!NewTask, S!Task, S!Topics
    <3>2. /\ adminTask[w] = None /\ adminTask' = [adminTask EXCEPT ![w] = t] /\ key' = "VALID"
          /\ UNCHANGED <<S!Settings, S!Flag, webhook, adminEvents>>
      BY <2>1 DEF S!CreateKey, S!Begin
    <3> HIDE DEF t
    <3>3. /\ adminTask' \in [Workers -> S!Task \cup {None}]
          /\ adminTask'[w] = t /\ t # None /\ AdminOthers(w)
      BY <1>0, <3>1, <3>2, AdminSets
    <3>4. S!TypeOK'
      BY <1>0, <3>2, <3>3 DEF S!TypeOK, S!Settings, S!Flag
    <3>5. AdminShape(w)'
      BY <3>1, <3>2, <3>3 DEF AdminShape, AdminFits, Justified
    <3>6. ~S!Running(w, "dropSettings") /\ ~S!Running(w, "putFlag")
      BY <3>2 DEF S!Running
    <3>7. QED
      BY <1>12, <3>2, <3>3, <3>4, <3>5, <3>6
  <2>2. CASE S!StartRevoke(w)
    <3> DEFINE t == S!NewTask("revoke", "KEY", 0)
    <3>1. /\ t \in S!Task /\ t.at = "revoke" /\ t.topic = "KEY" /\ key # "ABSENT"
          /\ S!Start(w, t)
      BY <2>2 DEF S!StartRevoke, S!NewTask, S!Task, S!Topics
    <3> HIDE DEF t
    <3>2. AdminFits(t)
      BY <3>1 DEF AdminFits, Justified
    <3>3. QED
      BY <1>4, <3>1, <3>2
  <2>3. CASE S!RevokeKey(w) \/ S!RemoveWebhook(w)
    <3>1. /\ adminTask[w] # None /\ adminTask[w].at \in {"revoke", "remove"} /\ S!Finish(w)
          /\ UNCHANGED <<S!Settings, S!Flag, adminEvents>>
          /\ \/ key' = "REVOKED" /\ webhook' = webhook
             \/ key' = key /\ webhook' = "DELETED"
      BY <2>3 DEF S!RevokeKey, S!RemoveWebhook, S!Running
    <3>2. /\ adminTask' \in [Workers -> S!Task \cup {None}]
          /\ adminTask'[w] = None /\ AdminOthers(w)
      BY <1>0, <3>1, AdminEnds
    <3>3. S!TypeOK'
      BY <1>0, <3>1, <3>2 DEF S!TypeOK, S!Settings, S!Flag
    <3>4. AdminShape(w)' /\ ~S!Running(w, "dropSettings") /\ ~S!Running(w, "putFlag")
      BY <3>1, <3>2 DEF AdminShape, S!Running
    <3>5. QED
      BY <1>12, <3>1, <3>2, <3>3, <3>4
  <2>4. CASE S!CreateWebhook
    <3>1. webhook' = "ACTIVE" /\ UNCHANGED <<adminTask, S!Settings, S!Flag, key, adminEvents>>
      BY <2>4 DEF S!CreateWebhook
    <3>2. S!TypeOK'
      BY <1>0, <3>1 DEF S!TypeOK, S!Settings, S!Flag
    <3>3. \A x \in Workers : AdminShape(x)'
      BY <1>0, <3>1
         DEF AdminShape, AdminFits, Justified, S!FlagExists, S!Settings, S!Flag
    <3>4. S!WrittenIsGrounded'
      BY <3>1 DEF AdminInv, S!WrittenIsGrounded, S!Settings, S!Flag
    <3>5. QED
      BY <1>0, <3>1, <3>2, <3>3, <3>4
         DEF AdminInv, OneBusy, S!Settings, S!Flag, S!Running, SettingsCurrent, FlagCurrent, FlagKnown,
             S!FlagExists
  <2>5. ASSUME NEW at \in {"remove", "dispatch"}, S!StartWebhook(w, at) PROVE AdminInv'
    <3> DEFINE t == S!NewTask(at, "WEBHOOK", 1)
    <3>1. /\ t \in S!Task /\ t.at = at /\ t.topic = "WEBHOOK" /\ webhook # "ABSENT"
          /\ S!Start(w, t)
      BY <2>5 DEF S!StartWebhook, S!NewTask, S!Task, S!Topics
    <3> HIDE DEF t
    <3>2. AdminFits(t)
      BY <3>1 DEF AdminFits, Justified
    <3>3. QED
      BY <1>4, <3>1, <3>2
  <2>6. CASE S!DispatchWebhook(w)
    <3>1. /\ adminTask[w] # None /\ adminTask[w].at = "dispatch" /\ S!Continue(w, "tell")
          /\ UNCHANGED <<S!Settings, S!Flag, S!Integration, adminEvents>>
      BY <2>6 DEF S!DispatchWebhook, S!Running
    <3>2. PICK t \in S!Task :
             /\ adminTask' = [adminTask EXCEPT ![w] = t] /\ t.at = "tell"
             /\ t.topic = adminTask[w].topic /\ t.seen = adminTask[w].seen
      BY <1>0, <3>1, AdminGoesOn
    <3>3. AdminFits(t)
      BY <1>0, <3>1, <3>2 DEF AdminFits, Justified
    <3>4. QED
      BY <1>3, <3>1, <3>2, <3>3 DEF S!Running
  <2>7. CASE S!Tell(w)
    BY <1>6, <2>7 DEF S!SettingCall
  <2>8. QED
    BY <1>13, <2>1, <2>2, <2>3, <2>4, <2>5, <2>6, <2>7 DEF S!IntegrationCall
<1>14. ASSUME NEW w \in Workers, Fails, S!Reject(w) PROVE AdminInv'
  BY <1>5, <1>14 DEF S!Reject, S!Abandon, Fails
<1>15. CASE S!Expire
  <2>1. /\ UNCHANGED <<adminTask, settings, flag, versions, S!Integration, adminEvents>>
        /\ cachedSettings' \in {None, cachedSettings}
        /\ \A k \in FlagKeys : cachedFlag'[k] \in {None, cachedFlag[k]}
        /\ cachedFlag' \in [FlagKeys -> Nat \cup {None}]
    BY <1>0, <1>15 DEF S!Expire, S!ExpireSettings, S!ExpireFlag, S!Settings, S!Flag, S!TypeOK
  <2>2. S!TypeOK'
    BY <1>0, <2>1 DEF S!TypeOK, S!Integration
  <2>3. \A x \in Workers : AdminShape(x)'
    BY <1>0, <2>1 DEF AdminShape, AdminFits, Justified, S!FlagExists, S!Integration
  <2>4. S!WrittenIsGrounded'
    BY <2>1 DEF AdminInv, S!WrittenIsGrounded, S!Integration
  <2>5. (SettingsCurrent => SettingsCurrent') /\ (FlagCurrent => FlagCurrent')
    BY <1>0, <2>1 DEF SettingsCurrent, FlagCurrent, S!FlagExists, S!Row
  <2>6. QED
    BY <1>0, <2>1, <2>2, <2>3, <2>4, <2>5
       DEF AdminInv, OneBusy, S!Running, FlagKnown, S!FlagExists
<1>16. QED
  BY <1>6, <1>11, <1>13, <1>14, <1>15 DEF AdminStep

LEMMA SettingsCached == AdminInv /\ mode = "alone" => S!CacheIsCurrent
  BY DEF AdminInv, S!CacheIsCurrent, S!Quiet, S!Running, SettingsCurrent, FlagCurrent
-----------------------------------------------------------------------------
\* Accounts

Gone == Exists /\ account.deleted => \A s \in Sessions : session[s] # None => session[s].revoked
Roled == Exists => account.roles # {}

\* What a call holds while no other runs
AccountTurn(w) ==
    LET t == task[w] IN
    t # None =>
        /\ ~administered => t.call # "update"
        /\ t.call = "login" =>
              /\ Alive /\ ~LockedOut
              /\ ~administered /\ t.at # "unlock" => account.status # "LOCKED"
        /\ t.call = "refresh" => ~session[t.ref].revoked
        /\ t.at \in {"create", "drop", "add"} => t.roles # {}

\* A deleted account has sessions, and an account no roles, only under the call that is
\* about to mend it.
AccountInTurn ==
    /\ OneBusy(task)
    /\ \A w \in Workers : AccountTurn(w)
    /\ (\A w \in Workers : ~Running(w, "revoke")) => Gone
    /\ (\A w \in Workers : ~Running(w, "add")) => Roled
    /\ ~administered => LockHasReason

LEMMA AccountInTurnInit == Init => AccountInTurn
  BY DEF Init, AccountInTurn, OneBusy, AccountTurn, Gone, Roled, LockHasReason, Exists

LEMMA AccountsInTurn ==
    ASSUME AccountInTurn
    PROVE  /\ DeletedHasNoSession /\ RolesAreKept /\ RefusedStaysOut
           /\ ~administered => LockHasReason
  BY DEF AccountInTurn, AccountTurn, DeletedHasNoSession, RolesAreKept, RefusedStaysOut, NoLogin,
         Quiet, Running, Gone, Roled

LEMMA AccountAlone ==
    ASSUME AccountInTurn, mode = "alone", NEW w \in Workers, Alone(w), OneBusy(task'),
           task[w] # None \/ task'[w] # None
    PROVE  /\ ~Running(w, "revoke") => Gone
           /\ ~Running(w, "add") => Roled
           /\ \A x \in Workers : x # w => task[x] = None /\ task'[x] = None
<1>1. \A x \in Workers : x # w => task[x] = None /\ task'[x] = None
  BY DEF AccountInTurn, OneBusy, Alone
<1>2. QED
  BY <1>1 DEF AccountInTurn, Running

\* What a step of w has to keep
LEMMA AccountMoves ==
    ASSUME AccountInTurn, mode = "alone", UNCHANGED <<mode, administered>>,
           NEW w \in Workers, Alone(w), OneBusy(task'),
           task[w] # None \/ task'[w] # None, AccountTurn(w)',
           Running(w, "revoke")' \/ Gone', Running(w, "add")' \/ Roled',
           ~administered => LockHasReason'
    PROVE  AccountInTurn'
<1>1. \A x \in Workers : x # w => task'[x] = None
  BY AccountAlone
<1>2. \A x \in Workers : AccountTurn(x)'
  BY <1>1 DEF AccountTurn
<1>3. /\ (\A x \in Workers : ~Running(x, "revoke")') => Gone'
      /\ (\A x \in Workers : ~Running(x, "add")') => Roled'
  OBVIOUS
<1>4. QED
  BY <1>2, <1>3 DEF AccountInTurn, OneBusy

LEMMA AccountInTurnStep ==
    ASSUME TypeInv, AccountInTurn, mode = "alone", AccountStep
    PROVE  AccountInTurn'
<1>0. /\ TypeOK /\ OneBusy(task') /\ UNCHANGED <<mode, administered>>
      /\ \A w \in Workers : ~administered /\ task'[w] # None => task'[w].call # "update"
      /\ \A w \in Workers : task[w] # None => task[w] \in Task /\ ShapeOf(task[w])
      /\ \A w \in Workers : AccountTurn(w)
      /\ Exists => account \in User
      /\ None \notin User /\ None \notin SessionRow
  BY TaskShape, AccountType, NoneAssumption DEF TypeInv, AccountStep, AccountInTurn
\* A call that starts
<1>1. ASSUME NEW w \in Workers, NEW t \in Task, Start(w, t), t.at \notin {"revoke", "add"},
             t.call = "login" =>
                 /\ Alive /\ ~LockedOut
                 /\ ~administered /\ t.at # "unlock" => account.status # "LOCKED",
             t.call = "refresh" => ~session[t.ref].revoked,
             t.at \in {"create", "drop", "add"} => t.roles # {}
      PROVE  AccountInTurn'
  <2>1. /\ task[w] = None /\ UNCHANGED <<account, session>>
        /\ task'[w] = t /\ Alone(w)
    BY <1>0, <1>1 DEF Start, TypeOK, Alone
  <2>2. t # None
    BY PlaceholderAssumption
  <2>3. Gone /\ Roled
    BY <1>0, <2>1, <2>2, AccountAlone DEF Running
  <2>4. AccountTurn(w)'
    BY <1>0, <1>1, <2>1, <2>2 DEF AccountTurn, Alive, Exists, LockedOut
  <2>5. Gone' /\ Roled' /\ (~administered => LockHasReason')
    BY <1>0, <2>1, <2>3 DEF Gone, Roled, Exists, LockHasReason, AccountInTurn
  <2>6. QED
    BY <1>0, <2>1, <2>2, <2>4, <2>5, AccountMoves
<1>2. ASSUME NEW call \in CallNames,
             NEW at \in {"create", "token", "unlock", "count", "clear", "one", "all", "rotate",
                         "commit", "drop", "write", "mark"}
      PROVE  /\ NewTask(call, at) \in Task
             /\ NewTask(call, at).call = call /\ NewTask(call, at).at = at
  BY NewTaskType
<1>3. ASSUME NEW w \in Workers, NEW call \in {"register", "createUser"}, NEW pw \in Passwords,
             NEW Q \in (SUBSET Roles) \ {{}}, StartCreate(w, call, pw, Q)
      PROVE  AccountInTurn'
  <2> DEFINE t == [NewTask(call, "create") EXCEPT !.pw = pw, !.roles = Q]
  <2>1. t \in Task /\ t.call = call /\ t.at = "create" /\ t.roles = Q
    BY DEF NewTask, Task, CallNames
  <2>2. Start(w, t)
    BY <1>3 DEF StartCreate
  <2> HIDE DEF t
  <2>3. QED
    BY <1>1, <2>1, <2>2
<1>4. ASSUME NEW w \in Workers, NEW pw \in Passwords, StartLogin(w, pw) PROVE AccountInTurn'
  <2> DEFINE at == IF LockLapsed THEN "unlock" ELSE AfterLock(pw = account.hash)
             n == account.attempts
             g == (pw = account.hash)
             t == [NewTask("login", at) EXCEPT !.good = g, !.attempts = n]
  <2>1. at \in {"unlock", "count", "clear"} /\ n \in Nat /\ Alive /\ ~LockedOut /\ g \in BOOLEAN
    BY <1>0, <1>4 DEF StartLogin, AfterLock, Alive, Exists, User
  <2>2. at # "unlock" => ~LockLapsed
    OBVIOUS
  <2>3. Start(w, t)
    BY <1>4 DEF StartLogin
  <2> HIDE DEF at, n, g
  <2>4. t \in Task /\ t.call = "login" /\ t.at = at
    BY <2>1 DEF NewTask, Task, CallNames
  <2> HIDE DEF t
  <2>5. ~administered /\ at # "unlock" => account.status # "LOCKED"
    <3>1. account \in User /\ Exists
      BY <1>0, <2>1 DEF Alive
    <3>2. QED
      BY <2>1, <2>2, <3>1 DEF AccountInTurn, LockHasReason, LockLapsed, LockedOut, User
  <2>6. QED
    BY <1>1, <2>1, <2>3, <2>4, <2>5
<1>5. ASSUME NEW w \in Workers, NEW pw \in Passwords, StartChange(w, pw) PROVE AccountInTurn'
  <2> DEFINE t == [NewTask("change", "commit") EXCEPT !.pw = pw]
  <2>1. t \in Task /\ t.call = "change" /\ t.at = "commit"
    BY DEF NewTask, Task, CallNames
  <2>2. Start(w, t)
    BY <1>5 DEF StartChange
  <2> HIDE DEF t
  <2>3. QED
    BY <1>1, <2>1, <2>2
<1>6. ASSUME NEW w \in Workers, NEW tok \in Tokens, NEW pw \in Passwords, StartReset(w, tok, pw)
      PROVE  AccountInTurn'
  <2> DEFINE t == [NewTask("reset", "commit") EXCEPT !.pw = pw, !.ref = tok]
  <2>1. t \in Task /\ t.call = "reset" /\ t.at = "commit"
    BY DEF NewTask, Task, CallNames
  <2>2. Start(w, t)
    BY <1>6 DEF StartReset
  <2> HIDE DEF t
  <2>3. QED
    BY <1>1, <2>1, <2>2
\* The calls that are given nothing
<1>7. ASSUME NEW w \in Workers, NEW call \in {"logout", "forgot", "resend", "delete"},
             NEW at \in {"all", "token", "mark"}, Start(w, NewTask(call, at))
      PROVE  AccountInTurn'
  <2> DEFINE t == NewTask(call, at)
  <2>1. t \in Task /\ t.call = call /\ t.at = at
    BY <1>2 DEF CallNames
  <2>2. Start(w, t)
    BY <1>7
  <2> HIDE DEF t
  <2>3. QED
    BY <1>1, <2>1, <2>2
<1>8. ASSUME NEW w \in Workers, StartLogoutAll(w) \/ StartForgot(w) \/ StartResend(w)
                                  \/ StartDelete(w)
      PROVE  AccountInTurn'
  BY <1>7, <1>8 DEF StartLogoutAll, StartForgot, StartResend, StartDelete
<1>9. ASSUME NEW w \in Workers, NEW s \in Sessions, StartLogoutOne(w, s) PROVE AccountInTurn'
  <2> DEFINE t == [NewTask("logout", "one") EXCEPT !.ref = s]
  <2>1. t \in Task /\ t.call = "logout" /\ t.at = "one"
    BY DEF NewTask, Task, CallNames
  <2>2. Start(w, t)
    BY <1>9 DEF StartLogoutOne
  <2> HIDE DEF t
  <2>3. QED
    BY <1>1, <2>1, <2>2
<1>10. ASSUME NEW w \in Workers, NEW s \in Sessions, StartRefresh(w, s) PROVE AccountInTurn'
  <2> DEFINE t == [NewTask("refresh", "rotate") EXCEPT !.ref = s]
  <2>1. t \in Task /\ t.call = "refresh" /\ t.at = "rotate" /\ t.ref = s
    BY DEF NewTask, Task, CallNames
  <2>2. Start(w, t) /\ ~session[s].revoked
    BY <1>10 DEF StartRefresh
  <2> HIDE DEF t
  <2>3. QED
    BY <1>1, <2>1, <2>2
<1>11. ASSUME NEW w \in Workers, NEW tok \in Tokens, StartVerify(w, tok) PROVE AccountInTurn'
  <2> DEFINE t == [NewTask("verify", "commit") EXCEPT !.ref = tok]
  <2>1. t \in Task /\ t.call = "verify" /\ t.at = "commit"
    BY DEF NewTask, Task, CallNames
  <2>2. Start(w, t)
    BY <1>11 DEF StartVerify
  <2> HIDE DEF t
  <2>3. QED
    BY <1>1, <2>1, <2>2
<1>12. ASSUME NEW w \in Workers, NEW st \in UserStatus \cup {None}, NEW Q \in SUBSET Roles,
              StartUpdate(w, st, Q)
       PROVE  AccountInTurn'
  <2> DEFINE at == IF Q = {} THEN "write" ELSE "drop"
             t == [NewTask("update", at) EXCEPT !.status = st, !.roles = Q]
  <2>1. at \in {"write", "drop"} /\ (at = "drop" => Q # {}) /\ Start(w, t)
    BY <1>12 DEF StartUpdate
  <2> HIDE DEF at
  <2>2. t \in Task /\ t.call = "update" /\ t.at = at /\ t.roles = Q
    BY <2>1 DEF NewTask, Task, CallNames
  <2> HIDE DEF t
  <2>3. QED
    BY <1>1, <2>1, <2>2
<1>13. {Operator} \in (SUBSET Roles) \ {{}}
  BY AccountsAssumption
<1>14. ASSUME NEW w \in Workers, AuthCall(w) PROVE AccountInTurn'
  BY <1>3, <1>4, <1>5, <1>6, <1>8, <1>9, <1>10, <1>11, <1>13, <1>14 DEF AuthCall
<1>15. ASSUME NEW w \in Workers, UserCall(w) PROVE AccountInTurn'
  BY <1>3, <1>8, <1>12, <1>15 DEF UserCall
\* How a call goes on
<1>16. ASSUME NEW w \in Workers, task[w] # None, NEW at \in {"token", "count", "clear", "session",
                                                           "key", "add", "write", "revoke"},
              Continue(w, at)
       PROVE  /\ Alone(w) /\ task'[w] # None /\ task'[w].at = at
              /\ task'[w].call = task[w].call /\ task'[w].roles = task[w].roles
  <2>1. task'[w] = [task[w] EXCEPT !.at = at] /\ Alone(w) /\ task'[w].at = at
        /\ task'[w].call = task[w].call /\ task' \in [Workers -> Task \cup {None}]
    BY <1>16, ContinueShape
  <2>2. [task[w] EXCEPT !.at = at] \in Task /\ [task[w] EXCEPT !.at = at].roles = task[w].roles
    BY <1>0, <1>16 DEF Task
  <2>3. QED
    BY <2>1, <2>2, PlaceholderAssumption
<1>17. ASSUME NEW w \in Workers, Finish(w) PROVE task'[w] = None /\ Alone(w)
  BY <1>17, FinishShape
\* A statement that leaves the roles, and adds no session to a deleted account
<1>18. ASSUME NEW w \in Workers, task[w] # None, Alone(w), AccountTurn(w)',
              ~Running(w, "revoke"), ~Running(w, "add"),
              Exists' => /\ Exists
                         /\ account'.deleted = account.deleted /\ account'.roles = account.roles
                         /\ \/ account'.status # "LOCKED" \/ administered
                            \/ /\ account'.status = account.status
                               /\ account'.attempts = account.attempts
                               /\ account'.until \in {account.until, "PAST"},
              \A s \in Sessions : session'[s] # None =>
                  \/ Exists /\ ~account.deleted
                  \/ session[s] # None /\ (session[s].revoked => session'[s].revoked)
       PROVE  AccountInTurn'
  <2>1. Gone /\ Roled
    BY <1>0, <1>18, AccountAlone
  <2>2. Gone' /\ Roled'
    BY <1>18, <2>1 DEF Gone, Roled
  <2>3. ~administered => LockHasReason'
    BY <1>0, <1>18 DEF AccountInTurn, LockHasReason
  <2>4. QED
    BY <1>0, <1>18, <2>2, <2>3, AccountMoves
\* One that leaves the row of the account alone
<1>19. ASSUME NEW w \in Workers, task[w] # None, Alone(w), AccountTurn(w)', UNCHANGED account,
              ~Running(w, "revoke"), ~Running(w, "add"),
              \A s \in Sessions : session'[s] # None =>
                  \/ Exists /\ ~account.deleted
                  \/ session[s] # None /\ (session[s].revoked => session'[s].revoked)
       PROVE  AccountInTurn'
  BY <1>18, <1>19 DEF Exists
<1>20. ASSUME NEW w \in Workers, task'[w] = None PROVE AccountTurn(w)'
  BY <1>20 DEF AccountTurn
<1>21. ASSUME NEW w \in Workers, CreateUser(w) PROVE AccountInTurn'
  <2>1. task[w] # None /\ task[w].at = "create" /\ task[w] \in Task /\ task[w].roles # {}
        /\ UNCHANGED session /\ ~Running(w, "revoke") /\ ~Running(w, "add")
        /\ task[w].call \in {"register", "createUser"}
    BY <1>0, <1>21 DEF CreateUser, Running, AccountTurn, ShapeOf, Stages
  <2>2. CASE Exists
    BY <1>17, <1>19, <1>20, <1>21, <2>1, <2>2 DEF CreateUser
  <2>3. CASE ~Exists
    <3>1. /\ account'.status = "ACTIVE" /\ account'.deleted = FALSE
          /\ account'.roles = task[w].roles
          /\ Finish(w) \/ (task[w].call = "register" /\ Continue(w, "token"))
      BY <1>21, <2>3 DEF CreateUser
    <3>2. Gone' /\ Roled' /\ LockHasReason'
      BY <2>1, <3>1 DEF Gone, Roled, LockHasReason
    <3>3. Alone(w) /\ AccountTurn(w)'
      <4>1. CASE Finish(w)
        BY <1>17, <1>20, <4>1
      <4>2. CASE task[w].call = "register" /\ Continue(w, "token")
        <5>1. /\ Alone(w) /\ task'[w] # None /\ task'[w].at = "token"
              /\ task'[w].call = "register"
          BY <1>16, <2>1, <4>2
        <5>2. QED
          BY <5>1 DEF AccountTurn
      <4>3. QED
        BY <3>1, <4>1, <4>2
    <3>4. QED
      BY <1>0, <2>1, <3>2, <3>3, AccountMoves
  <2>4. QED
    BY <2>2, <2>3
<1>22. ASSUME NEW w \in Workers, task[w] # None,
              task[w].at \in {"unlock", "count", "clear", "session"}
       PROVE  /\ task[w].call = "login" /\ task[w] \in Task /\ AccountTurn(w)
              /\ Exists /\ account \in User /\ Alive
              /\ ~Running(w, "revoke") /\ ~Running(w, "add")
  <2>1. task[w].call = "login"
    BY <1>0, <1>22 DEF ShapeOf, Stages
  <2>2. QED
    BY <1>0, <1>22, <2>1 DEF AccountTurn, Alive, Running
<1>23. ASSUME NEW w \in Workers, Unlock(w) PROVE AccountInTurn'
  <2>1. /\ task[w] # None /\ task[w].at = "unlock" /\ UNCHANGED session
        /\ account' = [account EXCEPT !.status = "ACTIVE", !.attempts = 0, !.until = "NONE"]
        /\ Continue(w, AfterLock(task[w].good)) /\ AfterLock(task[w].good) \in {"clear", "count"}
    BY <1>23 DEF Unlock, Running, AfterLock
  <2>2. /\ Alone(w) /\ task'[w] # None /\ task'[w].at \in {"clear", "count"}
        /\ task'[w].call = "login"
    BY <1>16, <1>22, <2>1
  <2>3. /\ account'.status = "ACTIVE" /\ account'.deleted = account.deleted
        /\ account'.roles = account.roles /\ account' \in User
    BY <1>22, <2>1 DEF User, UserStatus
  <2>4. Exists' /\ Alive' /\ ~LockedOut'
    BY <1>0, <1>22, <2>1, <2>3 DEF Exists, Alive, LockedOut
  <2>5. AccountTurn(w)'
    BY <2>2, <2>3, <2>4 DEF AccountTurn
  <2>6. QED
    BY <1>18, <1>22, <2>1, <2>2, <2>3, <2>5
<1>24. ASSUME NEW w \in Workers, CountFailure(w) PROVE AccountInTurn'
  <2> DEFINE n == task[w].attempts + 1
  <2>1. /\ task[w] # None /\ task[w].at = "count" /\ UNCHANGED session /\ Finish(w)
        /\ account' = IF n >= MaxAttempts
                      THEN [account EXCEPT !.attempts = n, !.status = "LOCKED",
                                           !.until = "FUTURE"]
                      ELSE [account EXCEPT !.attempts = n]
    BY <1>24 DEF CountFailure, Running
  <2>2. /\ Alone(w) /\ task'[w] = None /\ AccountTurn(w)'
    BY <1>17, <1>20, <2>1
  <2>3. task[w].attempts \in Nat /\ n \in Nat
    BY <1>22, <2>1 DEF Task
  <2> HIDE DEF n
  <2>4. /\ account'.deleted = account.deleted /\ account'.roles = account.roles
        /\ \/ account'.attempts = n /\ n >= MaxAttempts /\ account'.until = "FUTURE"
           \/ account'.status = account.status
    BY <1>22, <2>1, <2>3 DEF User, UserStatus
  <2>5. Gone' /\ Roled'
    <3>1. Gone /\ Roled
      BY <1>0, <1>22, <2>1, <2>2, AccountAlone
    <3>2. QED
      BY <1>22, <2>1, <2>4, <3>1 DEF Gone, Roled, Exists
  <2>6. ~administered => LockHasReason'
    BY <1>22, <2>1, <2>4 DEF LockHasReason, AccountTurn
  <2>7. QED
    BY <1>0, <2>1, <2>2, <2>5, <2>6, AccountMoves
<1>25. ASSUME NEW w \in Workers, ClearFailures(w) PROVE AccountInTurn'
  <2>1. /\ task[w] # None /\ task[w].at = "clear" /\ UNCHANGED session
        /\ account' = [account EXCEPT !.attempts = 0, !.until = "NONE"]
        /\ Continue(w, "session")
    BY <1>25 DEF ClearFailures, Running
  <2>2. /\ Alone(w) /\ task'[w] # None /\ task'[w].at = "session" /\ task'[w].call = "login"
    BY <1>16, <1>22, <2>1
  <2>3. /\ account'.status = account.status /\ account'.deleted = account.deleted
        /\ account'.roles = account.roles /\ account'.until = "NONE" /\ account' \in User
    BY <1>22, <2>1 DEF User
  <2>4. Exists' /\ Alive' /\ ~LockedOut'
    BY <1>0, <1>22, <2>1, <2>3 DEF Exists, Alive, LockedOut
  <2>5. ~administered => account.status # "LOCKED"
    BY <1>22, <2>1 DEF AccountTurn
  <2>6. AccountTurn(w)'
    BY <1>0, <2>2, <2>3, <2>4, <2>5 DEF AccountTurn
  <2>7. QED
    BY <1>18, <1>22, <2>1, <2>2, <2>3, <2>5, <2>6
<1>26. ASSUME NEW w \in Workers, NEW s \in Sessions, CreateSession(w, s) PROVE AccountInTurn'
  <2>1. task[w] # None /\ task[w].at = "session" /\ UNCHANGED account /\ Finish(w)
    BY <1>26 DEF CreateSession, Running
  <2>2. QED
    BY <1>17, <1>19, <1>20, <1>22, <2>1 DEF Alive
\* The statements of a logout and a refresh
<1>27. ASSUME NEW w \in Workers, RevokeOne(w) \/ RevokeAll(w) PROVE AccountInTurn'
  <2>1. /\ task[w] # None /\ task[w].at \in {"one", "all"} /\ UNCHANGED account
        /\ RevokeRows({task[w].ref}) \/ RevokeRows(Sessions)
        /\ Finish(w) \/ Continue(w, "key")
    BY <1>27 DEF RevokeOne, RevokeAll, Running
  <2>2. \A s \in Sessions : session'[s] # None =>
           session[s] # None /\ (session[s].revoked => session'[s].revoked)
    BY <1>0, <2>1, RevokeType
  <2>3. task[w].call = "logout"
    BY <1>0, <2>1 DEF ShapeOf, Stages
  <2>4. Alone(w) /\ AccountTurn(w)'
    <3>1. CASE Finish(w)
      BY <1>17, <1>20, <3>1
    <3>2. CASE Continue(w, "key")
      <4>1. Alone(w) /\ task'[w].at = "key" /\ task'[w].call = "logout"
        BY <1>16, <2>1, <2>3, <3>2
      <4>2. QED
        BY <4>1 DEF AccountTurn
    <3>3. QED
      BY <2>1, <3>1, <3>2
  <2>5. QED
    BY <1>19, <2>1, <2>2, <2>4 DEF Running
<1>28. ASSUME NEW w \in Workers, SetRevokedKey(w) \/ EmitToken(w) PROVE AccountInTurn'
  <2>1. /\ task[w] # None /\ task[w].at \in {"key", "emit"} /\ UNCHANGED <<account, session>>
        /\ Finish(w)
    BY <1>28 DEF SetRevokedKey, EmitToken, Running
  <2>2. QED
    BY <1>17, <1>19, <1>20, <2>1 DEF Running
<1>29. ASSUME NEW w \in Workers, RotateToken(w) PROVE AccountInTurn'
  <2>1. /\ task[w] # None /\ task[w].at = "rotate" /\ UNCHANGED account /\ Finish(w)
        /\ session' = [session EXCEPT ![task[w].ref].keyed = TRUE]
    BY <1>29 DEF RotateToken, Running
  <2>2. task[w].ref \in Sessions /\ session[task[w].ref] # None
    BY <1>0, <2>1 DEF ShapeOf
  <2>3. session[task[w].ref] \in SessionRow
    BY <1>0, <2>2 DEF TypeOK
  <2>4. [session[task[w].ref] EXCEPT !.keyed = TRUE].revoked = session[task[w].ref].revoked
    BY <2>3 DEF SessionRow
  <2>5. \A s \in Sessions : session'[s] # None =>
           session[s] # None /\ (session[s].revoked => session'[s].revoked)
    BY <1>0, <2>1, <2>2, <2>4 DEF TypeOK
  <2>6. QED
    BY <1>17, <1>19, <1>20, <2>1, <2>5 DEF Running
<1>30. ASSUME NEW w \in Workers, NEW tok \in Tokens, CreateToken(w, tok) PROVE AccountInTurn'
  <2>1. /\ task[w] # None /\ task[w].at = "token" /\ UNCHANGED <<account, session>>
        /\ task' = [task EXCEPT ![w].at = "emit", ![w].ref = tok]
    BY <1>30 DEF CreateToken, Running
  <2>2. task[w] \in Task /\ task[w].call \in {"register", "forgot", "resend"}
    BY <1>0, <2>1 DEF ShapeOf, Stages
  <2>3. /\ task'[w] = [task[w] EXCEPT !.at = "emit", !.ref = tok] /\ Alone(w)
    BY <1>0, <2>1 DEF TypeOK, Alone
  <2>4. task'[w].at = "emit" /\ task'[w].call \in {"register", "forgot", "resend"}
    BY <2>2, <2>3 DEF Task
  <2>5. AccountTurn(w)'
    BY <2>4 DEF AccountTurn
  <2>6. QED
    BY <1>19, <2>1, <2>3, <2>5 DEF Running
\* The transactions of change, reset and verify
<1>31. ASSUME NEW w \in Workers, CommitChange(w) \/ CommitReset(w) \/ CommitVerify(w)
       PROVE  AccountInTurn'
  <2>1. /\ task[w] # None /\ task[w].at = "commit" /\ UNCHANGED session /\ Finish(w)
        /\ \/ account' = [account EXCEPT !.hash = task[w].pw]
           \/ account' = [account EXCEPT !.hash = task[w].pw, !.attempts = 0, !.status = "ACTIVE"]
           \/ account' = [account EXCEPT !.verified = TRUE]
           \/ account' = account
    BY <1>31 DEF CommitChange, CommitReset, CommitVerify, Running
  <2>2. Exists /\ account \in User
    BY <1>0, <2>1 DEF ShapeOf, Stages
  <2>3. /\ account'.deleted = account.deleted /\ account'.roles = account.roles
        /\ \/ account'.status = "ACTIVE"
           \/ /\ account'.status = account.status /\ account'.attempts = account.attempts
              /\ account'.until = account.until
    BY <2>1, <2>2 DEF User
  <2>4. QED
    BY <1>17, <1>18, <1>20, <2>1, <2>2, <2>3 DEF Running
\* updateUser and deleteUser
<1>32. ASSUME NEW w \in Workers, DropRoles(w) PROVE AccountInTurn'
  <2>1. /\ task[w] # None /\ task[w].at = "drop" /\ UNCHANGED session /\ Continue(w, "add")
        /\ account' = [account EXCEPT !.roles = {}]
    BY <1>32 DEF DropRoles, Running
  <2>2. task[w].call = "update" /\ Exists /\ account \in User /\ task[w].roles # {}
    BY <1>0, <2>1 DEF ShapeOf, Stages, AccountTurn
  <2>3. administered
    BY <1>0, <2>1, <2>2 DEF AccountTurn
  <2>4. /\ Alone(w) /\ task'[w] # None /\ task'[w].at = "add" /\ task'[w].call = "update"
        /\ task'[w].roles # {}
    BY <1>16, <2>1, <2>2
  <2>5. account'.deleted = account.deleted
    BY <2>1, <2>2 DEF User
  <2>6. Gone'
    <3>1. Gone
      BY <1>0, <2>1, <2>4, AccountAlone DEF Running
    <3>2. QED
      BY <2>1, <2>2, <2>5, <3>1 DEF Gone
  <2>7. AccountTurn(w)' /\ Running(w, "add")'
    BY <1>0, <2>3, <2>4 DEF AccountTurn, Running
  <2>8. QED
    BY <1>0, <2>1, <2>3, <2>4, <2>6, <2>7, AccountMoves
<1>33. ASSUME NEW w \in Workers, AddRoles(w) PROVE AccountInTurn'
  <2>1. /\ task[w] # None /\ task[w].at = "add" /\ UNCHANGED session
        /\ \/ /\ account' = [account EXCEPT !.roles = account.roles \cup task[w].roles]
              /\ Continue(w, "write")
           \/ account' = account /\ Finish(w) /\ task[w].roles \cap account.roles # {}
    BY <1>33 DEF AddRoles, Running
  <2>2. task[w].call = "update" /\ Exists /\ account \in User /\ task[w].roles # {}
    BY <1>0, <2>1 DEF ShapeOf, Stages, AccountTurn
  <2>3. administered
    BY <1>0, <2>1, <2>2 DEF AccountTurn
  <2>4. Alone(w) /\ AccountTurn(w)'
    <3>1. CASE Finish(w)
      BY <1>17, <1>20, <3>1
    <3>2. CASE Continue(w, "write")
      <4>1. Alone(w) /\ task'[w].at = "write" /\ task'[w].call = "update"
        BY <1>16, <2>1, <2>2, <3>2
      <4>2. QED
        BY <1>0, <2>3, <4>1 DEF AccountTurn
    <3>3. QED
      BY <2>1, <3>1, <3>2
  <2>5. account'.deleted = account.deleted /\ account'.roles # {}
    BY <2>1, <2>2 DEF User
  <2>6. Gone' /\ Roled'
    <3>1. Gone
      BY <1>0, <2>1, <2>4, AccountAlone DEF Running
    <3>2. QED
      BY <2>1, <2>2, <2>5, <3>1 DEF Gone, Roled
  <2>7. QED
    BY <1>0, <2>1, <2>3, <2>4, <2>6, AccountMoves
<1>34. ASSUME NEW w \in Workers, WriteUser(w) PROVE AccountInTurn'
  <2> DEFINE st == IF task[w].status = None THEN account.status ELSE task[w].status
  <2>1. /\ task[w] # None /\ task[w].at = "write" /\ UNCHANGED session /\ Finish(w)
        /\ account' = [account EXCEPT !.status = st]
    BY <1>34 DEF WriteUser, Running
  <2> HIDE DEF st
  <2>2. task[w].call = "update" /\ Exists /\ account \in User
    BY <1>0, <2>1 DEF ShapeOf, Stages
  <2>3. administered
    BY <1>0, <2>1, <2>2 DEF AccountTurn
  <2>4. account'.deleted = account.deleted /\ account'.roles = account.roles
    BY <2>1, <2>2 DEF User
  <2>5. QED
    BY <1>17, <1>18, <1>20, <2>1, <2>2, <2>3, <2>4 DEF Running
<1>35. ASSUME NEW w \in Workers, MarkDeleted(w) PROVE AccountInTurn'
  <2>1. /\ task[w] # None /\ task[w].at = "mark" /\ UNCHANGED session /\ Continue(w, "revoke")
        /\ account' = [account EXCEPT !.deleted = TRUE, !.status = "SUSPENDED"]
    BY <1>35 DEF MarkDeleted, Running
  <2>2. task[w].call = "delete" /\ Exists /\ account \in User
    BY <1>0, <2>1 DEF ShapeOf, Stages
  <2>3. /\ Alone(w) /\ task'[w] # None /\ task'[w].at = "revoke" /\ task'[w].call = "delete"
    BY <1>16, <2>1, <2>2
  <2>4. account'.roles = account.roles /\ account'.status = "SUSPENDED"
    BY <2>1, <2>2 DEF User
  <2>5. Roled' /\ LockHasReason'
    <3>1. Roled
      BY <1>0, <2>1, <2>3, AccountAlone DEF Running
    <3>2. QED
      BY <2>2, <2>4, <3>1 DEF Roled, LockHasReason
  <2>6. AccountTurn(w)' /\ Running(w, "revoke")'
    BY <2>3 DEF AccountTurn, Running
  <2>7. QED
    BY <1>0, <2>1, <2>3, <2>5, <2>6, AccountMoves
<1>36. ASSUME NEW w \in Workers, RevokeSessions(w) PROVE AccountInTurn'
  <2>1. /\ task[w] # None /\ task[w].at = "revoke" /\ RevokeRows(Sessions) /\ Finish(w)
        /\ UNCHANGED account
    BY <1>36 DEF RevokeSessions, Running
  <2>2. Alone(w) /\ AccountTurn(w)'
    BY <1>17, <1>20, <2>1
  <2>3. Gone'
    BY <1>0, <2>1, RevokeType DEF Gone
  <2>4. Roled' /\ (~administered => LockHasReason')
    <3>1. Roled
      BY <1>0, <2>1, <2>2, AccountAlone DEF Running
    <3>2. QED
      BY <2>1, <3>1 DEF Roled, Exists, LockHasReason, AccountInTurn
  <2>5. QED
    BY <1>0, <2>1, <2>2, <2>3, <2>4, AccountMoves
<1>37. ASSUME NEW w \in Workers, TaskStep(w) PROVE AccountInTurn'
  BY <1>21, <1>23, <1>24, <1>25, <1>26, <1>27, <1>28, <1>29, <1>30, <1>31, <1>32, <1>33, <1>34,
     <1>35, <1>36, <1>37 DEF TaskStep
\* Time passes, also while a call is in flight.
<1>38. CASE Lapse
  <2>1. UNCHANGED task
    BY <1>38 DEF Lapse, LapseLock, LapseToken, ExpireSession
  <2>2. /\ Exists' <=> Exists
        /\ Exists => /\ account'.status = account.status /\ account'.deleted = account.deleted
                     /\ account'.roles = account.roles /\ account'.attempts = account.attempts
                     /\ account'.until \in {account.until, "PAST"}
    <3>1. CASE LapseLock
      <4>1. account \in User /\ account' = [account EXCEPT !.until = "PAST"]
        BY <1>0, <3>1 DEF LapseLock
      <4>2. account' \in User
        BY <4>1 DEF User
      <4>3. QED
        BY <1>0, <4>1, <4>2 DEF User, Exists
    <3>2. CASE UNCHANGED account
      BY <3>2 DEF Exists
    <3>3. QED
      BY <1>38, <3>1, <3>2 DEF Lapse, LapseToken, ExpireSession
  <2>3. \A s \in Sessions : /\ session'[s] # None => session[s] # None
                            /\ session[s] # None => session'[s].revoked = session[s].revoked
    <3>1. ASSUME NEW s \in Sessions, ExpireSession(s)
          PROVE  \A x \in Sessions : /\ session'[x] # None => session[x] # None
                                     /\ session[x] # None => session'[x].revoked = session[x].revoked
      <4>1. session[s] \in SessionRow /\ session[s] # None
            /\ session' = [session EXCEPT ![s].expired = TRUE]
        BY <1>0, <3>1 DEF ExpireSession, TypeOK
      <4>2. [session[s] EXCEPT !.expired = TRUE].revoked = session[s].revoked
        BY <4>1 DEF SessionRow
      <4>3. QED
        BY <1>0, <4>1, <4>2 DEF TypeOK
    <3>2. CASE UNCHANGED session
      BY <3>2
    <3>3. QED
      BY <1>38, <3>1, <3>2 DEF Lapse, LapseToken, LapseLock
  <2>4. \A w \in Workers : task[w] # None /\ task[w].call = "refresh" =>
           task[w].ref \in Sessions /\ session[task[w].ref] # None
    BY <1>0 DEF ShapeOf, Stages
  <2>5. \A w \in Workers : AccountTurn(w)'
    <3> SUFFICES ASSUME NEW w \in Workers, task[w] # None PROVE AccountTurn(w)'
      BY <2>1 DEF AccountTurn
    <3>1. task[w].call = "login" => Alive' /\ ~LockedOut'
      BY <1>0, <2>2 DEF AccountTurn, Alive, LockedOut
    <3>2. QED
      BY <1>0, <2>1, <2>2, <2>3, <2>4, <3>1 DEF AccountTurn, Alive
  <2>6. (Gone => Gone') /\ (Roled => Roled') /\ (LockHasReason => LockHasReason')
    BY <2>2, <2>3 DEF Gone, Roled, LockHasReason
  <2>7. QED
    BY <1>0, <2>1, <2>5, <2>6 DEF AccountInTurn, OneBusy, Running
<1>39. QED
  BY <1>14, <1>15, <1>37, <1>38 DEF AccountStep, Advance, Fails
-----------------------------------------------------------------------------
\* The services side by side.  A part for each: what holds of it in the mode chosen.

AccountPart == TypeInv /\ (mode = "alone" => AccountInTurn)
FleetPart == FleetInv /\ (mode = "alone" => FleetInTurn)
ReportPart == ReportInv /\ (mode # "any" => ReportDone)
AuditPart == AuditInv /\ (mode # "any" => AuditDone)
StatPart == StatInv /\ (mode # "any" => RollupInv) /\ (mode = "alone" => StatInTurn)
BreakerPart == BreakerInv /\ (mode = "alone" => BreakerInTurn)

OfficeInv ==
    /\ mode \in {"any", "sound", "alone"} /\ administered \in BOOLEAN
    /\ AccountPart /\ FleetPart /\ AdminInv /\ ReportPart /\ AuditPart /\ StatPart /\ BreakerPart

\* Each step is one of a service, and leaves the others alone.
LEMMA OfficeSteps ==
    ASSUME [OfficeNext]_officeVars
    PROVE  /\ UNCHANGED <<mode, administered>>
           /\ AccountStep \/ UNCHANGED vars
           /\ FleetStep \/ UNCHANGED fleetVars
           /\ AdminStep \/ UNCHANGED adminVars
           /\ ReportStep \/ UNCHANGED reportVars
           /\ AuditStep \/ UNCHANGED auditVars
           /\ StatStep \/ UNCHANGED statVars
           /\ BreakerStep \/ UNCHANGED breakerVars
<1>1. CASE AccountStep
  BY <1>1 DEF AccountStep
<1>2. CASE FleetStep
  BY <1>2 DEF FleetStep
<1>3. CASE AdminStep
  BY <1>3 DEF AdminStep
<1>4. CASE ReportStep
  BY <1>4 DEF ReportStep
<1>5. CASE AuditStep
  BY <1>5 DEF AuditStep
<1>6. CASE StatStep
  BY <1>6 DEF StatStep
<1>7. CASE BreakerStep
  BY <1>7 DEF BreakerStep
<1>8. CASE UNCHANGED officeVars
  BY <1>8 DEF officeVars
<1>9. QED
  BY <1>1, <1>2, <1>3, <1>4, <1>5, <1>6, <1>7, <1>8 DEF OfficeNext

\* The steps of a service are those its own module allows.
LEMMA OwnSteps ==
    /\ AccountStep => Next
    /\ FleetStep => F!Next
    /\ AdminStep => S!Next
    /\ ReportStep => R!Next
    /\ StatStep => N!Next
    /\ BreakerStep => B!Next
<1>1. AccountStep => Next
  BY DEF AccountStep, Next
<1>2. FleetStep => F!Next
  BY DEF FleetStep, F!Next
<1>3. AdminStep => S!Next
  BY DEF AdminStep, S!Next
<1>4. ReportStep => R!Next
  BY DEF ReportStep, R!Next
<1>5. StatStep => N!Next
  BY DEF StatStep, N!Next
<1>6. BreakerStep => B!Next
  BY DEF BreakerStep
<1>7. QED
  BY <1>1, <1>2, <1>3, <1>4, <1>5, <1>6

LEMMA OwnVariables ==
    /\ UNCHANGED fleetVars <=> UNCHANGED F!vars
    /\ UNCHANGED adminVars <=> UNCHANGED S!vars
    /\ UNCHANGED reportVars <=> UNCHANGED R!vars
    /\ UNCHANGED statVars <=> UNCHANGED N!vars
    /\ UNCHANGED breakerVars <=> UNCHANGED B!vars
  BY DEF fleetVars, adminVars, reportVars, statVars, breakerVars, F!vars, S!vars, R!vars, N!vars,
         B!vars

LEMMA OfficeInvInit == OfficeInit => OfficeInv
<1> SUFFICES ASSUME OfficeInit PROVE OfficeInv
  OBVIOUS
<1>1. Init /\ F!Init /\ S!Init /\ R!Init /\ A!Init /\ N!Init /\ B!Init
  BY DEF OfficeInit
<1>2. AccountPart
  BY <1>1, TypeInit, AccountInTurnInit DEF AccountPart
<1>3. FleetPart
  BY <1>1, FleetInvInit, FleetInTurnInit DEF FleetPart
<1>4. AdminInv
  BY <1>1, AdminInvInit
<1>5. ReportPart
  BY <1>1, ReportInvInit, ReportDoneInit DEF ReportPart
<1>6. AuditPart
  BY <1>1, AuditInvInit DEF AuditPart, A!Init
<1>7. StatPart
  BY <1>1, StatInvInit, RollupInvInit, StatInTurnInit DEF StatPart
<1>8. BreakerPart
  BY <1>1, BreakerInvInit, BreakerInTurnInit DEF BreakerPart
<1>9. QED
  BY <1>2, <1>3, <1>4, <1>5, <1>6, <1>7, <1>8 DEF OfficeInv, OfficeInit

LEMMA AccountPartStep ==
    ASSUME AccountPart, UNCHANGED <<mode, administered>>, AccountStep \/ UNCHANGED vars
    PROVE  AccountPart'
<1>1. TypeInv'
  BY TypeStep, OwnSteps DEF AccountPart
<1>2. ASSUME mode = "alone", UNCHANGED vars PROVE AccountInTurn'
  BY <1>2 DEF vars, AccountPart, AccountInTurn, OneBusy, AccountTurn, Running, Gone, Roled, Alive,
              LockedOut, LockHasReason, Exists
<1>3. mode = "alone" => AccountInTurn'
  BY <1>2, AccountInTurnStep DEF AccountPart
<1>4. QED
  BY <1>1, <1>3 DEF AccountPart

LEMMA FleetPartStep ==
    ASSUME FleetPart, UNCHANGED mode, FleetStep \/ UNCHANGED fleetVars
    PROVE  FleetPart' /\ (mode = "alone" => F!MetadataIsMerged)
<1>1. FleetInv'
  BY FleetInvStep, OwnSteps, OwnVariables DEF FleetPart
<1>2. ASSUME mode = "alone", UNCHANGED fleetVars PROVE FleetInTurn' /\ F!MetadataIsMerged
  BY <1>2 DEF fleetVars, FleetPart, FleetInTurn, OneBusy, FleetSteady, F!DeletedIsDecommissioned,
              F!Exists, F!Alive, F!One, F!MetadataIsMerged
<1>3. mode = "alone" => FleetInTurn' /\ F!MetadataIsMerged
  BY <1>2, FleetInTurnStep DEF FleetPart
<1>4. QED
  BY <1>1, <1>3 DEF FleetPart

LEMMA AdminPartStep ==
    ASSUME AdminInv, UNCHANGED mode, AdminStep \/ UNCHANGED adminVars
    PROVE  AdminInv'
<1>1. CASE UNCHANGED adminVars
  BY <1>1 DEF adminVars, AdminInv, S!TypeOK, AdminShape, AdminFits, Justified, S!WrittenIsGrounded,
              FlagKnown, OneBusy, S!Running, SettingsCurrent, FlagCurrent, S!FlagExists
<1>2. QED
  BY <1>1, AdminInvStep

LEMMA ReportPartStep ==
    ASSUME ReportPart, UNCHANGED mode, ReportStep \/ UNCHANGED reportVars
    PROVE  /\ ReportPart' /\ R!DeletedStays
           /\ DOMAIN generated \subseteq DOMAIN generated'
<1>1. ReportInv' /\ R!DeletedStays
  BY ReportInvStep, OwnSteps, OwnVariables DEF ReportPart
<1>2. mode # "any" => ReportDone'
  <2>1. ASSUME mode # "any", UNCHANGED reportVars PROVE ReportDone'
    BY <2>1 DEF reportVars, ReportPart, ReportDone, Making, Makes
  <2>2. QED
    BY <2>1, ReportDoneStep DEF ReportPart
<1>3. DOMAIN generated \subseteq DOMAIN generated'
  <2>1. generated \in Seq(Rows)
    BY DEF ReportPart, ReportInv, R!TypeOK
  <2>2. \/ UNCHANGED generated
        \/ \E w \in Workers : generated' = Append(generated, R!Row(w))
    BY DEF reportVars, ReportStep, R!Call, R!Daily, R!CreateReport, R!StartDelete, R!GatherData,
           R!CompleteReport, R!CacheData, R!AnnounceReport, R!DeleteReport, R!StartDaily,
           R!FileReport, R!AnnounceDaily, R!SkipSchedule, R!Reject, R!ScheduleReport
  <2>3. QED
    BY <2>1, <2>2
<1>4. QED
  BY <1>1, <1>2, <1>3 DEF ReportPart

LEMMA AuditPartStep ==
    ASSUME AuditPart, generated \in Seq(Rows), UNCHANGED mode,
           DOMAIN generated \subseteq DOMAIN generated', AuditStep \/ UNCHANGED auditVars
    PROVE  AuditPart'
  BY AuditInvStep, AuditDoneStep, AuditSees, AuditDoneSees DEF AuditPart

LEMMA StatPartStep ==
    ASSUME StatPart, UNCHANGED mode, StatStep \/ UNCHANGED statVars
    PROVE  StatPart'
<1>1. StatInv'
  BY StatInvStep, OwnSteps, OwnVariables DEF StatPart
<1>2. CASE StatStep
  BY <1>1, <1>2, RollupInvStep, StatInTurnStep DEF StatPart
<1>3. CASE UNCHANGED statVars
  <2>1. \A f : Rollups(f)' = Rollups(f)
    BY <1>3 DEF statVars, Rollups, Places, Pending, N!Running
  <2>2. RollupInv => RollupInv'
    BY <1>3, <2>1 DEF RollupInv, statVars
  <2>3. StatInTurn => StatInTurn'
    BY <1>3 DEF statVars, StatInTurn, OneBusy, N!UtilizationIsPercentage
  <2>4. QED
    BY <1>1, <2>2, <2>3 DEF StatPart
<1>4. QED
  BY <1>2, <1>3

LEMMA BreakerPartStep ==
    ASSUME BreakerPart, UNCHANGED mode, BreakerStep \/ UNCHANGED breakerVars
    PROVE  BreakerPart' /\ B!OpenIsLeftByTrial
<1>1. BreakerInv' /\ B!OpenIsLeftByTrial
  BY BreakerInvStep, OwnSteps, OwnVariables DEF BreakerPart
<1>2. ASSUME mode = "alone", UNCHANGED breakerVars PROVE BreakerInTurn'
  BY <1>2 DEF breakerVars, BreakerPart, BreakerInTurn, OneBusy, B!Quiet
<1>3. QED
  BY <1>1, <1>2, BreakerInTurnStep DEF BreakerPart

LEMMA OfficeInvStep ==
    ASSUME OfficeInv, [OfficeNext]_officeVars
    PROVE  /\ OfficeInv'
           /\ R!DeletedStays /\ B!OpenIsLeftByTrial
           /\ mode = "alone" => F!MetadataIsMerged
<1>1. UNCHANGED <<mode, administered>>
  BY OfficeSteps
<1>2. AccountPart'
  BY <1>1, OfficeSteps, AccountPartStep DEF OfficeInv
<1>3. FleetPart' /\ (mode = "alone" => F!MetadataIsMerged)
  BY <1>1, OfficeSteps, FleetPartStep DEF OfficeInv
<1>4. AdminInv'
  BY <1>1, OfficeSteps, AdminPartStep DEF OfficeInv
<1>5. ReportPart' /\ R!DeletedStays /\ DOMAIN generated \subseteq DOMAIN generated'
  BY <1>1, OfficeSteps, ReportPartStep DEF OfficeInv
<1>6. AuditPart'
  <2>1. generated \in Seq(Rows)
    BY DEF OfficeInv, ReportPart, ReportInv, R!TypeOK
  <2>2. QED
    BY <1>1, <1>5, <2>1, OfficeSteps, AuditPartStep DEF OfficeInv
<1>7. StatPart'
  BY <1>1, OfficeSteps, StatPartStep DEF OfficeInv
<1>8. BreakerPart' /\ B!OpenIsLeftByTrial
  BY <1>1, OfficeSteps, BreakerPartStep DEF OfficeInv
<1>9. QED
  BY <1>1, <1>2, <1>3, <1>4, <1>5, <1>6, <1>7, <1>8 DEF OfficeInv

\* The invariant of the composition: the part of each service.
LEMMA OfficeHolds == OfficeSpec => []OfficeInv
  BY OfficeInvInit, OfficeInvStep, PTL DEF OfficeSpec

\* Each service behaves as its own module says, whatever the others do: what is proved of
\* Accounts alone (AccountsProofs) holds of it here.
THEOREM EachOfficeRuns ==
    OfficeSpec => Spec /\ F!Spec /\ S!Spec /\ R!Spec /\ N!Spec /\ B!Spec
<1>1. OfficeInit => Init /\ F!Init /\ S!Init /\ R!Init /\ N!Init /\ B!Init
  BY DEF OfficeInit
<1>2. [OfficeNext]_officeVars => /\ [Next]_vars /\ [F!Next]_(F!vars) /\ [S!Next]_(S!vars)
                                 /\ [R!Next]_(R!vars) /\ [N!Next]_(N!vars) /\ [B!Next]_(B!vars)
  BY OfficeSteps, OwnSteps, OwnVariables
<1>3. QED
  BY <1>1, <1>2, PTL DEF OfficeSpec, Spec, F!Spec, S!Spec, R!Spec, N!Spec, B!Spec

\* The states are what the modules say they are: the rows, the caches, the topics and the
\* calls in flight of all services.
THEOREM OfficeTypeCorrect == OfficeSpec => []Types
<1>1. OfficeInv => Types
  BY DEF OfficeInv, Types, AccountPart, FleetPart, ReportPart, AuditPart, StatPart, BreakerPart,
         TypeInv, FleetInv, AdminInv, ReportInv, AuditInv, StatInv, BreakerInv
<1>2. QED
  BY <1>1, OfficeHolds, PTL

\* However calls overlap and fail: what the services announce, cache and put on record has
\* happened, and each audit row is about a report that was completed.
THEOREM OfficeRecordsCorrect == OfficeSpec => []RecordsAreGrounded
<1>1. ASSUME OfficeInv PROVE RecordsAreGrounded
  <2>1. F!FleetIsTold /\ S!WrittenIsGrounded /\ R!ReportIsFiled /\ N!OverviewIsGrounded
        /\ B!ClosedIsBelow
    BY <1>1 DEF OfficeInv, FleetPart, FleetInv, AdminInv, ReportPart, ReportInv, StatPart, StatInv,
                BreakerPart, BreakerInv
  <2>2. generated \in Seq(Rows) /\ AuditInv
    BY <1>1 DEF OfficeInv, ReportPart, ReportInv, R!TypeOK, AuditPart
  <2>3. A!AuditIsGrounded
    BY <2>2, AuditsGrounded
  <2>4. ASSUME NEW r \in DOMAIN logs
        PROVE  /\ logs[r] \in DOMAIN generated
               /\ report[generated[logs[r]]] \in {"COMPLETED", "DELETED"}
    <3>1. logs[r] \in DOMAIN generated
      BY <2>2 DEF AuditInv
    <3>2. generated[logs[r]] \in Rows
      BY <2>2, <3>1
    <3>3. QED
      BY <2>1, <3>1, <3>2 DEF R!ReportIsFiled
  <2>5. QED
    BY <2>1, <2>3, <2>4 DEF RecordsAreGrounded
<1>2. QED
  BY <1>1, OfficeHolds, PTL

\* Where nothing fails, reports, audit rows and rollups are whole however calls overlap;
\* where calls do not overlap either, no deleted account has a session, none is without
\* roles or locked without a reason, the caches are current, a deleted fleet is out of
\* service, a utilisation is a percentage, and a trial call decides about the breaker.
THEOREM CallsCorrect == OfficeSpec => []CallsAgree
<1>1. ASSUME OfficeInv PROVE CallsAgree
  <2>1. ASSUME mode # "any"
        PROVE  R!ReportsAreDone /\ A!AuditIsComplete /\ N!RollupsAreWhole
    BY <1>1, <2>1, ReportsDone, AuditsComplete, RollupsWhole
       DEF OfficeInv, ReportPart, AuditPart, StatPart, StatInv
  <2>2. ASSUME mode = "alone"
        PROVE  /\ DeletedHasNoSession /\ RolesAreKept /\ RefusedStaysOut
               /\ ~administered => LockHasReason
    BY <1>1, <2>2, AccountsInTurn DEF OfficeInv, AccountPart
  <2>3. ASSUME mode = "alone"
        PROVE  /\ F!DeletedIsDecommissioned /\ S!CacheIsCurrent /\ N!UtilizationIsPercentage
               /\ B!TrialDecides
    BY <1>1, <2>3, SettingsCached, BreakerDecides
       DEF OfficeInv, FleetPart, FleetInTurn, StatPart, StatInTurn, BreakerPart
  <2>4. QED
    BY <2>1, <2>2, <2>3 DEF CallsAgree
<1>2. QED
  BY <1>1, OfficeHolds, PTL

\* No step undoes the deletion of a report or closes an open breaker without a trial and,
\* where calls do not overlap, none loses what a fleet's metadata held.
THEOREM NothingUndoneCorrect == OfficeSpec => NothingIsUndone
<1>1. OfficeInv /\ [OfficeNext]_officeVars =>
         [/\ R!DeletedStays /\ B!OpenIsLeftByTrial
          /\ mode = "alone" => F!MetadataIsMerged]_officeVars
  BY OfficeInvStep
<1>2. QED
  BY <1>1, OfficeHolds, PTL DEF OfficeSpec, NothingIsUndone

-----------------------------------------------------------------------------
\* The pages of findAll, which the services share

Calc == INSTANCE Calculations

\* The quotient of a division
LEMMA Quotient ==
    ASSUME NEW k \in Nat, NEW l \in Nat \ {0}
    PROVE  /\ k \div l \in Nat
           /\ (k \div l) * l <= k
           /\ k < (k \div l) * l + l
  BY Z3

LEMMA Multiples ==
    ASSUME NEW m \in Int, NEW n \in Int, NEW l \in Nat, m <= n
    PROVE  m * l \in Int /\ n * l \in Int /\ m * l <= n * l
<1>1. m * l \in Int /\ n * l \in Int /\ (n - m) * l >= 0 /\ (n - m) * l = n * l - m * l
  BY Z3
<1>2. QED
  BY <1>1

\* findAll, for any number of rows and any limit: skip, take and totalPages make pages
\* that have each row once, and none of them is empty.
THEOREM PagesCorrect ==
    ASSUME NEW items \in Nat, NEW limit \in Nat \ {0}
    PROVE  Calc!PagesCover(items, limit)
<1> DEFINE T == Calc!TotalPages(items, limit)
           Before(n) == (n - 1) * limit
           Page(n) == Calc!Page(items, n, limit)
<1>1. /\ T \in Nat /\ T * limit \in Int
      /\ T * limit >= items /\ T * limit < items + limit
  <2>1. items + limit - 1 \in Nat
    OBVIOUS
  <2>2. PICK k \in Int : k = T * limit
    BY <2>1, Quotient, Z3 DEF Calc!TotalPages
  <2>3. T \in Nat /\ T * limit <= items + limit - 1 /\ items + limit - 1 < T * limit + limit
    BY <2>1, Quotient DEF Calc!TotalPages
  <2>4. QED
    BY <2>2, <2>3
<1> HIDE DEF T
<1>2. \A n \in Int : Before(n) \in Int /\ Before(n + 1) = Before(n) + limit
  BY Z3
<1>3. \A m, n \in Int : m <= n => Before(m) <= Before(n)
  BY Multiples
<1>4. Before(T + 1) >= items /\ Before(T) < items
  <2>1. Before(T + 1) = T * limit /\ Before(T) = T * limit - limit
    BY <1>1, Z3
  <2>2. QED
    BY <1>1, <2>1
<1>5. \A n \in Int : Page(n) = {i \in 1 .. items : Before(n) < i /\ i <= Before(n + 1)}
  BY <1>2 DEF Calc!Page
<1>6. \A i \in 1 .. items : \E n \in 1 .. T : i \in Page(n)
  <2>1. SUFFICES ASSUME NEW i \in 1 .. items PROVE \E n \in 1 .. T : i \in Page(n)
    OBVIOUS
  <2>2. PICK q \in Nat : q * limit <= i - 1 /\ i - 1 < q * limit + limit
    <3>1. i - 1 \in Nat
      OBVIOUS
    <3>2. QED
      BY <3>1, Quotient
  <2>3. Before(q + 1) < i /\ i <= Before(q + 2)
    <3>1. Before(q + 1) = q * limit /\ Before(q + 1) \in Int /\ Before(q + 2) = q * limit + limit
      BY Z3
    <3>2. QED
      BY <2>2, <3>1
  <2> HIDE DEF Before
  <2>4. q + 1 <= T
    <3>1. CASE T + 1 <= q + 1
      BY <1>1, <1>2, <1>3, <1>4, <2>3, <3>1
    <3>2. QED
      BY <1>1, <3>1
  <2>5. QED
    BY <1>5, <2>3, <2>4
<1> HIDE DEF Before, Page
<1>7. \A m, n \in 1 .. T : m < n => Page(m) \cap Page(n) = {}
  <2>1. SUFFICES ASSUME NEW m \in 1 .. T, NEW n \in 1 .. T, m < n
                 PROVE  Page(m) \cap Page(n) = {}
    OBVIOUS
  <2>2. Before(m + 1) <= Before(n) /\ Before(m + 1) \in Int /\ Before(n) \in Int
    <3>1. m + 1 \in Int /\ n \in Int /\ m + 1 <= n
      BY <1>1, <2>1
    <3>2. QED
      BY <1>2, <1>3, <3>1
  <2>3. QED
    BY <1>1, <1>5, <2>2
<1>8. \A n \in 1 .. T : Page(n) # {}
  <2>1. SUFFICES ASSUME NEW n \in 1 .. T PROVE Before(n) + 1 \in Page(n)
    OBVIOUS
  <2>2. /\ Before(1) <= Before(n) /\ Before(n) <= Before(T)
        /\ Before(n) \in Int /\ Before(T) \in Int /\ Before(n + 1) = Before(n) + limit
    BY <1>1, <1>2, <1>3
  <2>3. Before(1) = 0
    BY Z3 DEF Before
  <2>4. QED
    BY <1>1, <1>4, <1>5, <2>2, <2>3
<1>9. \A n \in 1 .. T : Page(n) \subseteq 1 .. items
  BY <1>1, <1>5
<1>10. /\ UNION {Page(n) : n \in 1 .. T} = 1 .. items
       /\ \A m, n \in 1 .. T : m # n => Page(m) \cap Page(n) = {}
  <2>1. \A m, n \in 1 .. T : m # n => m < n \/ n < m
    BY <1>1
  <2>2. QED
    BY <1>6, <1>7, <1>9, <2>1
<1>11. QED
  BY <1>8, <1>10 DEF Calc!PagesCover, T, Page
=============================================================================
