---------------------------- MODULE Calculations ----------------------------
(***************************************************************************)
(* What the services compute without a state: VIN check digits, points in  *)
(* polygons, scores, quiet hours, rollout buckets, retry delays and pages. *)
(* Each is followed by what it should agree with.                          *)
(***************************************************************************)
EXTENDS Integers, FiniteSets, SequencesExt

Least(m, n) == IF m < n THEN m ELSE n
Most(m, n) == IF m < n THEN n ELSE m

-----------------------------------------------------------------------------
\* vin-validator.service.ts.  A VIN is a sequence of one-letter strings.

LETTER_WEIGHTS ==
    LET Row(s) == [c \in {s[i] : i \in DOMAIN s} |-> CHOOSE i \in DOMAIN s : s[i] = c]
        Digits == <<"1", "2", "3", "4", "5", "6", "7", "8", "9">>
        AtoH == <<"A", "B", "C", "D", "E", "F", "G", "H">>
        JtoR == <<"J", "K", "L", "M", "N", "none", "P", "none", "R">>
        StoZ == <<"none", "S", "T", "U", "V", "W", "X", "Y", "Z">>
    IN ("0" :> 0) @@ Row(Digits) @@ Row(AtoH) @@ Row(JtoR) @@ Row(StoZ)

POSITION_WEIGHTS == <<8, 7, 6, 5, 4, 3, 2, 10, 0, 9, 8, 7, 6, 5, 4, 3, 2>>

Letters == DOMAIN LETTER_WEIGHTS \ {"none"}

CheckSum(vin) ==
    FoldFunction(+, 0, [i \in 1 .. 17 |-> LETTER_WEIGHTS[vin[i]] * POSITION_WEIGHTS[i]])

CheckDigit(vin) ==
    LET r == CheckSum(vin) % 11 IN
    IF r = 10 THEN "X" ELSE CHOOSE c \in Letters \ {"X"} : c = ToString(r)

ValidVin(vin) ==
    /\ Len(vin) = 17
    /\ \A i \in DOMAIN vin : vin[i] \in Letters
    /\ CheckDigit(vin) = vin[9]

\* Of a VIN that was issued: it is valid; with one letter replaced by one of another weight, or with two
\* neighbours of different weights exchanged, is not valid.
VinDetects(vin, i, c) ==
    LET replaced == [vin EXCEPT ![i] = c]
        swapped == [vin EXCEPT ![i] = vin[i + 1], ![i + 1] = vin[i]]
    IN   /\ ValidVin(vin)
         /\ LETTER_WEIGHTS[c] # LETTER_WEIGHTS[vin[i]] => ~ValidVin(replaced)
         /\ i < 17 /\ 9 \notin {i, i + 1} /\ LETTER_WEIGHTS[vin[i]] # LETTER_WEIGHTS[vin[i + 1]]
               => ~ValidVin(swapped)

-----------------------------------------------------------------------------
\* geofences.service.ts: ray casting.  A point is <<lng, lat>>, a ring a sequence
\* of them; the quotient is compared without dividing.

Crosses(a, b, p) ==
    /\ (a[2] > p[2]) # (b[2] > p[2])
    /\ IF b[2] > a[2]
       THEN (p[1] - a[1]) * (b[2] - a[2]) < (b[1] - a[1]) * (p[2] - a[2])
       ELSE (p[1] - a[1]) * (b[2] - a[2]) > (b[1] - a[1]) * (p[2] - a[2])

Before(ring, i) == IF i = 1 THEN Len(ring) ELSE i - 1

isPointInPolygon(p, ring) ==
    Cardinality({i \in DOMAIN ring : Crosses(ring[i], ring[Before(ring, i)], p)}) % 2 = 1

\* On which side of the line from a to b the point is
Side(a, b, p) == (b[1] - a[1]) * (p[2] - a[2]) - (b[2] - a[2]) * (p[1] - a[1])

\* A point off the edges of a triangle is in it when it is on one side of all of
\* them; where the ring starts, which way it runs, and whether it repeats its
\* first point makes no difference; a quadrilateral is two triangles.
PolygonIsRight(p, a, b, c, d) ==
    LET sides == {Side(a, b, p), Side(b, c, p), Side(c, a, p)}
        in == isPointInPolygon(p, <<a, b, c>>)
    IN /\ (\A s \in sides : s > 0) \/ (\A s \in sides : s < 0) => in
       /\ (\E s, t \in sides : s > 0 /\ t < 0) => ~in
       /\ isPointInPolygon(p, <<b, c, a>>) = in
       /\ isPointInPolygon(p, <<c, b, a>>) = in
       /\ isPointInPolygon(p, <<a, b, c, a>>) = in
       /\ isPointInPolygon(p, <<a, b, c, d>>) = (in # isPointInPolygon(p, <<a, c, d>>))

-----------------------------------------------------------------------------
\* health-score.calculator.ts.  faults: what is found wrong with the vehicle;
\* dtcs: the severities of its ACTIVE codes.

Component == [engine |-> 25, battery |-> 20, temperature |-> 20, oil |-> 20, tyre |-> 15]

Deduction ==
    [engineFault |-> <<"engine", 40>>, lowVoltage |-> <<"battery", 30>>,
     lowLevel |-> <<"battery", 15>>, coolantHot |-> <<"temperature", 35>>,
     engineHot |-> <<"temperature", 35>>, lowOil |-> <<"oil", 40>>,
     lowTyre |-> <<"tyre", 25>>]

Penalty == [CRITICAL |-> 15, HIGH |-> 10, MEDIUM |-> 5, LOW |-> 2]

SumOver(f(_), S) == FoldFunction(+, 0, [x \in S |-> f(x)])

ComponentScore(c, faults) ==
    100 - SumOver(LAMBDA x : IF Deduction[x][1] = c THEN Deduction[x][2] ELSE 0, faults)

\* Math.round of hundredths; a tie goes up
Round(n) == (n + 50) \div 100

calculateHealthScore(faults, dtcs) ==
    LET base == SumOver(LAMBDA c : Component[c] * ComponentScore(c, faults), DOMAIN Component)
        penalties == SumOver(LAMBDA i : Penalty[dtcs[i]], DOMAIN dtcs)
    IN Most(0, Least(100, Round(base - 100 * penalties)))

trend(score) == IF score < 50 THEN "CRITICAL" ELSE IF score < 75 THEN "DEGRADING" ELSE "STABLE"

\* The score is a percentage, full without a fault; another fault or code never
\* improves it; the order of the codes makes no difference; and a single fault
\* leaves the vehicle STABLE.
HealthIsMonotone(faults, dtcs, fault, severity) ==
    LET score == calculateHealthScore(faults, dtcs) IN
    /\ score \in 0 .. 100
    /\ faults = {} /\ dtcs = <<>> => score = 100
    /\ calculateHealthScore(faults \cup {fault}, dtcs) <= score
    /\ calculateHealthScore(faults, Append(dtcs, severity)) <= score
    /\ calculateHealthScore(faults, Reverse(dtcs)) = score
    /\ trend(calculateHealthScore({fault}, <<>>)) = "STABLE"

-----------------------------------------------------------------------------
\* driver-score.calculator.ts: an event takes points off one of five scores, which
\* stops at 0.  (Exact arithmetic: where the sum is a tie, the doubles of the code may
\* fall short of it, and Math.round then is one lower.)

Points ==
    [HARSH_ACCELERATION |-> <<"acceleration", 5>>, HARSH_BRAKING |-> <<"braking", 5>>,
     RAPID_DECELERATION |-> <<"braking", 5>>, RAPID_CORNERING |-> <<"cornering", 5>>,
     OVERSPEED |-> <<"speeding", 8>>, SEATBELT_VIOLATION |-> <<"speeding", 10>>,
     DOOR_OPEN_MOVING |-> <<"speeding", 10>>, LONG_IDLING |-> <<"idling", 4>>,
     HIGH_RPM |-> <<"none", 0>>]

Share == [acceleration |-> 20, braking |-> 25, cornering |-> 15, speeding |-> 30, idling |-> 10]

Scores(events) ==
    FoldLeft(LAMBDA scores, e :
                IF Points[e][1] = "none" THEN scores
                ELSE [scores EXCEPT ![Points[e][1]] = Most(0, @ - Points[e][2])],
             [s \in DOMAIN Share |-> 100], events)

\* Mutant: the events are not all looked at
calculateDriverScore_Tail(events) ==
    LET s == Scores(IF events = <<>> THEN events ELSE Tail(events)) IN
    Most(0, Least(100, Round(SumOver(LAMBDA x : Share[x] * s[x], DOMAIN Share))))
calculateDriverScore(events) ==
    LET s == Scores(events) IN
    Most(0, Least(100, Round(SumOver(LAMBDA x : Share[x] * s[x], DOMAIN Share))))

\* The points lost are those of the events added up, whatever their order and where
\* the floor cuts in; and an event never improves the score.
DriverScoreIsSum(events) ==
    LET lost(x) == SumOver(LAMBDA i : IF Points[events[i]][1] = x THEN Points[events[i]][2]
                                                                 ELSE 0, DOMAIN events)
        score == calculateDriverScore(events)
    IN /\ score = Round(SumOver(LAMBDA x : Share[x] * Most(0, 100 - lost(x)), DOMAIN Share))
       /\ events # <<>> => score <= calculateDriverScore(Tail(events))

-----------------------------------------------------------------------------
\* preferences.service.ts: hours of the day, UTC
Quieted(now, start, end) ==
    IF start <= end THEN now >= start /\ now < end
                    ELSE now >= start \/ now < end

\* The quiet hours run from start to end, around midnight if they have to.  (Hours
\* that start when they end are no hours, not all of them.)
QuietIsInterval(now, start, end) ==
    Quieted(now, start, end) <=> (now - start) % 24 < (end - start) % 24

-----------------------------------------------------------------------------
\* feature-flag.service.ts: simpleHash wraps at 32 bits with "hash |= 0".  TLC's
\* integers have 32 bits themselves, so the hash is kept as two halves.

Half == 65536

Step(h, code) ==
    LET lo == h[2] * 31 + code IN <<(h[1] * 31 + lo \div Half) % Half, lo % Half>>

\* Math.abs(hash) % 100; a negative hash is 2^32 less, and 2^32 % 100 = 96
bucket(codes) ==
    LET h == FoldLeft(Step, <<0, 0>>, codes)
        r == (h[1] * (Half % 100) + h[2]) % 100
    IN IF h[1] >= Half \div 2 THEN (96 - r) % 100 ELSE r

Enabled(codes, percentage) == percentage < 100 => bucket(codes) < percentage

\* At 0 percent nobody has the feature, at 100 everybody, and who has it keeps it
\* when the percentage is raised, also when the hash has overflowed.
RolloutIsMonotone(codes, percentage) ==
    /\ ~Enabled(codes, 0)
    /\ Enabled(codes, 100)
    /\ Enabled(codes, percentage) => Enabled(codes, percentage + 1)

-----------------------------------------------------------------------------
\* retry.engine.ts: the delay before attempt n + 1, without and with the jitter

Delay(n, base, max) == Least(base * 2 ^ (n - 1), max)
Slowest(n, base, max) == Delay(n, base, max) + Delay(n, base, max) \div 2

\* The delays grow until they reach the maximum, which the jitter exceeds by half.
DelayIsBounded(n, base, max) ==
    /\ Delay(n, base, max) <= Delay(n + 1, base, max)
    /\ Slowest(n, base, max) <= max + max \div 2
    /\ Delay(n + 1, base, max) < max => Delay(n + 1, base, max) = 2 * Delay(n, base, max)

-----------------------------------------------------------------------------
\* findAll of each service: skip, take and totalPages

Page(items, page, limit) ==
    {i \in 1 .. items : (page - 1) * limit < i /\ i <= (page - 1) * limit + limit}
TotalPages(items, limit) == (items + limit - 1) \div limit

\* The pages are the items, each on one page, none of them empty.
PagesCover(items, limit) ==
    LET pages == 1 .. TotalPages(items, limit) IN
    /\ UNION {Page(items, n, limit) : n \in pages} = 1 .. items
    /\ \A m, n \in pages : m # n => Page(items, m, limit) \cap Page(items, n, limit) = {}
    /\ \A n \in pages : Page(items, n, limit) # {}
=============================================================================
