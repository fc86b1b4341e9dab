---------------------------- MODULE SessionMetrics ----------------------------
(***************************************************************************)
(* `Telemetry::analyse` (src/telemetry.rs): one pass over the rows that    *)
(* measures elapsed time, speed, its changes and the distance driven.      *)
(*                                                                         *)
(* The recorder is the environment.  It has a true clock, `now`, counted   *)
(* from some midnight, which any step may advance, or set back when rows   *)
(* were stored out of order; a row holds the time of day it shows, or a    *)
(* cell that is not a time.  Positions are decoded points; their distance  *)
(* is the constant Metric, which stands for `haversine_metres`.            *)
(***************************************************************************)
EXTENDS Decoders, Sequences, FiniteSets

CONSTANTS
  Recorders,     \* bound: the kinds of recording
  Factors,       \* factors of the speed units known
  Points, Metric,
  CountLimit     \* u32::MAX

Day == 86400
HalfDay == 43200

\* A change of speed over a time, and a speed with its time.
Quotient == [change : Int, seconds : Nat \ {0}]
TimedSpeed == [speed : Nat, time : 0..(Day - 1)]

\* When a recording may begin, how far the clock moves between two of its
\* rows, its time cells that are no times, its speed cells, the factors its
\* unit may have, the points it passes, and the most rows it has.
Recorder ==
  [starts : SUBSET Nat, steps : SUBSET Int,
   cells : SUBSET {c \in Int \cup {Missing} : ParseTimeSeconds(c) = None},
   speeds : SUBSET (Int \cup {Missing}), factors : SUBSET (Factors \cup {None}),
   points : SUBSET Points, rows : Nat]

ASSUME MetricsAssumption ==
  /\ Recorders \subseteq Recorder
  /\ Factors \subseteq Nat \ {0}
  /\ None \notin Points \cup Quotient \cup TimedSpeed
  /\ Metric \in [Points -> [Points -> Nat]]
  /\ \A p, q, r \in Points :
       /\ Metric[p][p] = 0
       /\ Metric[p][r] <= Metric[p][q] + Metric[q][r]
  /\ CountLimit \in Nat \ {0}

VARIABLES
  recorder,
  speed_factor,      \* None: no speed column, or a unit that is not known
  previous_time, previous_speed, previous_point,
  elapsed, timing_anomalies,
  max_speed, speed_sum, speed_count,
  peak_acceleration, peak_braking,    \* None, or a quotient
  distance,
  row,
  report,            \* what the call returned, None while it runs
  now,               \* the recorder's clock
  timeline,          \* history: the clock at each row with a time
  fixes,             \* history: speed and clock of each row with both
  track              \* history: the points

timing == <<previous_time, elapsed, timing_anomalies, timeline>>
speeds == <<previous_speed, max_speed, speed_sum, speed_count, peak_acceleration,
            peak_braking, fixes>>
driven == <<previous_point, distance, track>>
vars == <<recorder, speed_factor, timing, speeds, driven, row, report, now>>

\* The cell a recorder writes for its clock.
TimeOfDay(clock) ==
  LET s == clock % Day
  IN  10000 * (s \div 3600) + 100 * ((s \div 60) % 60) + (s % 60)

Init ==
  /\ recorder \in Recorders
  /\ speed_factor \in recorder.factors
  /\ previous_time = None /\ previous_speed = None /\ previous_point = None
  /\ elapsed = 0 /\ timing_anomalies = 0
  /\ max_speed = None /\ speed_sum = 0 /\ speed_count = 0
  /\ peak_acceleration = None /\ peak_braking = None
  /\ distance = 0
  /\ row = 0
  /\ report = None
  /\ now \in recorder.starts
  /\ timeline = <<>> /\ fixes = <<>> /\ track = <<>>

-----------------------------------------------------------------------------
\* Mutant: a day has no midnight.
ForwardUnwrapped(previous, current) ==
  IF current - previous >= 0 THEN current - previous ELSE None

ForwardDelta(previous, current) ==
  IF current - previous >= 0 THEN current - previous
  ELSE IF current - previous < -HalfDay THEN current - previous + Day
  ELSE None

\* Mutant: a time that steps back does not become the reference.
AccumulateForward(time) ==
  IF time = None THEN UNCHANGED <<previous_time, elapsed, timing_anomalies>>
  ELSE LET delta == IF previous_time = None THEN 0 ELSE ForwardDelta(previous_time, time)
       IN  /\ elapsed' = IF delta = None THEN elapsed ELSE elapsed + delta
           /\ timing_anomalies' = IF delta = None THEN timing_anomalies + 1 ELSE timing_anomalies
           /\ previous_time' = IF delta = None THEN previous_time ELSE time

AccumulateTime(time) ==
  IF time = None THEN UNCHANGED <<previous_time, elapsed, timing_anomalies>>
  ELSE LET delta == IF previous_time = None THEN 0 ELSE ForwardDelta(previous_time, time)
       IN  /\ elapsed' = IF delta = None THEN elapsed ELSE elapsed + delta
           /\ timing_anomalies' = IF delta = None THEN timing_anomalies + 1 ELSE timing_anomalies
           /\ previous_time' = time

\* Quotients with a positive denominator.
AtMost(a, b) == a.change * b.seconds <= b.change * a.seconds

\* Mutant: the difference is taken over the time since the last row with a time.
ChangeSincePreviousTime(speed, time) ==
  LET seconds == IF previous_speed = None \/ previous_time = None \/ time = None THEN None
                 ELSE ForwardDelta(previous_time, time)
  IN  IF seconds \in {None, 0} THEN None
      ELSE [change |-> speed - previous_speed.speed, seconds |-> seconds]

\* The acceleration since the last row that had a speed and a time.
Acceleration(speed, time) ==
  LET seconds == IF previous_speed = None \/ time = None THEN None
                 ELSE ForwardDelta(previous_speed.time, time)
  IN  IF seconds \in {None, 0} THEN None
      ELSE [change |-> speed - previous_speed.speed, seconds |-> seconds]

\* Speeds that are not finite or negative are skipped, whatever their time.
AccumulateSpeed(speed, time) ==
  IF speed = None
    THEN UNCHANGED <<previous_speed, max_speed, speed_sum, speed_count,
                     peak_acceleration, peak_braking>>
    ELSE LET a == Acceleration(speed, time) IN
      /\ max_speed' = IF max_speed = None \/ speed > max_speed THEN speed ELSE max_speed
      /\ speed_sum' = speed_sum + speed
      /\ speed_count' = speed_count + 1
      /\ peak_acceleration' =
           IF a # None /\ (peak_acceleration = None \/ AtMost(peak_acceleration, a))
             THEN a ELSE peak_acceleration
      /\ peak_braking' =
           IF a # None /\ (peak_braking = None \/ AtMost(a, peak_braking))
             THEN a ELSE peak_braking
      /\ previous_speed' =
           IF time = None THEN previous_speed ELSE [speed |-> speed, time |-> time]

\* Mutant: every leg starts at the first point.
AccumulateFromFirst(point) ==
  IF point = None THEN UNCHANGED <<previous_point, distance>>
  ELSE /\ distance' = IF previous_point = None THEN 0 ELSE Metric[previous_point][point]
       /\ previous_point' = IF previous_point = None THEN point ELSE previous_point

AccumulateDistance(point) ==
  IF point = None THEN UNCHANGED <<previous_point, distance>>
  ELSE /\ distance' = IF previous_point = None THEN distance
                      ELSE distance + Metric[previous_point][point]
       /\ previous_point' = point

Speed(cell) ==
  IF speed_factor = None \/ cell = Missing THEN None
  ELSE IF cell * speed_factor < 0 THEN None
  ELSE cell * speed_factor

\* One iteration over the rows.
Row(cell, speed_cell, point) ==
  LET time == ParseTimeSeconds(cell)
      speed == Speed(speed_cell)
  IN  /\ report = None /\ row < recorder.rows
      /\ AccumulateTime(time)
      /\ AccumulateSpeed(speed, time)
      /\ AccumulateDistance(point)
      /\ row' = row + 1
      /\ timeline' = IF time = None THEN timeline ELSE Append(timeline, now')
      /\ fixes' = IF speed = None \/ time = None THEN fixes
                  ELSE Append(fixes, [speed |-> speed, clock |-> now'])
      /\ track' = IF point = None THEN track ELSE Append(track, point)
      /\ UNCHANGED <<recorder, speed_factor, report>>

NextRow ==
  \E step \in recorder.steps : \E cell \in recorder.cells \cup {TimeOfDay(now + step)} :
    \E speed_cell \in recorder.speeds : \E point \in recorder.points \cup {None} :
      /\ now' = now + step
      /\ Row(cell, speed_cell, point)

\* Mutant: only the speeds with a time are counted.
TimedSpeeds == Len(fixes)

\* `u32::try_from(..).unwrap_or(u32::MAX)`
MeanCount == IF speed_count > CountLimit THEN CountLimit ELSE speed_count

Finish ==
  /\ report = None
  /\ report' =
       [duration |-> IF elapsed > 0 THEN elapsed ELSE None,
        distance |-> IF row > 1 THEN distance ELSE None,
        mean     |-> IF speed_count = 0 THEN None ELSE [sum |-> speed_sum, count |-> MeanCount]]
  /\ UNCHANGED <<recorder, speed_factor, timing, speeds, driven, row, now>>

Next == NextRow \/ Finish

Spec == Init /\ [][Next]_vars

-----------------------------------------------------------------------------
(* Times are times of day, counters count and sums add what is not         *)
(* negative.                                                               *)
TypeOK ==
  /\ recorder \in Recorders
  /\ speed_factor \in Factors \cup {None}
  /\ previous_time = None \/ previous_time \in 0..(Day - 1)
  /\ previous_speed \in TimedSpeed \cup {None}
  /\ previous_point \in Points \cup {None}
  /\ elapsed \in Nat /\ timing_anomalies \in Nat
  /\ max_speed \in Nat \cup {None} /\ speed_sum \in Nat /\ speed_count \in 0..row
  /\ peak_acceleration \in Quotient \cup {None} /\ peak_braking \in Quotient \cup {None}
  /\ distance \in Nat
  /\ row \in Nat
  /\ now \in Int
  /\ timeline \in Seq(Int) /\ track \in Seq(Points)
  /\ fixes \in Seq([speed : Nat, clock : Int])

\* Each row's clock is less than half a day after the one before it.
MovesForward(clocks) ==
  \A i \in 1..(Len(clocks) - 1) : clocks[i + 1] - clocks[i] \in 0..(HalfDay - 1)

(* Whatever midnights lie between the rows and whichever rows have no      *)
(* time, the elapsed time of a recording without gaps of half a day is the *)
(* true one, and none of its rows is an anomaly.                           *)
ElapsedIsTrueTime ==
  timeline # <<>> /\ MovesForward(timeline) =>
    /\ elapsed = timeline[Len(timeline)] - timeline[1]
    /\ timing_anomalies = 0

\* The steps of the timeline that set the time of day back by half a day at most.
StepsBack ==
  {i \in 1..(Len(timeline) - 1) :
     (timeline[i + 1] % Day) - (timeline[i] % Day) \in -HalfDay..-1}

\* How far these steps set the clock back, or on if they skip a midnight.
SteppedBack ==
  LET total[n \in DOMAIN timeline] ==
        IF n = 1 THEN 0
        ELSE total[n - 1] + (IF n - 1 \in StepsBack THEN timeline[n] - timeline[n - 1] ELSE 0)
  IN  total[Len(timeline)]

(* The clock may also step back or skip half days.  Then the anomalies are *)
(* the steps back, and but for these, and for whole days, the elapsed time *)
(* is the true one: no other time is lost or counted twice.                *)
AnomaliesExplainElapsed ==
  timeline # <<>> =>
    /\ timing_anomalies = Cardinality(StepsBack)
    /\ (timeline[Len(timeline)] - timeline[1] - SteppedBack - elapsed) % Day = 0

(* Over any stretch between two rows with speed and time, the mean change  *)
(* of speed lies between the braking and the acceleration peak, and each   *)
(* peak is reached between two neighbours.                                 *)
PeaksBoundEveryStretch ==
  (\A i \in 1..(Len(fixes) - 1) : fixes[i + 1].clock - fixes[i].clock \in 1..(HalfDay - 1)) =>
    LET Mean(i, j) == [change  |-> fixes[j].speed - fixes[i].speed,
                      seconds |-> fixes[j].clock - fixes[i].clock]
    IN  /\ \A j \in DOMAIN fixes : \A i \in 1..(j - 1) :
             AtMost(peak_braking, Mean(i, j)) /\ AtMost(Mean(i, j), peak_acceleration)
        /\ \A peak \in {peak_braking, peak_acceleration} \ {None} :
             \E i \in 1..(Len(fixes) - 1) : peak = Mean(i, i + 1)

(* The distance driven is at least the one between any two points passed.  *)
DistanceCoversDisplacement ==
  \A j \in DOMAIN track : \A i \in 1..j : Metric[track[i]][track[j]] <= distance

(* The mean speed is at most the greatest, unless there are more speeds    *)
(* than a u32 counts.                                                      *)
MeanIsBelowMaximum ==
  report # None /\ speed_count \in 1..CountLimit =>
    report.mean.sum <= max_speed * report.mean.count
=============================================================================
