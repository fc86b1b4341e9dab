--------------------------- MODULE TelemetryProofs ---------------------------
(***************************************************************************)
(* What `analyse` measures is right for recordings of any length, any      *)
(* clock, any speeds and any metric, and the format that is detected       *)
(* decodes recordings of either convention with any number of rows.        *)
(***************************************************************************)
EXTENDS CoordinateFormat, SessionMetrics, BasicLemmas, TLAPS

Time == 0..(Day - 1)

-----------------------------------------------------------------------------
(* A day is two half days; nothing else is needed of its length.           *)
LEMMA DayFacts == Day \in Nat \ {0} /\ HalfDay \in Nat \ {0} /\ Day = HalfDay + HalfDay
  BY SMT DEF Day, HalfDay

(* A time of day is a natural below the length of a day.                   *)
LEMMA TimeFacts ==
  ASSUME NEW t
  PROVE  t \in Time <=> t \in Nat /\ t < Day
  BY DayFacts, SMT DEF Time

\* Hours, minutes and seconds as a time of day and as the digits of a cell.
Seconds(h, m, c) == 3600 * h + 60 * m + c
Digits(h, m, c) == 10000 * h + 100 * m + c
Fields(s, h, m, c) ==
  /\ h = s \div 3600 /\ m = (s \div 60) % 60 /\ c = s % 60
  /\ h < 24 /\ m < 60 /\ c < 60

(* Three clock fields make a time of day.                                  *)
LEMMA FieldsMakeATime ==
  ASSUME NEW h \in Nat, NEW m \in Nat, NEW c \in Nat, h < 24, m < 60, c < 60
  PROVE  Seconds(h, m, c) \in Time
<1>1. 3600 * h + 60 * m + c \in Nat  BY SMT
<1>2. 3600 * h + 60 * m + c < 86400  BY SMT
<1> QED  BY <1>1, <1>2, TimeFacts, SMT DEF Day, Seconds

(* The fields of a time of day.                                            *)
LEMMA FieldsOfATime ==
  ASSUME NEW s \in Nat, s < Day
  PROVE  \E h, m, c \in Nat : Fields(s, h, m, c) /\ s = Seconds(h, m, c)
<1>1. PICK q, c \in Nat : q = s \div 60 /\ c = s % 60 /\ s = 60 * q + c /\ c < 60  BY SMT
<1>2. PICK p, m \in Nat : p = q \div 60 /\ m = q % 60 /\ q = 60 * p + m /\ m < 60  BY SMT
<1>3. PICK h, r \in Nat : h = s \div 3600 /\ s = 3600 * h + r /\ r < 3600  BY SMT
<1>4. s = 3600 * p + 60 * m + c  BY <1>1, <1>2, SMT
<1>5. h = p  BY <1>1, <1>2, <1>3, <1>4, SMT
<1>6. h < 24  BY <1>3, SMT DEF Day
<1>7. s = Seconds(h, m, c)  BY <1>4, <1>5, SMT DEF Seconds
<1>8. Fields(s, h, m, c)  BY <1>1, <1>2, <1>3, <1>5, <1>6, SMT DEF Fields
<1> QED  BY <1>7, <1>8

(* The digits of the number made of three two-digit fields.                *)
LEMMA FieldsOfANumber ==
  ASSUME NEW h \in Nat, NEW m \in Nat, NEW c \in Nat, m < 60, c < 60,
         NEW v, v = Digits(h, m, c)
  PROVE  v \in Nat /\ v \div 10000 = h /\ (v \div 100) % 100 = m /\ v % 100 = c
<1> USE DEF Digits
<1>0. v \in Nat  BY SMT
<1>1. v \div 10000 = h  BY SMT
<1>2. v % 100 = c  BY SMT
<1>3. v \div 100 = 100 * h + m  BY SMT
<1>4. (100 * h + m) % 100 = m  BY SMT
<1> QED  BY <1>0, <1>1, <1>2, <1>3, <1>4, SMT

(* A cell that parses is a time of day.                                    *)
LEMMA TimesOfDay ==
  ASSUME NEW cell \in Int \cup {Missing}
  PROVE  ParseTimeSeconds(cell) \in Time \cup {None}
<1>1. CASE cell \in Int /\ cell >= 0
  <2>1. PICK h, m, c \in Nat : h = cell \div 10000 /\ m = (cell \div 100) % 100 /\ c = cell % 100
    BY <1>1, SMT
  <2>2. cell # Missing  BY <1>1, DecoderAssumption
  <2>3. CASE h < 24 /\ m < 60 /\ c < 60
    <3>1. ParseTimeSeconds(cell) = Seconds(h, m, c)
      BY <1>1, <2>1, <2>2, <2>3, SMT DEF ParseTimeSeconds, Seconds
    <3>2. Seconds(h, m, c) \in Time  BY <2>3, FieldsMakeATime, SMT
    <3> QED  BY <3>1, <3>2, SMT
  <2>4. CASE ~(h < 24 /\ m < 60 /\ c < 60)
    BY <2>1, <2>4, SMT DEF ParseTimeSeconds
  <2> QED  BY <2>3, <2>4
<1>2. CASE ~(cell \in Int /\ cell >= 0)
  BY <1>2, SMT DEF ParseTimeSeconds
<1> QED
  BY <1>1, <1>2

(* The decoder reads what the recorder's clock writes.                     *)
LEMMA ClockIsDecoded ==
  ASSUME NEW clock \in Int
  PROVE  TimeOfDay(clock) \in Nat /\ ParseTimeSeconds(TimeOfDay(clock)) = clock % Day
<1>1. PICK s \in Nat : s = clock % Day /\ s < Day
  BY SMT DEF Day
<1>2. PICK h, m, c \in Nat : Fields(s, h, m, c) /\ s = Seconds(h, m, c)
  BY <1>1, FieldsOfATime, Zenon
<1>3. h < 24 /\ m < 60 /\ c < 60  BY <1>2, SMT DEF Fields
<1> DEFINE v == Digits(h, m, c)
<1>4. v \in Nat /\ v \div 10000 = h /\ (v \div 100) % 100 = m /\ v % 100 = c
  BY <1>3, FieldsOfANumber
<1>5. TimeOfDay(clock) = v
  BY <1>1, <1>2, SMT DEF TimeOfDay, Digits, Fields
<1> HIDE DEF v
<1>6. ParseTimeSeconds(v) = Seconds(h, m, c)
  <2>1. v # Missing /\ v >= 0  BY <1>4, DecoderAssumption, SMT
  <2>2. v \div 10000 < 24 /\ (v \div 100) % 100 < 60 /\ v % 100 < 60  BY <1>3, <1>4, SMT
  <2>3. ParseTimeSeconds(v) = 3600 * (v \div 10000) + 60 * ((v \div 100) % 100) + (v % 100)
    BY <2>1, <2>2, SMT DEF ParseTimeSeconds
  <2> QED  BY <1>4, <2>3, SMT DEF Seconds
<1> QED
  BY <1>1, <1>2, <1>4, <1>5, <1>6, SMT

(* A clock is a number of days and a time of day.                          *)
LEMMA ClockDivides ==
  ASSUME NEW a \in Int
  PROVE  \E p \in Int : \E r \in Nat : r = a % Day /\ r < Day /\ a = Day * p + r
<1>1. a \div Day \in Int  BY SMT DEF Day
<1>2. a % Day \in Nat /\ a % Day < Day  BY SMT DEF Day
<1>3. a = Day * (a \div Day) + (a % Day)  BY SMT DEF Day
<1> QED  BY <1>1, <1>2, <1>3, Zenon

(* Between two clocks less than half a day apart, whatever midnight lies   *)
(* between them, the delta is the true one.                                *)
LEMMA DeltaIsTrue ==
  ASSUME NEW a \in Int, NEW b \in Int, b - a >= 0, b - a < HalfDay
  PROVE  ForwardDelta(a % Day, b % Day) = b - a
<1>1. PICK p \in Int, r \in Nat : r = a % Day /\ r < Day /\ a = Day * p + r  BY ClockDivides
<1>2. PICK q \in Int, s \in Nat : s = b % Day /\ s < Day /\ b = Day * q + s  BY ClockDivides
<1>3. a = 86400 * p + r /\ b = 86400 * q + s /\ b - a < 43200
      /\ r < 86400 /\ s < 86400
  BY <1>1, <1>2, SMT DEF Day, HalfDay
<1>5. q = p \/ q = p + 1
  BY <1>3, SMT
<1>6. CASE q = p
  <2>1. s - r = b - a  BY <1>3, <1>6, SMT
  <2>2. ForwardDelta(r, s) = s - r  BY <1>3, <2>1, SMT DEF ForwardDelta
  <2> QED  BY <1>1, <1>2, <2>1, <2>2
<1>7. CASE q = p + 1
  <2>1. (s - r) + 86400 = b - a  BY <1>3, <1>7, SMT
  <2>2. s - r < -43200  BY <1>3, <2>1, SMT
  <2>3. ForwardDelta(r, s) = (s - r) + 86400  BY <2>2, SMT DEF ForwardDelta, HalfDay, Day
  <2> QED  BY <1>1, <1>2, <2>1, <2>3
<1> QED
  BY <1>5, <1>6, <1>7

(* A delta is not negative.                                                *)
LEMMA DeltaIsNat ==
  ASSUME NEW a \in Time, NEW b \in Time
  PROVE  ForwardDelta(a, b) \in Nat \cup {None}
<1>1. a \in Nat /\ a < 86400 /\ b \in Nat /\ b < 86400  BY TimeFacts, SMT DEF Day
<1>2. PICK d \in Int : d = b - a  BY <1>1, SMT
<1>3. (d >= 0 => d \in Nat) /\ d + 86400 \in Nat  BY <1>1, <1>2, SMT
<1>4. ForwardDelta(a, b) = IF d >= 0 THEN d ELSE IF d < -HalfDay THEN d + 86400 ELSE None
  BY <1>2, SMT DEF ForwardDelta, Day
<1> QED
  BY <1>3, <1>4, SMT

(* A speed is not negative.                                                *)
LEMMA SpeedIsNat ==
  ASSUME speed_factor \in Factors \cup {None}, NEW cell \in Int \cup {Missing}
  PROVE  Speed(cell) \in Nat \cup {None}
<1>1. CASE speed_factor = None \/ cell = Missing
  BY <1>1 DEF Speed
<1>2. CASE speed_factor # None /\ cell # Missing
  <2>1. speed_factor \in Int /\ cell \in Int
    BY <1>2, MetricsAssumption
  <2>2. cell * speed_factor \in Int
    BY <2>1
  <2> QED
    BY <1>2, <2>2 DEF Speed
<1> QED
  BY <1>1, <1>2

-----------------------------------------------------------------------------
(* The parts of the type invariant that the parts of a row keep.           *)
ClockTypes ==
  previous_time \in Time \cup {None} /\ elapsed \in Nat /\ timing_anomalies \in Nat
SpeedTypes ==
  /\ previous_speed \in TimedSpeed \cup {None}
  /\ max_speed \in Nat \cup {None} /\ speed_sum \in Nat /\ speed_count \in Nat
  /\ peak_acceleration \in Quotient \cup {None} /\ peak_braking \in Quotient \cup {None}
DrivenTypes ==
  previous_point \in Points \cup {None} /\ distance \in Nat

(* A row's time keeps the types of the clock.                              *)
LEMMA TimeStep ==
  ASSUME ClockTypes, NEW time \in Time \cup {None}, AccumulateTime(time)
  PROVE  ClockTypes'
<1>1. CASE time = None
  BY <1>1 DEF AccumulateTime, ClockTypes
<1>2. CASE time # None
  <2>1. PICK delta : delta = IF previous_time = None THEN 0 ELSE ForwardDelta(previous_time, time)
    OBVIOUS
  <2>2. delta \in Nat \cup {None}
    BY <1>2, <2>1, DeltaIsNat DEF ClockTypes
  <2>3. /\ elapsed' = IF delta = None THEN elapsed ELSE elapsed + delta
        /\ timing_anomalies' = IF delta = None THEN timing_anomalies + 1 ELSE timing_anomalies
        /\ previous_time' = time
    BY <1>2, <2>1 DEF AccumulateTime
  <2> QED
    BY <2>2, <2>3, SMT DEF ClockTypes
<1> QED
  BY <1>1, <1>2

(* An acceleration is a quotient with a positive denominator.              *)
LEMMA AccelerationIsQuotient ==
  ASSUME SpeedTypes, NEW speed \in Nat, NEW time \in Time \cup {None}
  PROVE  Acceleration(speed, time) \in Quotient \cup {None}
<1>1. PICK seconds : seconds = IF previous_speed = None \/ time = None THEN None
                               ELSE ForwardDelta(previous_speed.time, time)
  OBVIOUS
<1>2. Acceleration(speed, time) =
        IF seconds \in {None, 0} THEN None
        ELSE [change |-> speed - previous_speed.speed, seconds |-> seconds]
  BY <1>1 DEF Acceleration
<1>3. CASE previous_speed = None \/ time = None
  BY <1>1, <1>2, <1>3
<1>4. CASE previous_speed # None /\ time # None
  <2>1. previous_speed.time \in Time /\ previous_speed.speed \in Nat
    BY <1>4 DEF SpeedTypes, TimedSpeed, Time
  <2>2. seconds \in Nat \cup {None}
    BY <1>1, <1>4, <2>1, DeltaIsNat
  <2>3. speed - previous_speed.speed \in Int
    BY <2>1
  <2> QED
    BY <1>2, <2>2, <2>3, SMT DEF Quotient
<1> QED
  BY <1>3, <1>4

(* A row's speed keeps the types of the speeds and is counted once at most. *)
LEMMA SpeedStep ==
  ASSUME SpeedTypes, NEW speed \in Nat \cup {None}, NEW time \in Time \cup {None},
         AccumulateSpeed(speed, time)
  PROVE  SpeedTypes' /\ speed_count' \in {speed_count, speed_count + 1}
<1>1. CASE speed = None
  BY <1>1 DEF AccumulateSpeed, SpeedTypes
<1>2. CASE speed # None
  <2>1. PICK a : a = Acceleration(speed, time)
    OBVIOUS
  <2>2. a \in Quotient \cup {None}
    BY <1>2, <2>1, AccelerationIsQuotient
  <2>3. /\ max_speed' \in {max_speed, speed}
        /\ max_speed = None => max_speed' = speed
        /\ speed_sum' = speed_sum + speed
        /\ speed_count' = speed_count + 1
        /\ peak_acceleration' \in {a, peak_acceleration}
        /\ peak_braking' \in {a, peak_braking}
    BY <1>2, <2>1 DEF AccumulateSpeed
  <2>4. previous_speed' = IF time = None THEN previous_speed ELSE [speed |-> speed, time |-> time]
    BY <1>2 DEF AccumulateSpeed
  <2>5. previous_speed' \in TimedSpeed \cup {None}
    BY <1>2, <2>4 DEF SpeedTypes, TimedSpeed, Time
  <2>6. max_speed' \in Nat \cup {None} /\ speed_sum' \in Nat /\ speed_count' \in Nat
    BY <1>2, <2>3 DEF SpeedTypes
  <2>7. peak_acceleration' \in Quotient \cup {None} /\ peak_braking' \in Quotient \cup {None}
    BY <2>2, <2>3 DEF SpeedTypes
  <2> QED
    BY <2>3, <2>5, <2>6, <2>7 DEF SpeedTypes
<1> QED
  BY <1>1, <1>2

(* A row's point keeps the types of the distance.                          *)
LEMMA DistanceStep ==
  ASSUME DrivenTypes, NEW point \in Points \cup {None}, AccumulateDistance(point)
  PROVE  DrivenTypes'
<1>1. CASE point = None
  BY <1>1 DEF AccumulateDistance, DrivenTypes
<1>2. CASE point # None
  <2>1. previous_point # None => Metric[previous_point][point] \in Nat
    BY <1>2, MetricsAssumption DEF DrivenTypes
  <2> QED
    BY <1>2, <2>1 DEF AccumulateDistance, DrivenTypes
<1> QED
  BY <1>1, <1>2

Fix == [speed : Nat, clock : Int]

(* What is recorded has the types the pass is for.                         *)
LEMMA RecorderTypes ==
  ASSUME recorder \in Recorders
  PROVE  /\ recorder.starts \subseteq Nat /\ recorder.steps \subseteq Int
         /\ recorder.cells \subseteq {c \in Int \cup {Missing} : ParseTimeSeconds(c) = None}
         /\ recorder.speeds \subseteq Int \cup {Missing}
         /\ recorder.factors \subseteq Factors \cup {None}
         /\ recorder.points \subseteq Points
<1>1. recorder \in Recorder
  BY MetricsAssumption
<1> QED
  BY <1>1 DEF Recorder

(* What a step of the pass is: a row, with what its cells decode to, or    *)
(* the end.                                                                *)
LEMMA RowParts ==
  ASSUME NextRow, TypeOK
  PROVE  \E time \in Time \cup {None}, speed \in Nat \cup {None}, point \in Points \cup {None} :
           /\ AccumulateTime(time) /\ AccumulateSpeed(speed, time) /\ AccumulateDistance(point)
           /\ now' \in Int
           /\ time # None => time = now' % Day
           /\ timeline' = IF time = None THEN timeline ELSE Append(timeline, now')
           /\ fixes' = IF speed = None \/ time = None THEN fixes
                       ELSE Append(fixes, [speed |-> speed, clock |-> now'])
           /\ track' = IF point = None THEN track ELSE Append(track, point)
           /\ row' = row + 1 /\ report = None
           /\ UNCHANGED <<recorder, speed_factor, report>>
<1>0. /\ recorder.steps \subseteq Int
      /\ recorder.cells \subseteq {c \in Int \cup {Missing} : ParseTimeSeconds(c) = None}
      /\ recorder.speeds \subseteq Int \cup {Missing}
      /\ recorder.points \subseteq Points
  BY RecorderTypes DEF TypeOK
<1>p. PICK step \in recorder.steps : \E cell \in recorder.cells \cup {TimeOfDay(now + step)} :
        \E speed_cell \in recorder.speeds : \E point \in recorder.points \cup {None} :
          now' = now + step /\ Row(cell, speed_cell, point)
  BY DEF NextRow
<1>1. PICK cell \in recorder.cells \cup {TimeOfDay(now + step)},
           speed_cell \in recorder.speeds, point \in recorder.points \cup {None} :
        now' = now + step /\ Row(cell, speed_cell, point)
  BY <1>p
<1>2. now' \in Int
  BY <1>0, <1>1 DEF TypeOK
<1> DEFINE time == ParseTimeSeconds(cell)
           speed == Speed(speed_cell)
<1>3. time \in Time \cup {None} /\ (time # None => time = now' % Day)
  <2>1. CASE cell \in recorder.cells
    BY <1>0, <2>1
  <2>2. CASE cell = TimeOfDay(now')
    <3>1. TimeOfDay(now') \in Nat /\ ParseTimeSeconds(TimeOfDay(now')) = now' % Day
      BY <1>2, ClockIsDecoded
    <3>2. ParseTimeSeconds(cell) \in Time \cup {None}
      BY <2>2, <3>1, TimesOfDay
    <3> QED
      BY <2>2, <3>1, <3>2
  <2> QED
    BY <1>1, <2>1, <2>2
<1>4. speed \in Nat \cup {None}
  BY <1>0, <1>1, SpeedIsNat DEF TypeOK
<1>5. /\ AccumulateTime(time) /\ AccumulateSpeed(speed, time) /\ AccumulateDistance(point)
      /\ timeline' = IF time = None THEN timeline ELSE Append(timeline, now')
      /\ fixes' = IF speed = None \/ time = None THEN fixes
                  ELSE Append(fixes, [speed |-> speed, clock |-> now'])
      /\ track' = IF point = None THEN track ELSE Append(track, point)
      /\ row' = row + 1 /\ report = None
      /\ UNCHANGED <<recorder, speed_factor, report>>
  BY <1>1 DEF Row
<1> HIDE DEF time, speed
<1> QED
  BY <1>0, <1>1, <1>2, <1>3, <1>4, <1>5

(* The type invariant in parts.                                            *)
LEMMA TypeParts ==
  TypeOK <=> /\ ClockTypes /\ SpeedTypes /\ DrivenTypes
             /\ recorder \in Recorders /\ speed_factor \in Factors \cup {None}
             /\ speed_count \in 0..row /\ row \in Nat /\ now \in Int
             /\ timeline \in Seq(Int) /\ track \in Seq(Points)
             /\ fixes \in Seq([speed : Nat, clock : Int])
BY DEF TypeOK, ClockTypes, SpeedTypes, DrivenTypes, Time

(* Every step keeps the types.                                             *)
LEMMA TypeStep ==
  ASSUME TypeOK, [Next]_vars
  PROVE  TypeOK'
<1>1. CASE NextRow
  <2>1. PICK time \in Time \cup {None}, speed \in Nat \cup {None}, point \in Points \cup {None} :
           /\ AccumulateTime(time) /\ AccumulateSpeed(speed, time) /\ AccumulateDistance(point)
           /\ now' \in Int
           /\ timeline' = IF time = None THEN timeline ELSE Append(timeline, now')
           /\ fixes' = IF speed = None \/ time = None THEN fixes
                       ELSE Append(fixes, [speed |-> speed, clock |-> now'])
           /\ track' = IF point = None THEN track ELSE Append(track, point)
           /\ row' = row + 1
           /\ UNCHANGED <<recorder, speed_factor>>
    BY <1>1, RowParts
  <2>2. ClockTypes' /\ DrivenTypes' /\ SpeedTypes' /\ speed_count' \in {speed_count, speed_count + 1}
    BY <2>1, TypeParts, TimeStep, SpeedStep, DistanceStep
  <2>3. row' \in Nat /\ speed_count' \in 0..row'
    BY <2>1, <2>2, TypeParts
  <2>4. timeline' \in Seq(Int) /\ track' \in Seq(Points)
    BY <2>1 DEF TypeOK
  <2>5. fixes' \in Seq(Fix)
    <3>1. CASE speed = None \/ time = None
      BY <2>1, <3>1 DEF TypeOK, Fix
    <3>2. CASE speed # None /\ time # None
      <4>1. PICK fix : fix = [speed |-> speed, clock |-> now']
        OBVIOUS
      <4>2. fix \in Fix
        BY <2>1, <3>2, <4>1 DEF Fix
      <4>3. fixes' = Append(fixes, fix)
        BY <2>1, <3>2, <4>1
      <4> QED
        BY <4>2, <4>3 DEF TypeOK, Fix
    <3> QED
      BY <3>1, <3>2
  <2>6. recorder' \in Recorders /\ speed_factor' \in Factors \cup {None}
    BY <2>1 DEF TypeOK
  <2> QED
    BY <2>1, <2>2, <2>3, <2>4, <2>5, <2>6
    DEF TypeOK, ClockTypes, SpeedTypes, DrivenTypes, Fix, Time
<1>2. CASE Finish \/ UNCHANGED vars
  BY <1>2 DEF Finish, TypeOK, vars, timing, speeds, driven, Quotient
<1> QED
  BY <1>1, <1>2 DEF Next

(* TypeOK holds of every execution: times stay times of day, counters and  *)
(* sums naturals, and the peaks quotients with a positive denominator.     *)
THEOREM MetricsTypeCorrect == Spec => []TypeOK
<1>1. Init => TypeOK
  <2> SUFFICES ASSUME Init PROVE TypeOK
    OBVIOUS
  <2>1. now \in Int /\ speed_factor \in Factors \cup {None}
    BY RecorderTypes DEF Init
  <2> QED
    BY <2>1 DEF Init, TypeOK
<1>2. TypeOK /\ [Next]_vars => TypeOK'
  BY TypeStep
<1> QED
  BY <1>1, <1>2, PTL DEF Spec

-----------------------------------------------------------------------------
(* The reference for the next row's time is the time of day of the last    *)
(* row with a time.                                                        *)
ClockInv ==
  /\ timeline = <<>> => previous_time = None /\ elapsed = 0 /\ timing_anomalies = 0
  /\ timeline # <<>> => previous_time = timeline[Len(timeline)] % Day
  /\ ElapsedIsTrueTime

(* A timeline that moves forward does so without its last clock, and its   *)
(* last step is below half a day.                                          *)
LEMMA ForwardPrefix ==
  ASSUME NEW clocks \in Seq(Int), NEW clock \in Int, clocks # <<>>,
         MovesForward(Append(clocks, clock))
  PROVE  /\ MovesForward(clocks)
         /\ clock - clocks[Len(clocks)] \in 0..(HalfDay - 1)
<1>1. PICK n \in Nat \ {0} : n = Len(clocks)
  OBVIOUS
<1>2. PICK longer : longer = Append(clocks, clock)
  OBVIOUS
<1>3. Len(longer) = n + 1 /\ longer[n + 1] = clock /\ \A i \in 1..n : longer[i] = clocks[i]
  BY <1>1, <1>2
<1>4. \A i \in 1..n : longer[i + 1] - longer[i] \in 0..(HalfDay - 1)
  BY <1>2, <1>3 DEF MovesForward
<1>5. clock - clocks[n] \in 0..(HalfDay - 1)
  BY <1>3, <1>4
<1>6. \A i \in 1..(n - 1) : clocks[i + 1] - clocks[i] \in 0..(HalfDay - 1)
  BY <1>3, <1>4
<1> QED
  BY <1>1, <1>5, <1>6 DEF MovesForward

(* A row keeps the clock invariant.                                        *)
LEMMA ClockStep ==
  ASSUME TypeOK, ClockInv, NEW time \in Time \cup {None}, AccumulateTime(time),
         now' \in Int, time # None => time = now' % Day,
         timeline' = IF time = None THEN timeline ELSE Append(timeline, now')
  PROVE  ClockInv'
<1>1. CASE time = None
  BY <1>1 DEF AccumulateTime, ClockInv, ElapsedIsTrueTime
<1>2. CASE time # None
  <2>1. PICK clock \in Int : clock = now'
    OBVIOUS
  <2>2. timeline \in Seq(Int) /\ elapsed \in Nat
    BY DEF TypeOK
  <2>3. PICK n \in Nat : n = Len(timeline)
    BY <2>2
  <2>4. PICK longer : longer = Append(timeline, clock)
    OBVIOUS
  <2>5. Len(longer) = n + 1 /\ longer[n + 1] = clock /\ \A i \in 1..n : longer[i] = timeline[i]
    BY <2>2, <2>3, <2>4
  <2>6. timeline' = longer /\ time = clock % Day /\ previous_time' = clock % Day
    BY <1>2, <2>1, <2>4 DEF AccumulateTime
  <2>7. SUFFICES ASSUME MovesForward(longer)
                 PROVE  elapsed' = clock - longer[1] /\ timing_anomalies' = 0
    <3>1. longer # <<>> /\ longer[Len(longer)] = clock
      BY <2>5
    <3> QED
      BY <2>6, <3>1 DEF ClockInv, ElapsedIsTrueTime
  <2>8. CASE timeline = <<>>
    <3>1. previous_time = None /\ elapsed = 0 /\ timing_anomalies = 0 /\ n = 0
      BY <2>3, <2>8 DEF ClockInv
    <3>2. elapsed' = elapsed + 0 /\ timing_anomalies' = timing_anomalies
      BY <1>2, <3>1, DecoderAssumption DEF AccumulateTime
    <3> QED
      BY <2>5, <3>1, <3>2
  <2>9. CASE timeline # <<>>
    <3>1. MovesForward(timeline) /\ clock - timeline[n] \in 0..(HalfDay - 1)
      BY <2>2, <2>3, <2>4, <2>7, <2>9, ForwardPrefix
    <3>2. n \in 1..n /\ 1 \in 1..n
      BY <2>2, <2>3, <2>9
    <3>3. PICK last \in Int, first \in Int : last = timeline[n] /\ first = timeline[1]
      BY <2>2, <2>3, <3>2
    <3>4. previous_time = last % Day /\ elapsed = last - first /\ timing_anomalies = 0
      BY <2>3, <2>9, <3>1, <3>3 DEF ClockInv, ElapsedIsTrueTime
    <3>5. previous_time # None
      <4>1. last % Day \in Int
        BY SMT DEF Day
      <4> QED
        BY <3>4, <4>1, DecoderAssumption
    <3>6. ForwardDelta(previous_time, time) = clock - last
      <4>1. clock - last >= 0 /\ clock - last < HalfDay
        BY <3>1, <3>3, DayFacts, SMT
      <4> QED
        BY <2>6, <3>4, <4>1, DeltaIsTrue
    <3>7. PICK delta \in Int : delta = clock - last
      OBVIOUS
    <3>8. elapsed' = elapsed + delta /\ timing_anomalies' = timing_anomalies
      BY <1>2, <3>5, <3>6, <3>7, DecoderAssumption DEF AccumulateTime
    <3>9. elapsed' = clock - first
      BY <3>4, <3>7, <3>8
    <3> QED
      BY <2>5, <3>2, <3>3, <3>4, <3>8, <3>9
  <2> QED
    BY <2>8, <2>9
<1> QED
  BY <1>1, <1>2

(* The elapsed time of a recording without gaps of half a day is the true  *)
(* one, over any number of midnights and any rows without a time.          *)
THEOREM ElapsedTimeIsTrue == Spec => []ElapsedIsTrueTime
<1>1. Init => ClockInv
  BY DEF Init, ClockInv, ElapsedIsTrueTime
<1>2. TypeOK /\ ClockInv /\ [Next]_vars => ClockInv'
  <2> SUFFICES ASSUME TypeOK, ClockInv, [Next]_vars PROVE ClockInv'
    OBVIOUS
  <2>1. CASE NextRow
    <3>1. PICK time \in Time \cup {None} :
            /\ AccumulateTime(time) /\ now' \in Int
            /\ time # None => time = now' % Day
            /\ timeline' = IF time = None THEN timeline ELSE Append(timeline, now')
      BY <2>1, RowParts
    <3> QED
      BY <3>1, ClockStep
  <2>2. CASE Finish \/ UNCHANGED vars
    BY <2>2 DEF Finish, vars, timing, ClockInv, ElapsedIsTrueTime
  <2> QED
    BY <2>1, <2>2 DEF Next
<1>3. ClockInv => ElapsedIsTrueTime
  BY DEF ClockInv
<1> QED
  BY <1>1, <1>2, <1>3, MetricsTypeCorrect, PTL DEF Spec

-----------------------------------------------------------------------------
(* The next leg starts at the last point.                                  *)
DistanceInv ==
  /\ track = <<>> => previous_point = None
  /\ track # <<>> => previous_point = track[Len(track)]
  /\ DistanceCoversDisplacement

(* A row keeps the distance invariant: by the triangle inequality a leg is *)
(* at least what the displacement from any earlier point grows by.         *)
LEMMA DistanceInvStep ==
  ASSUME TypeOK, DistanceInv, NEW point \in Points \cup {None}, AccumulateDistance(point),
         track' = IF point = None THEN track ELSE Append(track, point)
  PROVE  DistanceInv'
<1>1. CASE point = None
  BY <1>1 DEF AccumulateDistance, DistanceInv, DistanceCoversDisplacement
<1>2. CASE point # None
  <2>1. track \in Seq(Points) /\ distance \in Nat /\ point \in Points
    BY <1>2 DEF TypeOK
  <2>2. PICK n \in Nat : n = Len(track)
    BY <2>1
  <2>3. PICK longer : longer = Append(track, point)
    OBVIOUS
  <2>4. /\ Len(longer) = n + 1 /\ longer[n + 1] = point /\ DOMAIN longer = 1..(n + 1)
        /\ \A i \in 1..n : longer[i] = track[i] /\ track[i] \in Points
        /\ DOMAIN track = 1..n
    BY <2>1, <2>2, <2>3
  <2>5. track' = longer /\ previous_point' = point
    BY <1>2, <2>3 DEF AccumulateDistance
  <2>6. \A p, q \in Points : Metric[p][q] \in Nat
    BY MetricsAssumption
  <2>7. distance' \in Nat /\ distance <= distance'
    BY <1>2, <2>1, <2>6 DEF AccumulateDistance, TypeOK
  <2>8. ASSUME NEW i \in 1..n
        PROVE  Metric[track[i]][point] <= distance'
    <3>1. PICK p \in Points, last \in Points : p = track[i] /\ last = track[n]
      BY <2>4
    <3>2. previous_point = last /\ previous_point # None
      BY <2>2, <3>1, MetricsAssumption DEF DistanceInv
    <3>3. distance' = distance + Metric[last][point]
      BY <1>2, <3>2 DEF AccumulateDistance
    <3>4. Metric[p][last] <= distance
      BY <2>4, <3>1 DEF DistanceInv, DistanceCoversDisplacement
    <3>5. Metric[p][point] <= Metric[p][last] + Metric[last][point]
      BY <2>1, MetricsAssumption
    <3>6. Metric[p][last] \in Nat /\ Metric[last][point] \in Nat /\ Metric[p][point] \in Nat
      BY <2>1, <2>6
    <3>7. PICK a, b, c, d \in Nat :
            /\ a = Metric[p][last] /\ b = Metric[last][point] /\ c = Metric[p][point]
            /\ d = distance
      BY <2>1, <3>6
    <3>8. c <= d + b
      BY <3>4, <3>5, <3>7
    <3> QED
      BY <3>1, <3>3, <3>7, <3>8
  <2>9. Metric[point][point] <= distance'
    BY <2>1, <2>7, MetricsAssumption
  <2>10. ASSUME NEW j \in 1..(n + 1), NEW i \in 1..j
         PROVE  Metric[longer[i]][longer[j]] <= distance'
    <3>1. CASE j = n + 1
      <4>1. i \in 1..n \/ i = n + 1
        BY <3>1
      <4> QED
        BY <2>4, <2>8, <2>9, <3>1, <4>1
    <3>2. CASE j # n + 1
      <4>1. j \in 1..n /\ i \in 1..n
        BY <3>2
      <4>2. PICK p \in Points, q \in Points :
              p = track[i] /\ q = track[j] /\ longer[i] = p /\ longer[j] = q
        BY <2>4, <4>1
      <4>3. Metric[p][q] <= distance
        BY <2>4, <4>1, <4>2 DEF DistanceInv, DistanceCoversDisplacement
      <4>4. Metric[p][q] \in Nat
        BY <2>6
      <4> QED
        BY <2>1, <2>7, <4>2, <4>3, <4>4
    <3> QED
      BY <3>1, <3>2
  <2>11. longer # <<>>
    BY <2>4
  <2> QED
    BY <2>4, <2>5, <2>10, <2>11 DEF DistanceInv, DistanceCoversDisplacement
<1> QED
  BY <1>1, <1>2

(* The distance driven covers the displacement between any two points, for *)
(* any metric and any rows without a position.                             *)
THEOREM DistanceCoversTrack == Spec => []DistanceCoversDisplacement
<1>1. Init => DistanceInv
  BY DEF Init, DistanceInv, DistanceCoversDisplacement
<1>2. TypeOK /\ DistanceInv /\ [Next]_vars => DistanceInv'
  <2> SUFFICES ASSUME TypeOK, DistanceInv, [Next]_vars PROVE DistanceInv'
    OBVIOUS
  <2>1. CASE NextRow
    <3>1. PICK point \in Points \cup {None} :
            /\ AccumulateDistance(point)
            /\ track' = IF point = None THEN track ELSE Append(track, point)
      BY <2>1, RowParts
    <3> QED
      BY <3>1, DistanceInvStep
  <2>2. CASE Finish \/ UNCHANGED vars
    BY <2>2 DEF Finish, vars, driven, DistanceInv, DistanceCoversDisplacement
  <2> QED
    BY <2>1, <2>2 DEF Next
<1>3. DistanceInv => DistanceCoversDisplacement
  BY DEF DistanceInv
<1> QED
  BY <1>1, <1>2, <1>3, MetricsTypeCorrect, PTL DEF Spec

-----------------------------------------------------------------------------
(* The speeds counted are at most the greatest each.                       *)
SumInv ==
  /\ speed_count = 0 => speed_sum = 0 /\ max_speed = None
  /\ speed_count # 0 => max_speed \in Nat /\ speed_sum <= max_speed * speed_count

(* What was returned is the sum and the count of the speeds.               *)
ReportInv ==
  report # None =>
    report.mean = IF speed_count = 0 THEN None ELSE [sum |-> speed_sum, count |-> MeanCount]

(* One more speed, which may be the greatest.                              *)
LEMMA SumStaysBelow ==
  ASSUME NEW sum \in Nat, NEW count \in Nat, NEW old \in Nat, NEW greatest \in Nat,
         NEW speed \in Nat, sum <= old * count, old <= greatest, speed <= greatest
  PROVE  sum + speed <= greatest * (count + 1)
<1>1. count * old <= count * greatest /\ count * old \in Nat /\ count * greatest \in Nat
  BY ProductMonotonic
<1>2. PICK a \in Nat, b \in Nat : a = old * count /\ b = greatest * count /\ a <= b
  BY <1>1
<1>3. greatest * (count + 1) = b + greatest
  BY <1>2
<1>4. sum + speed <= b + greatest
  BY <1>2
<1> QED
  BY <1>3, <1>4

(* A row keeps the sum below the maximum.                                  *)
LEMMA SumStep ==
  ASSUME TypeOK, SumInv, NEW speed \in Nat \cup {None}, NEW time \in Time \cup {None},
         AccumulateSpeed(speed, time)
  PROVE  SumInv'
<1>1. CASE speed = None
  BY <1>1 DEF AccumulateSpeed, SumInv
<1>2. CASE speed # None
  <2>1. /\ max_speed' = IF max_speed = None \/ speed > max_speed THEN speed ELSE max_speed
        /\ speed_sum' = speed_sum + speed
        /\ speed_count' = speed_count + 1
    BY <1>2 DEF AccumulateSpeed
  <2>2. speed \in Nat /\ speed_sum \in Nat /\ speed_count \in Nat
    BY <1>2, MetricsAssumption DEF TypeOK
  <2>3. CASE speed_count = 0
    <3>1. max_speed' = speed /\ speed_sum' = speed /\ speed_count' = 1
      BY <2>1, <2>2, <2>3 DEF SumInv
    <3> QED
      BY <2>2, <3>1, speed * 1 = speed DEF SumInv
  <2>4. CASE speed_count # 0
    <3>1. PICK old \in Nat : old = max_speed /\ speed_sum <= old * speed_count
      BY <2>4 DEF SumInv
    <3>2. PICK greatest \in Nat : greatest = max_speed' /\ old <= greatest /\ speed <= greatest
      <4>1. old # None
        BY DecoderAssumption
      <4> QED
        BY <2>1, <2>2, <3>1, <4>1
    <3>3. speed_sum + speed <= greatest * (speed_count + 1)
      BY <2>2, <3>1, <3>2, SumStaysBelow
    <3>4. PICK sum \in Nat, count \in Nat :
            sum = speed_sum + speed /\ count = speed_count + 1 /\ sum <= greatest * count
      BY <2>2, <3>3
    <3>5. speed_sum' = sum /\ speed_count' = count /\ max_speed' = greatest /\ count # 0
      BY <2>1, <2>2, <3>2, <3>4
    <3> QED
      BY <3>4, <3>5 DEF SumInv
  <2> QED
    BY <2>3, <2>4
<1> QED
  BY <1>1, <1>2

(* The mean speed reported is at most the greatest one, whatever was       *)
(* recorded, as long as a u32 counts the speeds.                           *)
THEOREM MeanStaysBelowMaximum == Spec => []MeanIsBelowMaximum
<1>1. Init => SumInv /\ ReportInv
  BY DEF Init, SumInv, ReportInv
<1>2. TypeOK /\ SumInv /\ ReportInv /\ [Next]_vars => SumInv' /\ ReportInv'
  <2> SUFFICES ASSUME TypeOK, SumInv, ReportInv, [Next]_vars PROVE SumInv' /\ ReportInv'
    OBVIOUS
  <2>1. CASE NextRow
    <3>1. PICK time \in Time \cup {None}, speed \in Nat \cup {None} :
            AccumulateSpeed(speed, time) /\ report = None /\ report' = report
      BY <2>1, RowParts
    <3> QED
      BY <3>1, SumStep DEF ReportInv
  <2>2. CASE Finish
    <3>1. SumInv'
      BY <2>2 DEF Finish, speeds, SumInv
    <3>2. report'.mean = IF speed_count = 0 THEN None ELSE [sum |-> speed_sum, count |-> MeanCount]
      BY <2>2 DEF Finish
    <3>3. UNCHANGED <<speed_count, speed_sum>> /\ MeanCount' = MeanCount
      BY <2>2 DEF Finish, speeds, MeanCount
    <3> QED
      BY <3>1, <3>2, <3>3 DEF ReportInv
  <2>3. CASE UNCHANGED vars
    BY <2>3 DEF vars, speeds, SumInv, ReportInv, MeanCount
  <2> QED
    BY <2>1, <2>2, <2>3 DEF Next
<1>3. TypeOK /\ SumInv /\ ReportInv => MeanIsBelowMaximum
  <2> SUFFICES ASSUME TypeOK, SumInv, ReportInv, report # None, speed_count \in 1..CountLimit
               PROVE  report.mean.sum <= max_speed * report.mean.count
    BY DEF MeanIsBelowMaximum
  <2>1. speed_count # 0 /\ MeanCount = speed_count
    BY MetricsAssumption DEF MeanCount
  <2>2. report.mean.sum = speed_sum /\ report.mean.count = speed_count
    BY <2>1 DEF ReportInv
  <2> QED
    BY <2>1, <2>2 DEF SumInv
<1> QED
  BY <1>1, <1>2, <1>3, MetricsTypeCorrect, PTL DEF Spec

-----------------------------------------------------------------------------
(* A common positive factor cancels.                                       *)
LEMMA ScaleReflectsOrder ==
  ASSUME NEW x \in Int, NEW y \in Int, NEW k \in Nat \ {0}, x * k <= y * k
  PROVE  x <= y
<1>1. SUFFICES ASSUME y + 1 <= x PROVE FALSE
  OBVIOUS
<1>2. (y + 1) * k <= x * k
  BY <1>1, ScaleKeepsOrder
<1>3. (y + 1) * k = y * k + k /\ y * k \in Int /\ x * k \in Int
  OBVIOUS
<1> QED
  BY <1>2, <1>3

(* The order of quotients is transitive.                                   *)
LEMMA AtMostTransitive ==
  ASSUME NEW a \in Quotient, NEW b \in Quotient, NEW c \in Quotient,
         AtMost(a, b), AtMost(b, c)
  PROVE  AtMost(a, c)
<1>1. PICK ac \in Int, bc \in Int, cc \in Int, sa \in Nat \ {0}, sb \in Nat \ {0}, sc \in Nat \ {0} :
        /\ ac = a.change /\ bc = b.change /\ cc = c.change
        /\ sa = a.seconds /\ sb = b.seconds /\ sc = c.seconds
  BY DEF Quotient
<1>2. ac * sb <= bc * sa /\ bc * sc <= cc * sb
  BY <1>1 DEF AtMost
<1>3. PICK x \in Int, y \in Int, z \in Int, w \in Int :
        x = ac * sb /\ y = bc * sa /\ z = bc * sc /\ w = cc * sb
  <2>1. ac * sb \in Int /\ bc * sa \in Int  OBVIOUS
  <2>2. bc * sc \in Int /\ cc * sb \in Int  OBVIOUS
  <2> QED  BY <2>1, <2>2
<1> sa \in Int /\ sb \in Int /\ sc \in Int
  OBVIOUS
<1>4. x * sc <= y * sc
  BY <1>2, <1>3, ScaleKeepsOrder
<1>5. z * sa <= w * sa
  BY <1>2, <1>3, ScaleKeepsOrder
<1>6. y * sc = z * sa
  <2>1. y = bc * sa /\ z = bc * sc
    BY <1>3
  <2> QED
    BY <2>1, SwapFactors
<1>10. PICK u \in Int, v \in Int : u = ac * sc /\ v = cc * sa
  <2>1. ac * sc \in Int /\ cc * sa \in Int  OBVIOUS
  <2> QED  BY <2>1
<1>7. x * sc = u * sb
  BY <1>3, <1>10, SwapFactors
<1>8. w * sa = v * sb
  <2>1. w = cc * sb /\ v = cc * sa
    BY <1>3, <1>10
  <2> QED
    BY <2>1, SwapFactors
<1>9. x * sc <= w * sa
  <2>1. x * sc \in Int /\ y * sc \in Int /\ w * sa \in Int
    OBVIOUS
  <2>2. PICK l \in Int, m \in Int, r \in Int : l = x * sc /\ m = y * sc /\ r = w * sa
    BY <2>1
  <2>3. l <= m
    BY <2>2, <1>4, Zenon
  <2>4. m <= r
    BY <2>2, <1>5, <1>6, Zenon
  <2>5. l <= r
    BY <2>3, <2>4
  <2> QED
    BY <2>2, <2>5, Zenon
<1>11. u * sb <= v * sb
  BY <1>7, <1>8, <1>9, <1>10
<1>12. u <= v
  BY <1>11, ScaleReflectsOrder
<1> QED
  BY <1>1, <1>10, <1>12 DEF AtMost

(* Of two quotients one is at most the other.                              *)
LEMMA AtMostTotal ==
  ASSUME NEW a \in Quotient, NEW b \in Quotient
  PROVE  AtMost(a, b) \/ AtMost(b, a)
BY DEF Quotient, AtMost

(* Two stretches one behind the other: bounds of both bound the whole.     *)
LEMMA StretchesAdd ==
  ASSUME NEW p \in Quotient, NEW a \in Quotient, NEW b \in Quotient,
         NEW c \in Quotient,
         c = [change |-> a.change + b.change, seconds |-> a.seconds + b.seconds]
  PROVE  /\ AtMost(p, a) /\ AtMost(p, b) => AtMost(p, c)
         /\ AtMost(a, p) /\ AtMost(b, p) => AtMost(c, p)
<1>1. PICK ac \in Int, bc \in Int, pc \in Int, sa \in Nat \ {0}, sb \in Nat \ {0}, sp \in Nat \ {0} :
        /\ ac = a.change /\ bc = b.change /\ pc = p.change
        /\ sa = a.seconds /\ sb = b.seconds /\ sp = p.seconds
  BY DEF Quotient
<1>2. c.change = ac + bc /\ c.seconds = sa + sb
  BY <1>1
<1>3. PICK x \in Int, y \in Int, z \in Int, w \in Int :
        x = pc * sa /\ y = pc * sb /\ z = ac * sp /\ w = bc * sp
  <2>1. pc * sa \in Int /\ pc * sb \in Int  OBVIOUS
  <2>2. ac * sp \in Int /\ bc * sp \in Int  OBVIOUS
  <2> QED  BY <2>1, <2>2
<1> sa \in Int /\ sb \in Int /\ sp \in Int
  OBVIOUS
<1>4. pc * (sa + sb) = x + y
  <2>1. pc * (sa + sb) = pc * sa + pc * sb
    BY DistributeRight, Zenon
  <2> QED
    BY <1>3, <2>1, Zenon
<1>5. (ac + bc) * sp = z + w
  BY <1>3, DistributeLeft
<1>6. x <= z /\ y <= w => x + y <= z + w
  BY SumKeepsOrder
<1>7. z <= x /\ w <= y => z + w <= x + y
  BY SumKeepsOrder
<1> QED
  BY <1>1, <1>2, <1>3, <1>4, <1>5, <1>6, <1>7 DEF AtMost

-----------------------------------------------------------------------------
(* Each row with speed and time is a time step after the one before it.    *)
DistinctSteps(fs) ==
  \A i \in 1..(Len(fs) - 1) : fs[i + 1].clock - fs[i].clock \in 1..(HalfDay - 1)
Increasing(fs) == \A j \in 1..Len(fs) : \A i \in 1..(j - 1) : fs[i].clock < fs[j].clock

\* The mean change of speed over a stretch, and what peaks promise of it.
Mean(fs, i, j) ==
  [change |-> fs[j].speed - fs[i].speed, seconds |-> fs[j].clock - fs[i].clock]
Bounded(fs, lo, hi) ==
  \A j \in 1..Len(fs) : \A i \in 1..(j - 1) :
    AtMost(lo, Mean(fs, i, j)) /\ AtMost(Mean(fs, i, j), hi)
Reached(fs, peak) == \E i \in 1..(Len(fs) - 1) : peak = Mean(fs, i, i + 1)

(* The property in these words.                                            *)
LEMMA PeaksReworded ==
  ASSUME TypeOK
  PROVE  PeaksBoundEveryStretch <=>
           (DistinctSteps(fixes) =>
              /\ Bounded(fixes, peak_braking, peak_acceleration)
              /\ \A peak \in {peak_braking, peak_acceleration} \ {None} : Reached(fixes, peak))
<1>1. DOMAIN fixes = 1..Len(fixes)
  BY DEF TypeOK
<1> QED
  BY <1>1, Zenon DEF PeaksBoundEveryStretch, DistinctSteps, Bounded, Reached, Mean

(* A stretch that takes time has a mean.                                   *)
LEMMA MeanIsQuotient ==
  ASSUME NEW fs \in Seq(Fix), NEW i \in 1..Len(fs), NEW j \in 1..Len(fs),
         fs[i].clock < fs[j].clock
  PROVE  Mean(fs, i, j) \in Quotient
<1>1. PICK f \in Fix, g \in Fix : f = fs[i] /\ g = fs[j]
  OBVIOUS
<1>2. f.speed \in Nat /\ f.clock \in Int /\ g.speed \in Nat /\ g.clock \in Int
  BY DEF Fix
<1>3. g.speed - f.speed \in Int /\ g.clock - f.clock \in Nat \ {0}
  BY <1>1, <1>2
<1> QED
  BY <1>1, <1>3 DEF Mean, Quotient

\* What a quotient makes of the peaks, and the mean over the last step.
LowerPeak(lo, a) == IF lo = None \/ AtMost(a, lo) THEN a ELSE lo
HigherPeak(hi, a) == IF hi = None \/ AtMost(hi, a) THEN a ELSE hi
LastMean(fs, fix) == Mean(Append(fs, fix), Len(fs), Len(fs) + 1)

(* Peaks that are moved by the change over the last step bound every       *)
(* stretch that ends there.                                                *)
LEMMA PeaksExtend ==
  ASSUME NEW fs \in Seq(Fix), fs # <<>>, NEW fix \in Fix,
         NEW lo \in Quotient \cup {None}, NEW hi \in Quotient \cup {None},
         DistinctSteps(Append(fs, fix)), Increasing(fs),
         Len(fs) > 1 => lo # None /\ hi # None,
         Bounded(fs, lo, hi)
  PROVE  /\ LastMean(fs, fix) \in Quotient
         /\ Increasing(Append(fs, fix))
         /\ Bounded(Append(fs, fix), LowerPeak(lo, LastMean(fs, fix)),
                    HigherPeak(hi, LastMean(fs, fix)))
<1>0. PICK n, gs : n = Len(fs) /\ gs = Append(fs, fix)
  OBVIOUS
<1> n \in Nat \ {0}
  BY <1>0
<1>a. PICK a : a = Mean(gs, n, n + 1)
  OBVIOUS
<1>b. PICK lo2, hi2 : lo2 = LowerPeak(lo, a) /\ hi2 = HigherPeak(hi, a)
  OBVIOUS
<1> /\ n = Len(fs) /\ gs = Append(fs, fix) /\ a = Mean(gs, n, n + 1) /\ DistinctSteps(gs)
    /\ n > 1 => lo # None /\ hi # None
  BY <1>0, <1>a
<1>1. /\ gs \in Seq(Fix) /\ Len(gs) = n + 1 /\ gs[n + 1] = fix
      /\ \A i \in 1..n : gs[i] = fs[i] /\ gs[i] \in Fix
  OBVIOUS
<1>2. \A i \in 1..(n + 1) : gs[i].clock \in Int /\ gs[i].speed \in Int
  BY <1>1 DEF Fix
<1>3. gs[n].clock < gs[n + 1].clock
  <2>1. gs[n + 1].clock - gs[n].clock \in 1..(HalfDay - 1)
    BY <1>1 DEF DistinctSteps
  <2> QED
    BY <1>2, <2>1, DayFacts
<1>4. ASSUME NEW i \in 1..n
      PROVE  gs[i].clock < gs[n + 1].clock
  <2>1. CASE i = n
    BY <1>3, <2>1
  <2>2. CASE i # n
    <3>1. i \in 1..(n - 1) /\ n \in 1..n
      BY <2>2
    <3>2. gs[i].clock < gs[n].clock
      BY <1>1, <3>1 DEF Increasing
    <3> QED
      BY <1>2, <1>3, <3>1, <3>2
  <2> QED
    BY <2>1, <2>2
<1>5. Increasing(gs)
  <2> SUFFICES ASSUME NEW j \in 1..(n + 1), NEW i \in 1..(j - 1)
               PROVE  gs[i].clock < gs[j].clock
    BY <1>1 DEF Increasing
  <2>1. CASE j = n + 1
    BY <1>4, <2>1
  <2>2. CASE j # n + 1
    <3>1. j \in 1..n /\ i \in 1..n
      BY <2>2
    <3> QED
      BY <1>1, <3>1 DEF Increasing
  <2> QED
    BY <2>1, <2>2
<1>6. \A j \in 1..(n + 1) : \A i \in 1..(j - 1) : Mean(gs, i, j) \in Quotient
  <2> TAKE j \in 1..(n + 1)
  <2> TAKE i \in 1..(j - 1)
  <2>1. gs[i].clock < gs[j].clock /\ i \in 1..Len(gs) /\ j \in 1..Len(gs)
    BY <1>1, <1>5 DEF Increasing
  <2> QED
    BY <1>1, <2>1, MeanIsQuotient
<1>7. a \in Quotient
  BY <1>6
<1>8. /\ lo2 \in Quotient /\ hi2 \in Quotient
      /\ AtMost(lo2, a) /\ AtMost(a, hi2)
      /\ lo # None => AtMost(lo2, lo)
      /\ hi # None => AtMost(hi, hi2)
  BY <1>b, <1>7, AtMostTotal DEF LowerPeak, HigherPeak
<1>9. ASSUME NEW j \in 1..n, NEW i \in 1..(j - 1)
      PROVE  AtMost(lo2, Mean(gs, i, j)) /\ AtMost(Mean(gs, i, j), hi2)
  <2>1. i \in 1..n /\ j \in 1..(n + 1) /\ n > 1
    OBVIOUS
  <2>2. Mean(gs, i, j) = Mean(fs, i, j)
    BY <1>1, <2>1 DEF Mean
  <2>3. AtMost(lo, Mean(gs, i, j)) /\ AtMost(Mean(gs, i, j), hi)
    BY <2>2 DEF Bounded
  <2>4. lo \in Quotient /\ hi \in Quotient /\ AtMost(lo2, lo) /\ AtMost(hi, hi2)
    BY <1>8, <2>1
  <2>5. Mean(gs, i, j) \in Quotient
    BY <1>6, <2>1
  <2> QED
    BY <1>8, <2>3, <2>4, <2>5, AtMostTransitive
<1>10. ASSUME NEW i \in 1..n
       PROVE  AtMost(lo2, Mean(gs, i, n + 1)) /\ AtMost(Mean(gs, i, n + 1), hi2)
  <2>1. CASE i = n
    BY <1>8, <2>1
  <2>2. CASE i # n
    <3>1. i \in 1..(n - 1) /\ n \in 1..n /\ n + 1 \in 1..(n + 1) /\ i \in 1..((n + 1) - 1)
      BY <2>2
    <3>2. PICK b \in Quotient, c \in Quotient : b = Mean(gs, i, n) /\ c = Mean(gs, i, n + 1)
      BY <1>6, <3>1
    <3>3. AtMost(lo2, b) /\ AtMost(b, hi2)
      BY <1>9, <3>1, <3>2
    <3>4. c = [change |-> b.change + a.change, seconds |-> b.seconds + a.seconds]
      <4>1. PICK x \in Int, y \in Int, z \in Int :
              x = gs[i].speed /\ y = gs[n].speed /\ z = gs[n + 1].speed
        BY <1>2
      <4>2. PICK u \in Int, v \in Int, w \in Int :
              u = gs[i].clock /\ v = gs[n].clock /\ w = gs[n + 1].clock
        BY <1>2
      <4>3. z - x = (y - x) + (z - y) /\ w - u = (v - u) + (w - v)
        OBVIOUS
      <4>4. /\ b.change = y - x /\ b.seconds = v - u
            /\ a.change = z - y /\ a.seconds = w - v
            /\ c = [change |-> z - x, seconds |-> w - u]
        BY <3>2, <4>1, <4>2 DEF Mean
      <4> QED
        BY <4>3, <4>4
    <3> QED
      BY <1>7, <1>8, <3>2, <3>3, <3>4, StretchesAdd
  <2> QED
    BY <2>1, <2>2
<1>11. Bounded(gs, lo2, hi2)
  <2> SUFFICES ASSUME NEW j \in 1..(n + 1), NEW i \in 1..(j - 1)
               PROVE  AtMost(lo2, Mean(gs, i, j)) /\ AtMost(Mean(gs, i, j), hi2)
    BY <1>1 DEF Bounded
  <2>1. CASE j = n + 1
    BY <1>10, <2>1
  <2>2. CASE j # n + 1
    BY <1>9, <2>2
  <2> QED
    BY <2>1, <2>2
<1> QED
  BY <1>0, <1>a, <1>b, <1>5, <1>7, <1>11 DEF LastMean

(* The reference for the next acceleration is the last row with speed and  *)
(* time; after two of them there are peaks, and they bound every stretch.  *)
PeakInv ==
  /\ fixes = <<>> => previous_speed = None
  /\ fixes # <<>> =>
       previous_speed = [speed |-> fixes[Len(fixes)].speed, time |-> fixes[Len(fixes)].clock % Day]
  /\ DistinctSteps(fixes) =>
       /\ Increasing(fixes)
       /\ Len(fixes) > 1 => peak_braking # None /\ peak_acceleration # None
  /\ PeaksBoundEveryStretch

(* A row that is not the first with speed and time keeps the peaks.        *)
LEMMA PeakStepExtends ==
  ASSUME TypeOK, PeakInv, NEW speed \in Nat, NEW time \in Time, AccumulateSpeed(speed, time),
         now' \in Int, time = now' % Day, fixes # <<>>,
         fixes' = Append(fixes, [speed |-> speed, clock |-> now'])
  PROVE  PeakInv'
<1> speed # None /\ time # None
  BY DecoderAssumption, DayFacts DEF Time
<1>1. PICK clock \in Int : clock = now'
  OBVIOUS
<1>2. PICK fix \in Fix : fix = [speed |-> speed, clock |-> clock]
  BY DEF Fix
<1>3. fixes \in Seq(Fix)
  BY DEF TypeOK, Fix
<1>4. PICK n \in Nat \ {0} : n = Len(fixes)
  BY <1>3
<1>5. PICK gs : gs = Append(fixes, fix)
  OBVIOUS
<1>6. /\ gs \in Seq(Fix) /\ Len(gs) = n + 1 /\ gs[n + 1] = fix
      /\ \A i \in 1..n : gs[i] = fixes[i] /\ fixes[i] \in Fix
  BY <1>3, <1>4, <1>5
<1>7. fixes' = gs
  BY <1>1, <1>2, <1>5
<1>8. previous_speed' = [speed |-> gs[n + 1].speed, time |-> gs[n + 1].clock % Day]
  <2>1. previous_speed' = [speed |-> speed, time |-> time]
    BY DEF AccumulateSpeed
  <2> QED
    BY <1>1, <1>2, <1>6, <2>1
<1>9. ASSUME DistinctSteps(gs)
      PROVE  /\ Increasing(gs)
             /\ peak_braking' # None /\ peak_acceleration' # None
             /\ Bounded(gs, peak_braking', peak_acceleration')
             /\ Reached(gs, peak_braking') /\ Reached(gs, peak_acceleration')
  <2>1. DistinctSteps(fixes)
    <3>1. \A i \in 1..(n - 1) : gs[i + 1] = fixes[i + 1] /\ gs[i] = fixes[i] /\ i \in 1..n
      BY <1>6
    <3> QED
      BY <1>4, <1>6, <1>9, <3>1 DEF DistinctSteps
  <2>2. /\ Increasing(fixes)
        /\ n > 1 => peak_braking # None /\ peak_acceleration # None
        /\ Bounded(fixes, peak_braking, peak_acceleration)
        /\ \A peak \in {peak_braking, peak_acceleration} \ {None} : Reached(fixes, peak)
    BY <1>4, <2>1, PeaksReworded DEF PeakInv
  <2>3. PICK a : a = Mean(gs, n, n + 1)
    OBVIOUS
  <2>4. Acceleration(speed, time) = a
    <3>1. PICK last \in Fix : last = fixes[n] /\ last = gs[n]
      BY <1>6
    <3>2. last.speed \in Nat /\ last.clock \in Int /\ fix.speed = speed /\ fix.clock = clock
      BY <1>2 DEF Fix
    <3>3. clock - last.clock \in 1..(HalfDay - 1)
      BY <1>6, <1>9, <3>1, <3>2 DEF DistinctSteps
    <3>4. previous_speed = [speed |-> last.speed, time |-> last.clock % Day] /\ previous_speed # None
      <4>1. previous_speed = [speed |-> last.speed, time |-> last.clock % Day]
        BY <1>4, <3>1 DEF PeakInv
      <4>2. previous_speed \in TimedSpeed
        <5>1. last.clock % Day \in Nat /\ last.clock % Day < Day
          BY <3>2, ClockDivides
        <5> QED
          BY <3>2, <4>1, <5>1, TimeFacts DEF TimedSpeed, Time
      <4> QED
        BY <4>1, <4>2, MetricsAssumption
    <3>5. ForwardDelta(last.clock % Day, time) = clock - last.clock
      <4>1. clock - last.clock >= 0 /\ clock - last.clock < HalfDay
        BY <3>2, <3>3, DayFacts
      <4> QED
        BY <1>1, <3>2, <4>1, DeltaIsTrue
    <3>6. PICK d \in Nat \ {0} : d = clock - last.clock
      BY <3>2, <3>3, DayFacts
    <3>7. Acceleration(speed, time) = [change |-> speed - last.speed, seconds |-> d]
      BY <3>4, <3>5, <3>6, DecoderAssumption DEF Acceleration
    <3> QED
      BY <1>6, <2>3, <3>1, <3>2, <3>6, <3>7 DEF Mean
  <2>5. /\ peak_acceleration \in Quotient \cup {None} /\ peak_braking \in Quotient \cup {None}
        /\ Bounded(fixes, peak_braking, peak_acceleration)
    BY <2>2 DEF TypeOK
  <2>6. PICK lo2, hi2 : lo2 = LowerPeak(peak_braking, a) /\ hi2 = HigherPeak(peak_acceleration, a)
    OBVIOUS
  <2>7. a \in Quotient /\ Increasing(gs) /\ Bounded(gs, lo2, hi2)
    <3>1. a = LastMean(fixes, fix)
      BY <1>4, <1>5, <2>3 DEF LastMean
    <3>2. fixes # <<>> /\ DistinctSteps(Append(fixes, fix)) /\ Increasing(fixes)
      BY <1>5, <1>9, <2>2
    <3>3. Len(fixes) > 1 => peak_braking # None /\ peak_acceleration # None
      BY <1>4, <2>2
    <3> QED
      BY <1>3, <1>5, <2>5, <2>6, <3>1, <3>2, <3>3, PeaksExtend
  <2>8. a # None
    BY <2>7, MetricsAssumption
  <2>9. peak_braking' = lo2 /\ peak_acceleration' = hi2
    BY <2>4, <2>6, <2>8 DEF AccumulateSpeed, LowerPeak, HigherPeak
  <2>10. lo2 # None /\ hi2 # None
    BY <2>6, <2>8 DEF LowerPeak, HigherPeak
  <2>11. Reached(gs, a)
    BY <1>6, <2>3 DEF Reached
  <2>12. ASSUME NEW peak, Reached(fixes, peak)
         PROVE  Reached(gs, peak)
    <3>1. PICK i \in 1..(n - 1) : peak = Mean(fixes, i, i + 1)
      BY <1>4, <2>12 DEF Reached
    <3>2. i \in 1..n /\ i + 1 \in 1..n
      BY <3>1
    <3>3. peak = Mean(gs, i, i + 1)
      BY <1>6, <3>1, <3>2 DEF Mean
    <3> QED
      BY <1>6, <3>2, <3>3 DEF Reached
  <2>13. Reached(gs, lo2) /\ Reached(gs, hi2)
    BY <2>2, <2>6, <2>11, <2>12 DEF LowerPeak, HigherPeak
  <2> QED
    BY <2>7, <2>9, <2>10, <2>13
<1>10. PeaksBoundEveryStretch' <=>
         (DistinctSteps(gs) =>
            /\ Bounded(gs, peak_braking', peak_acceleration')
            /\ \A peak \in {peak_braking', peak_acceleration'} \ {None} : Reached(gs, peak))
  <2>1. DOMAIN gs = 1..Len(gs)
    BY <1>6
  <2> QED
    BY <1>7, <2>1, Zenon DEF PeaksBoundEveryStretch, DistinctSteps, Bounded, Reached, Mean
<1>11. gs # <<>>
  BY <1>6
<1>12. DistinctSteps(gs) =>
         /\ Increasing(gs)
         /\ Len(gs) > 1 => peak_braking' # None /\ peak_acceleration' # None
  BY <1>9
<1>13. PeaksBoundEveryStretch'
  BY <1>9, <1>10
<1> QED
  BY <1>6, <1>7, <1>8, <1>11, <1>12, <1>13 DEF PeakInv

(* The first row with speed and time has no peak to set.                   *)
LEMMA PeakStepFirst ==
  ASSUME TypeOK, PeakInv, NEW speed \in Nat, NEW time \in Time, AccumulateSpeed(speed, time),
         now' \in Int, time = now' % Day, fixes = <<>>,
         fixes' = Append(fixes, [speed |-> speed, clock |-> now'])
  PROVE  PeakInv'
<1> speed # None /\ time # None
  BY DecoderAssumption, DayFacts DEF Time
<1>1. PICK clock \in Int : clock = now'
  OBVIOUS
<1>2. PICK fix \in Fix : fix = [speed |-> speed, clock |-> clock]
  BY DEF Fix
<1>3. PICK gs : gs = <<fix>>
  OBVIOUS
<1>4. Len(gs) = 1 /\ gs[1] = fix /\ DOMAIN gs = 1..1 /\ gs # <<>>
  BY <1>3
<1>5. fixes' = gs
  BY <1>1, <1>2, <1>3
<1>6. previous_speed = None /\ peak_braking = None /\ peak_acceleration = None
  <2>1. PeaksBoundEveryStretch /\ Len(fixes) = 0
    BY DEF PeakInv
  <2>2. \A i \in 1..(0 - 1) : FALSE
    OBVIOUS
  <2>3. DistinctSteps(fixes)
    BY <2>1, <2>2 DEF DistinctSteps
  <2>4. ~Reached(fixes, peak_braking) /\ ~Reached(fixes, peak_acceleration)
    BY <2>1, <2>2 DEF Reached
  <2> QED
    BY <2>1, <2>3, <2>4, PeaksReworded DEF PeakInv
<1>7. peak_braking' = None /\ peak_acceleration' = None
  BY <1>6 DEF AccumulateSpeed, Acceleration
<1>8. previous_speed' = [speed |-> gs[Len(gs)].speed, time |-> gs[Len(gs)].clock % Day]
  <2>1. previous_speed' = [speed |-> speed, time |-> time]
    BY DEF AccumulateSpeed
  <2> QED
    BY <1>1, <1>2, <1>4, <2>1
<1>9. Increasing(gs) /\ Bounded(gs, None, None)
  <2>1. \A j \in 1..1 : \A i \in 1..(j - 1) : FALSE
    OBVIOUS
  <2> QED
    BY <1>4, <2>1 DEF Increasing, Bounded
<1>10. PeaksBoundEveryStretch'
  <2>1. PeaksBoundEveryStretch' <=>
          (DistinctSteps(gs) =>
             /\ Bounded(gs, None, None)
             /\ \A peak \in {None, None} \ {None} : Reached(gs, peak))
    BY <1>4, <1>5, <1>7, Zenon DEF PeaksBoundEveryStretch, DistinctSteps, Bounded, Reached, Mean
  <2> QED
    BY <1>9, <2>1
<1> QED
  BY <1>4, <1>5, <1>8, <1>9, <1>10 DEF PeakInv

(* Over any stretch the mean change of speed lies between the peaks, and   *)
(* neighbours reach them, in recordings of any length, with rows that lack *)
(* a time or a speed in between.                                           *)
THEOREM PeaksBoundStretches == Spec => []PeaksBoundEveryStretch
<1>1. Init => PeakInv
  <2> SUFFICES ASSUME Init PROVE PeakInv
    OBVIOUS
  <2>1. /\ fixes = <<>> /\ Len(fixes) = 0 /\ DOMAIN fixes = {} /\ previous_speed = None
        /\ peak_braking = None /\ peak_acceleration = None
    BY DEF Init
  <2>2. Increasing(fixes)
    BY <2>1 DEF Increasing
  <2>3. PeaksBoundEveryStretch
    BY <2>1 DEF PeaksBoundEveryStretch
  <2> QED
    BY <2>1, <2>2, <2>3 DEF PeakInv
<1>2. TypeOK /\ PeakInv /\ [Next]_vars => PeakInv'
  <2> SUFFICES ASSUME TypeOK, PeakInv, [Next]_vars PROVE PeakInv'
    OBVIOUS
  <2>1. CASE NextRow
    <3>1. PICK time \in Time \cup {None}, speed \in Nat \cup {None} :
            /\ AccumulateSpeed(speed, time) /\ now' \in Int
            /\ time # None => time = now' % Day
            /\ fixes' = IF speed = None \/ time = None THEN fixes
                        ELSE Append(fixes, [speed |-> speed, clock |-> now'])
      BY <2>1, RowParts
    <3>2. CASE speed = None \/ time = None
      <4>1. UNCHANGED <<previous_speed, peak_acceleration, peak_braking, fixes>>
        BY <3>1, <3>2 DEF AccumulateSpeed, Acceleration
      <4> QED
        BY <4>1 DEF PeakInv, PeaksBoundEveryStretch
    <3>3. CASE speed # None /\ time # None
      <4>1. speed \in Nat /\ time \in Time /\ time = now' % Day
        BY <3>1, <3>3
      <4>2. fixes' = Append(fixes, [speed |-> speed, clock |-> now'])
        BY <3>1, <3>3
      <4>3. CASE fixes = <<>>
        BY <3>1, <4>1, <4>2, <4>3, PeakStepFirst
      <4>4. CASE fixes # <<>>
        BY <3>1, <4>1, <4>2, <4>4, PeakStepExtends
      <4> QED
        BY <4>3, <4>4
    <3> QED
      BY <3>2, <3>3
  <2>2. CASE Finish \/ UNCHANGED vars
    <3>1. UNCHANGED <<previous_speed, peak_acceleration, peak_braking, fixes>>
      BY <2>2 DEF Finish, vars, speeds
    <3> QED
      BY <3>1 DEF PeakInv, PeaksBoundEveryStretch
  <2> QED
    BY <2>1, <2>2 DEF Next
<1>3. PeakInv => PeaksBoundEveryStretch
  BY DEF PeakInv
<1> QED
  BY <1>1, <1>2, <1>3, MetricsTypeCorrect, PTL DEF Spec
-----------------------------------------------------------------------------
(* The sums of the first elements of d, one by one, the first of them 0.   *)
RunningTotal(d, f, n) == f = [i \in 1..n |-> IF i = 1 THEN 0 ELSE f[i - 1] + d[i]]

(* One element more.                                                       *)
LEMMA RunningTotalExtends ==
  ASSUME NEW n \in Nat \ {0}, NEW d, NEW e, \A i \in 1..n : d[i] = e[i],
         NEW f, RunningTotal(d, f, n)
  PROVE  \E g : RunningTotal(e, g, n + 1) /\ g[n + 1] = f[n] + e[n + 1]
<1> DEFINE g == [i \in 1..(n + 1) |-> IF i <= n THEN f[i] ELSE f[n] + e[n + 1]]
           h == [i \in 1..(n + 1) |-> IF i = 1 THEN 0 ELSE g[i - 1] + e[i]]
<1>f. f = [i \in 1..n |-> IF i = 1 THEN 0 ELSE f[i - 1] + d[i]]
  BY DEF RunningTotal
<1>1. \A i \in 1..n : f[i] = IF i = 1 THEN 0 ELSE f[i - 1] + d[i]
  BY <1>f
<1>2. ASSUME NEW i \in 1..(n + 1) PROVE g[i] = h[i]
  <2>1. CASE i = 1
    BY <1>1, <2>1
  <2>2. CASE i # 1 /\ i <= n
    <3>1. i - 1 \in 1..(n + 1) /\ i - 1 <= n /\ i \in 1..n
      BY <2>2
    <3>2. d[i] = e[i]
      BY <3>1
    <3>3. f[i] = f[i - 1] + d[i]
      BY <1>1, <2>2, <3>1
    <3>4. g[i] = f[i] /\ h[i] = f[i - 1] + e[i]
      BY <2>2, <3>1
    <3> QED
      BY <3>2, <3>3, <3>4, Zenon
  <2>3. CASE i # 1 /\ ~(i <= n)
    <3>1. i = n + 1 /\ n \in 1..(n + 1) /\ i - 1 = n /\ n <= n /\ ~(n + 1 <= n)
      BY <2>3
    <3>2. g[n] = f[n] /\ g[i] = f[n] + e[i]
      BY <3>1
    <3>3. h[i] = g[n] + e[i]
      <4> HIDE DEF g
      <4> QED
        BY <2>3, <3>1
    <3> QED
      BY <3>2, <3>3, Zenon
  <2> QED
    BY <2>1, <2>2, <2>3
<1>3. g = h
  <2>1. g = [i \in 1..(n + 1) |-> g[i]] /\ h = [i \in 1..(n + 1) |-> h[i]]
    OBVIOUS
  <2> HIDE DEF g, h
  <2> QED
    BY <1>2, <2>1, Zenon
<1>4. RunningTotal(e, g, n + 1)
  BY <1>3 DEF RunningTotal
<1>5. g[n + 1] = f[n] + e[n + 1]
  <2>1. n + 1 \in 1..(n + 1) /\ ~(n + 1 <= n)
    OBVIOUS
  <2> QED
    BY <2>1
<1> QED
  BY <1>4, <1>5

(* There is only one.                                                      *)
LEMMA RunningTotalUnique ==
  ASSUME NEW n \in Nat \ {0}, NEW d, NEW f, NEW g, RunningTotal(d, f, n), RunningTotal(d, g, n)
  PROVE  f[n] = g[n]
<1>1. f = [i \in 1..n |-> IF i = 1 THEN 0 ELSE f[i - 1] + d[i]]
  BY DEF RunningTotal
<1>2. g = [i \in 1..n |-> IF i = 1 THEN 0 ELSE g[i - 1] + d[i]]
  BY DEF RunningTotal
<1>3. \A i \in 1..n : f[i] = IF i = 1 THEN 0 ELSE f[i - 1] + d[i]
  BY <1>1
<1>4. \A i \in 1..n : g[i] = IF i = 1 THEN 0 ELSE g[i - 1] + d[i]
  BY <1>2
<1> DEFINE S == {k \in Nat : k + 1 \in 1..n => f[k + 1] = g[k + 1]}
<1>5. 0 \in S
  BY <1>3, <1>4
<1>6. ASSUME NEW k \in S PROVE k + 1 \in S
  <2>0. k \in Nat /\ k + 1 \in Nat
    OBVIOUS
  <2>1. SUFFICES ASSUME (k + 1) + 1 \in 1..n PROVE f[(k + 1) + 1] = g[(k + 1) + 1]
    BY <2>0
  <2>2. PICK i \in 1..n : i = (k + 1) + 1
    BY <2>1
  <2>3. i # 1 /\ i - 1 = k + 1 /\ i - 1 \in 1..n
    BY <2>0, <2>2
  <2>4. f[i - 1] = g[i - 1]
    BY <2>3
  <2>5. f[i] = f[i - 1] + d[i] /\ g[i] = g[i - 1] + d[i]
    BY <1>3, <1>4, <2>3
  <2> QED
    BY <2>2, <2>4, <2>5, Zenon
<1>7. S \in SUBSET Nat
  OBVIOUS
<1>8. n - 1 \in S
  <2>1. n - 1 \in Nat
    OBVIOUS
  <2> HIDE DEF S
  <2> QED
    BY <1>5, <1>6, <1>7, <2>1, InductionOverNat
<1>9. (n - 1) + 1 = n /\ n \in 1..n
  OBVIOUS
<1> QED
  BY <1>8, <1>9, Zenon

StepsBackOf(t) ==
  {i \in 1..(Len(t) - 1) : (t[i + 1] % Day) - (t[i] % Day) \in -HalfDay..-1}
StepBackTo(t) ==
  [n \in 1..Len(t) |-> IF n - 1 \in StepsBackOf(t) THEN t[n] - t[n - 1] ELSE 0]

(* What the elapsed time leaves out is a sum of steps back and of whole    *)
(* days.                                                                   *)
Explained(t, time) ==
  \E f, k : /\ k \in Int /\ f[Len(t)] \in Int /\ RunningTotal(StepBackTo(t), f, Len(t))
            /\ t[Len(t)] - t[1] - f[Len(t)] - time = Day * k

AnomalyInv ==
  /\ timeline = <<>> => previous_time = None /\ elapsed = 0 /\ timing_anomalies = 0
  /\ timeline # <<>> =>
       /\ previous_time = timeline[Len(timeline)] % Day
       /\ timing_anomalies = Cardinality(StepsBackOf(timeline))
       /\ Explained(timeline, elapsed)

(* The steps back are finitely many.                                       *)
LEMMA StepsBackAreFinite ==
  ASSUME NEW t \in Seq(Int)
  PROVE  IsFiniteSet(StepsBackOf(t)) /\ Cardinality(StepsBackOf(t)) \in Nat
<1>1. 1 \in Int /\ Len(t) - 1 \in Int
  OBVIOUS
<1>2. IsFiniteSet(1..(Len(t) - 1))
  BY <1>1, FS_Interval
<1>3. StepsBackOf(t) \in SUBSET (1..(Len(t) - 1))
  BY DEF StepsBackOf
<1> QED
  BY <1>2, <1>3, FS_Subset, FS_CardinalityType

(* One clock more is one step more, which is one back or not.              *)
LEMMA StepsBackGrow ==
  ASSUME NEW t \in Seq(Int), t # <<>>, NEW c \in Int,
         NEW back \in BOOLEAN,
         back <=> (c % Day) - (t[Len(t)] % Day) \in -HalfDay..-1
  PROVE  /\ Cardinality(StepsBackOf(Append(t, c))) =
              IF back THEN Cardinality(StepsBackOf(t)) + 1 ELSE Cardinality(StepsBackOf(t))
         /\ \A i \in 1..Len(t) : StepBackTo(Append(t, c))[i] = StepBackTo(t)[i]
         /\ StepBackTo(Append(t, c))[Len(t) + 1] = IF back THEN c - t[Len(t)] ELSE 0
<1>1. PICK n \in Nat \ {0} : n = Len(t)
  OBVIOUS
<1>2. PICK u : u = Append(t, c)
  OBVIOUS
<1>3. Len(u) = n + 1 /\ u[n + 1] = c /\ \A i \in 1..n : u[i] = t[i]
  BY <1>1, <1>2
<1>4. PICK A, B : A = StepsBackOf(t) /\ B = StepsBackOf(u)
  OBVIOUS
<1>5. A \in SUBSET (1..(n - 1)) /\ B \in SUBSET (1..n)
  <2>1. (n + 1) - 1 = n
    OBVIOUS
  <2> QED
    BY <1>1, <1>3, <1>4, <2>1 DEF StepsBackOf
<1>6. ASSUME NEW i \in 1..(n - 1) PROVE i \in A <=> i \in B
  <2>1. i \in 1..n /\ i + 1 \in 1..n /\ (n + 1) - 1 = n
    OBVIOUS
  <2>2. u[i] = t[i] /\ u[i + 1] = t[i + 1]
    BY <1>3, <2>1
  <2> QED
    BY <1>1, <1>3, <1>4, <2>1, <2>2 DEF StepsBackOf
<1>7. n \in B <=> back
  <2>1. n \in 1..n /\ (n + 1) - 1 = n
    OBVIOUS
  <2>2. u[n] = t[n] /\ u[n + 1] = c
    BY <1>3, <2>1
  <2> QED
    BY <1>1, <1>3, <1>4, <2>1, <2>2 DEF StepsBackOf
<1>8. n \notin 1..(n - 1) /\ \A i \in 1..n : i = n \/ i \in 1..(n - 1)
  OBVIOUS
<1>9. Cardinality(B) = IF back THEN Cardinality(A) + 1 ELSE Cardinality(A)
  <2>1. IsFiniteSet(A) /\ n \notin A
    BY <1>4, <1>5, <1>8, StepsBackAreFinite
  <2>2. CASE back
    <3>1. \A i : i \in B <=> i \in A \/ i = n
      BY <1>5, <1>6, <1>7, <1>8, <2>2, Zenon
    <3>2. B = A \cup {n}
      BY <3>1, Zenon
    <3> QED
      BY <2>1, <2>2, <3>2, FS_AddElement
  <2>3. CASE ~back
    <3>1. \A i : i \in B <=> i \in A
      BY <1>5, <1>6, <1>7, <1>8, <2>3, Zenon
    <3>2. B = A
      BY <3>1, Zenon
    <3> QED
      BY <2>3, <3>2
  <2> QED
    BY <2>2, <2>3
<1>10. ASSUME NEW i \in 1..n PROVE StepBackTo(u)[i] = StepBackTo(t)[i]
  <2>1. i \in 1..(n + 1)
    OBVIOUS
  <2>2. /\ StepBackTo(u)[i] = IF i - 1 \in B THEN u[i] - u[i - 1] ELSE 0
        /\ StepBackTo(t)[i] = IF i - 1 \in A THEN t[i] - t[i - 1] ELSE 0
    BY <1>1, <1>3, <1>4, <2>1 DEF StepBackTo
  <2>3. CASE i = 1
    <3>1. i - 1 \notin 1..n /\ i - 1 \notin 1..(n - 1)
      BY <2>3
    <3> QED
      BY <1>5, <2>2, <3>1, Zenon
  <2>4. CASE i # 1
    <3>1. i - 1 \in 1..(n - 1) /\ i - 1 \in 1..n
      BY <2>4
    <3>2. u[i] = t[i] /\ u[i - 1] = t[i - 1]
      BY <1>3, <3>1
    <3>3. i - 1 \in A <=> i - 1 \in B
      BY <1>6, <3>1
    <3> QED
      BY <2>2, <3>2, <3>3, Zenon
  <2> QED
    BY <2>3, <2>4
<1>11. StepBackTo(u)[n + 1] = IF back THEN c - t[n] ELSE 0
  <2>1. n + 1 \in 1..(n + 1) /\ (n + 1) - 1 = n /\ n \in 1..n
    OBVIOUS
  <2>2. StepBackTo(u)[n + 1] = IF (n + 1) - 1 \in B THEN u[n + 1] - u[(n + 1) - 1] ELSE 0
    BY <1>3, <1>4, <2>1 DEF StepBackTo
  <2>3. u[n] = t[n]
    BY <1>3, <2>1
  <2> QED
    BY <1>3, <1>7, <2>1, <2>2, <2>3, Zenon
<1> QED
  BY <1>1, <1>2, <1>4, <1>9, <1>10, <1>11, Zenon

(* The delta of two clocks: none where the time of day steps back, else    *)
(* their difference but for whole days.                                    *)
LEMMA DeltaExplained ==
  ASSUME NEW a \in Int, NEW b \in Int,
         NEW delta, delta = ForwardDelta(a % Day, b % Day)
  PROVE  /\ (b % Day) - (a % Day) \in -HalfDay..-1 <=> delta = None
         /\ delta # None => delta \in Int /\ \E k \in Int : b - a - delta = Day * k
<1>1. PICK p \in Int, r \in Nat : r = a % Day /\ r < Day /\ a = Day * p + r
  BY ClockDivides
<1>2. PICK q \in Int, s \in Nat : s = b % Day /\ s < Day /\ b = Day * q + s
  BY ClockDivides
<1>3. PICK d \in Int : d = s - r
  OBVIOUS
<1>4. delta = IF d >= 0 THEN d ELSE IF d < -HalfDay THEN d + Day ELSE None
  BY <1>1, <1>2, <1>3 DEF ForwardDelta
<1>5. d \in -HalfDay..-1 <=> d < 0 /\ ~(d < -HalfDay)
  BY <1>3, DayFacts
<1>6. d # None /\ d + Day # None
  BY <1>3, DayFacts, DecoderAssumption
<1>7. d \in -HalfDay..-1 <=> delta = None
  BY <1>4, <1>5, <1>6
<1>8. ASSUME delta # None
      PROVE  delta \in Int /\ \E k \in Int : b - a - delta = Day * k
  <2>1. a = 86400 * p + r /\ b = 86400 * q + s
    BY <1>1, <1>2 DEF Day
  <2>2. CASE delta = d
    <3>1. q - p \in Int /\ b - a - delta = 86400 * (q - p)
      BY <1>3, <2>1, <2>2
    <3>2. b - a - delta = Day * (q - p)
      BY <3>1 DEF Day
    <3> QED
      <4>1. \E k \in Int : b - a - delta = Day * k
        <5> q - p \in Int
          BY <3>1
        <5> WITNESS q - p \in Int
        <5> QED
          BY <3>2
      <4> QED
        BY <1>3, <2>2, <4>1
  <2>3. CASE delta = d + Day
    <3>1. (q - p) - 1 \in Int /\ b - a - delta = 86400 * ((q - p) - 1)
      BY <1>3, <2>1, <2>3 DEF Day
    <3>2. b - a - delta = Day * ((q - p) - 1)
      BY <3>1 DEF Day
    <3>3. delta \in Int
      BY <1>3, <2>3, DayFacts
    <3> QED
      <4>1. \E k \in Int : b - a - delta = Day * k
        <5> (q - p) - 1 \in Int
          BY <3>1
        <5> WITNESS (q - p) - 1 \in Int
        <5> QED
          BY <3>2
      <4> QED
        BY <3>3, <4>1
  <2> QED
    BY <1>4, <1>8, <2>2, <2>3
<1> QED
  BY <1>1, <1>2, <1>3, <1>7, <1>8

(* A step back cancels out of the timeline and of what it leaves out.      *)
LEMMA StepBackCancels ==
  ASSUME NEW c \in Int, NEW first \in Int, NEW last \in Int, NEW total \in Int, NEW time \in Int
  PROVE  c - first - (total + (c - last)) - time = last - first - total - time
OBVIOUS

(* A clock that steps back adds to the steps back.                         *)
LEMMA ExplainedStep ==
  ASSUME NEW t \in Seq(Int), t # <<>>, NEW c \in Int, NEW time \in Int, Explained(t, time),
         NEW delta, delta = ForwardDelta(t[Len(t)] % Day, c % Day),
         NEW after, after = IF delta = None THEN time ELSE time + delta
  PROVE  Explained(Append(t, c), after)
<1>1. PICK n \in Nat \ {0} : n = Len(t)
  OBVIOUS
<1>2. PICK u : u = Append(t, c)
  OBVIOUS
<1>3. Len(u) = n + 1 /\ u[n + 1] = c /\ \A i \in 1..n : u[i] = t[i]
  BY <1>1, <1>2
<1>4. 1 \in 1..n /\ n \in 1..n
  OBVIOUS
<1>5. PICK first \in Int, last \in Int : first = t[1] /\ last = t[n]
  BY <1>1, <1>4
<1>6. u[1] = first
  BY <1>3, <1>4, <1>5
<1>7. PICK f, k : /\ k \in Int /\ f[n] \in Int /\ RunningTotal(StepBackTo(t), f, n)
                  /\ last - first - f[n] - time = Day * k
  BY <1>1, <1>5 DEF Explained
<1>8. PICK total \in Int : total = f[n]
  BY <1>7
<1>9. PICK back \in BOOLEAN : back <=> (c % Day) - (last % Day) \in -HalfDay..-1
  OBVIOUS
<1>10. /\ back <=> delta = None
       /\ delta # None => delta \in Int /\ \E j \in Int : c - last - delta = Day * j
  BY <1>1, <1>5, <1>9, DeltaExplained
<1>11. /\ \A i \in 1..n : StepBackTo(t)[i] = StepBackTo(u)[i]
       /\ StepBackTo(u)[n + 1] = IF back THEN c - last ELSE 0
  BY <1>1, <1>2, <1>5, <1>9, StepsBackGrow
<1>12. PICK g : RunningTotal(StepBackTo(u), g, n + 1) /\ g[n + 1] = f[n] + StepBackTo(u)[n + 1]
  BY <1>7, <1>11, RunningTotalExtends
<1>13. CASE delta = None
  <2>1. g[n + 1] = total + (c - last)
    BY <1>8, <1>10, <1>11, <1>12, <1>13
  <2>2. PICK moved \in Int : moved = total + (c - last)
    <3>1. total + (c - last) \in Int
      BY <1>5, <1>8
    <3> QED
      BY <3>1
  <2>3. c - first - moved - time = last - first - total - time
    <3>1. moved = total + (c - last)
      BY <2>2
    <3>2. c - first - (total + (c - last)) - time = last - first - total - time
      BY ONLY c \in Int, time \in Int, first \in Int, last \in Int, total \in Int,
              StepBackCancels
    <3> QED
      BY <3>1, <3>2, Zenon
  <2>4. last - first - total - time = Day * k
    BY <1>7, <1>8, Zenon
  <2>5. g[n + 1] = moved /\ after = time
    BY <1>13, <2>1, <2>2
  <2>6. g[n + 1] \in Int /\ c - first - g[n + 1] - after = Day * k
    BY <2>2, <2>3, <2>4, <2>5, Zenon
  <2> QED
    BY <1>2, <1>3, <1>6, <1>7, <1>12, <2>6 DEF Explained
<1>14. CASE delta # None
  <2>1. PICK j \in Int : delta \in Int /\ c - last - delta = Day * j
    BY <1>10, <1>14
  <2>2. g[n + 1] = total
    BY <1>8, <1>10, <1>11, <1>12, <1>14
  <2>3. k + j \in Int /\ Day * (k + j) = Day * k + Day * j /\ Day * k \in Int /\ Day * j \in Int
    BY <1>7, DayFacts, DistributeRight
  <2>4. c - first - total - (time + delta) = Day * k + Day * j
    <3>1. PICK x \in Int, y \in Int : x = Day * k /\ y = Day * j
      BY <2>3
    <3>2. last - first - total - time = x /\ c - last - delta = y
      BY <1>7, <1>8, <2>1, <3>1
    <3>3. c - first - total - (time + delta) = x + y
      <4>1. PICK e \in Int : e = delta
        BY <2>1
      <4>2. last - first - total - time = x /\ c - last - e = y
        BY <3>2, <4>1
      <4>3. c - first - total - (time + e) = x + y
        BY <4>2
      <4> QED
        BY <4>1, <4>3, Zenon
    <3> QED
      BY <3>1, <3>3
  <2>5. g[n + 1] \in Int /\ c - first - g[n + 1] - after = Day * (k + j)
    BY <1>8, <1>14, <2>2, <2>3, <2>4
  <2> QED
    BY <1>2, <1>3, <1>6, <1>12, <2>3, <2>5 DEF Explained
<1> QED
  BY <1>13, <1>14

(* A timeline of one clock.                                                *)
LEMMA ExplainedFirst ==
  ASSUME NEW c \in Int
  PROVE  Explained(<<c>>, 0) /\ Cardinality(StepsBackOf(<<c>>)) = 0
<1>1. PICK t : t = <<c>>
  OBVIOUS
<1>2. Len(t) = 1 /\ t[1] = c
  BY <1>1
<1>3. StepsBackOf(t) = {}
  BY <1>2 DEF StepsBackOf
<1>4. PICK f : f = [i \in 1..1 |-> 0]
  OBVIOUS
<1>5. f[1] = 0
  BY <1>4
<1>6. RunningTotal(StepBackTo(t), f, 1)
  BY <1>4 DEF RunningTotal
<1>7. t[Len(t)] - t[1] - f[Len(t)] - 0 = Day * 0 /\ f[Len(t)] \in Int /\ 0 \in Int
  BY <1>2, <1>5, DayFacts
<1>8. Explained(t, 0)
  <2>1. RunningTotal(StepBackTo(t), f, Len(t))
    BY <1>2, <1>6
  <2> QED
    BY <1>7, <2>1, Zenon DEF Explained
<1> QED
  BY <1>1, <1>3, <1>8, FS_EmptySet

(* A row keeps the anomalies explained.                                    *)
LEMMA AnomalyStep ==
  ASSUME TypeOK, AnomalyInv, NEW time \in Time \cup {None}, AccumulateTime(time),
         now' \in Int, time # None => time = now' % Day,
         timeline' = IF time = None THEN timeline ELSE Append(timeline, now')
  PROVE  AnomalyInv'
<1>1. CASE time = None
  BY <1>1 DEF AccumulateTime, AnomalyInv
<1>2. CASE time # None
  <2>1. PICK c \in Int : c = now'
    OBVIOUS
  <2>2. timeline \in Seq(Int) /\ elapsed \in Int /\ timing_anomalies \in Nat
    BY DEF TypeOK
  <2>3. PICK u : u = Append(timeline, c)
    OBVIOUS
  <2>4. timeline' = u /\ time = c % Day /\ previous_time' = c % Day
    BY <1>2, <2>1, <2>3 DEF AccumulateTime
  <2>5. u # <<>> /\ u[Len(u)] = c
    BY <2>2, <2>3
  <2>6. SUFFICES Explained(u, elapsed') /\ timing_anomalies' = Cardinality(StepsBackOf(u))
    BY <2>4, <2>5 DEF AnomalyInv
  <2>7. CASE timeline = <<>>
    <3>1. previous_time = None /\ elapsed = 0 /\ timing_anomalies = 0
      BY <2>7 DEF AnomalyInv
    <3>2. elapsed' = 0 /\ timing_anomalies' = 0
      BY <1>2, <3>1, DecoderAssumption DEF AccumulateTime
    <3>3. u = <<c>>
      BY <2>3, <2>7
    <3> QED
      BY <3>2, <3>3, ExplainedFirst
  <2>8. CASE timeline # <<>>
    <3>1. PICK last \in Int : last = timeline[Len(timeline)]
      BY <2>2, <2>8
    <3>2. /\ previous_time = last % Day /\ timing_anomalies = Cardinality(StepsBackOf(timeline))
          /\ Explained(timeline, elapsed)
      BY <2>8, <3>1 DEF AnomalyInv
    <3>3. previous_time # None
      <4>1. last % Day \in Int
        BY SMT DEF Day
      <4> QED
        BY <3>2, <4>1, DecoderAssumption
    <3>4. PICK delta : delta = ForwardDelta(last % Day, c % Day)
      OBVIOUS
    <3>5. /\ elapsed' = IF delta = None THEN elapsed ELSE elapsed + delta
          /\ timing_anomalies' = IF delta = None THEN timing_anomalies + 1 ELSE timing_anomalies
      BY <1>2, <2>4, <3>2, <3>3, <3>4 DEF AccumulateTime
    <3>6. Explained(u, elapsed')
      BY <2>2, <2>3, <2>8, <3>1, <3>2, <3>4, <3>5, ExplainedStep
    <3>7. PICK back \in BOOLEAN : back <=> (c % Day) - (last % Day) \in -HalfDay..-1
      OBVIOUS
    <3>8. back <=> delta = None
      BY <3>4, <3>7, DeltaExplained
    <3>9. Cardinality(StepsBackOf(u)) =
            IF back THEN Cardinality(StepsBackOf(timeline)) + 1 ELSE Cardinality(StepsBackOf(timeline))
      BY <2>2, <2>3, <2>8, <3>1, <3>7, StepsBackGrow
    <3> QED
      BY <3>2, <3>5, <3>6, <3>8, <3>9
  <2> QED
    BY <2>7, <2>8
<1> QED
  BY <1>1, <1>2

(* Whatever the clock does, the anomalies are the steps back, and but for  *)
(* these and for whole days the elapsed time is the true one.              *)
THEOREM AnomaliesAreStepsBack == Spec => []AnomaliesExplainElapsed
<1>1. Init => AnomalyInv
  BY DEF Init, AnomalyInv
<1>2. TypeOK /\ AnomalyInv /\ [Next]_vars => AnomalyInv'
  <2> SUFFICES ASSUME TypeOK, AnomalyInv, [Next]_vars PROVE AnomalyInv'
    OBVIOUS
  <2>1. CASE NextRow
    <3>1. PICK time \in Time \cup {None} :
            /\ AccumulateTime(time) /\ now' \in Int
            /\ time # None => time = now' % Day
            /\ timeline' = IF time = None THEN timeline ELSE Append(timeline, now')
      BY <2>1, RowParts
    <3> QED
      BY <3>1, AnomalyStep
  <2>2. CASE Finish \/ UNCHANGED vars
    BY <2>2 DEF Finish, vars, timing, AnomalyInv
  <2> QED
    BY <2>1, <2>2 DEF Next
<1>3. TypeOK /\ AnomalyInv => AnomaliesExplainElapsed
  <2> SUFFICES ASSUME TypeOK, AnomalyInv, timeline # <<>>
               PROVE  /\ timing_anomalies = Cardinality(StepsBack)
                      /\ (timeline[Len(timeline)] - timeline[1] - SteppedBack - elapsed) % Day = 0
    BY DEF AnomaliesExplainElapsed
  <2>1. PICK t \in Seq(Int) : t = timeline
    BY DEF TypeOK
  <2>2. PICK n \in Nat \ {0} : n = Len(t)
    BY <2>1
  <2>3. StepsBack = StepsBackOf(t) /\ DOMAIN timeline = 1..n
    BY <2>1, <2>2 DEF StepsBack, StepsBackOf
  <2>4. timing_anomalies = Cardinality(StepsBack)
    BY <2>1, <2>3 DEF AnomalyInv
  <2>5. PICK f, k : /\ k \in Int /\ f[n] \in Int /\ RunningTotal(StepBackTo(t), f, n)
                    /\ t[n] - t[1] - f[n] - elapsed = Day * k
    BY <2>1, <2>2 DEF AnomalyInv, Explained
  <2> DEFINE Sums(g) ==
               g = [i \in 1..n |->
                      IF i = 1 THEN 0
                      ELSE g[i - 1] + (IF i - 1 \in StepsBackOf(t) THEN t[i] - t[i - 1] ELSE 0)]
             F == CHOOSE g : Sums(g)
  <2>6. \A g : Sums(g) <=> RunningTotal(StepBackTo(t), g, n)
    <3>1. \A i \in 1..n :
            StepBackTo(t)[i] = IF i - 1 \in StepsBackOf(t) THEN t[i] - t[i - 1] ELSE 0
      BY <2>2 DEF StepBackTo
    <3> QED
      BY <3>1, Zenon DEF RunningTotal
  <2>7. SteppedBack = F[n]
    BY <2>1, <2>2, <2>3, Zenon DEF SteppedBack
  <2>8. Sums(F)
    BY <2>5, <2>6, Zenon
  <2>9. F[n] = f[n]
    <3>1. RunningTotal(StepBackTo(t), F, n)
      BY <2>6, <2>8
    <3> HIDE DEF F
    <3> QED
      BY <2>5, <3>1, RunningTotalUnique
  <2> HIDE DEF F, Sums
  <2>10. t[n] - t[1] - SteppedBack - elapsed = Day * k
    BY <2>5, <2>7, <2>9
  <2>11. (Day * k) % Day = 0
    BY <2>5, SMT DEF Day
  <2> QED
    BY <2>1, <2>2, <2>4, <2>10, <2>11
<1> QED
  BY <1>1, <1>2, <1>3, MetricsTypeCorrect, PTL DEF Spec
-----------------------------------------------------------------------------
(* What a packed recorder writes for minutes of an axis reads as packed    *)
(* and decodes to those minutes, the sign and the orientation included.    *)
THEOREM PackedRoundTrip ==
  ASSUME NEW axis \in {"Latitude", "Longitude"}, NEW m \in Int,
         Magnitude(m) <= 60 * DegreesLimit(axis)
  PROVE  /\ PackedCell(m, axis) \in Int
         /\ IsPackedMinutes(PackedCell(m, axis), axis)
         /\ PackedMinutesToDegrees(PackedCell(m, axis), axis) = m
<1>1. PICK n \in Nat : n = Magnitude(m)
  BY DEF Magnitude
<1>2. PICK q \in Nat, r \in Nat : q = n \div 60 /\ r = n % 60 /\ n = 60 * q + r /\ r < 60
  <2>1. n \div 60 \in Nat /\ n % 60 \in Nat /\ n = 60 * (n \div 60) + (n % 60) /\ n % 60 < 60
    OBVIOUS
  <2> QED
    BY <2>1
<1>3. PICK o \in Int : o = Orientation(axis) /\ (o = 1 \/ o = -1)
  BY DEF Orientation
<1>4. PICK s \in Int : s = Signum(m) /\ (s = 1 \/ s = -1) /\ m = s * n
  <2>1. m = Signum(m) * Magnitude(m) /\ Signum(m) \in {1, -1}
    BY DEF Signum, Magnitude
  <2> QED
    BY <1>1, <2>1
<1>5. PICK d \in Nat : d = 100 * q + r
  OBVIOUS
<1>6. d \div 100 = q /\ d % 100 = r
  BY <1>2, <1>5
<1>e. PICK e \in Int : e = o * s /\ (e = 1 \/ e = -1) /\ o * e = s
  <2>1. (o = 1 \/ o = -1) /\ (s = 1 \/ s = -1)
    BY <1>3, <1>4
  <2> QED
    BY <2>1
<1>7. PICK x \in Int : x = o * s * d /\ (e = 1 => x = d) /\ (e = -1 => x = -d)
  BY <1>e
<1>8. PackedCell(m, axis) = x
  BY <1>1, <1>2, <1>3, <1>4, <1>5, <1>7 DEF PackedCell
<1>9. Magnitude(x) = d
  BY <1>e, <1>7 DEF Magnitude
<1>10. PICK l \in Nat : l = DegreesLimit(axis)
  BY DEF DegreesLimit
<1>11. q <= l
  BY <1>1, <1>2, <1>10
<1>12. x # Missing
  BY DecoderAssumption
<1>13. IsPackedMinutes(x, axis)
  BY <1>2, <1>6, <1>9, <1>10, <1>11, <1>12 DEF IsPackedMinutes
<1>14. PackedMinutesToDegrees(x, axis) = o * Signum(x) * n
  BY <1>2, <1>3, <1>6, <1>9, <1>13 DEF PackedMinutesToDegrees
<1>15. o * Signum(x) * n = m
  <2>1. CASE d = 0
    <3>1. n = 0 /\ m = 0
      BY <1>2, <1>4, <1>5, <2>1
    <3>2. Signum(x) \in Int
      BY DEF Signum
    <3> QED
      BY <3>1, <3>2
  <2>2. CASE d > 0
    <3>1. Signum(x) = e
      BY <1>e, <1>7, <2>2 DEF Signum
    <3>2. o * e = s
      BY <1>e
    <3>3. o * e * n = m
      BY <1>4, <3>2
    <3> QED
      BY <3>1, <3>3
  <2> QED
    BY <2>1, <2>2
<1> QED
  BY <1>8, <1>13, <1>14, <1>15

(* A continuous recorder's two cells decode to its position.               *)
LEMMA ContinuousRoundTrip ==
  ASSUME NEW p \in Position
  PROVE  ContinuousMinutesToDegrees(ContinuousCell(p.latitude, "Latitude"),
                                    ContinuousCell(p.longitude, "Longitude")) = p
<1>1. PICK x \in -(60 * 90)..(60 * 90), y \in -(60 * 180)..(60 * 180) :
        p = [latitude |-> x, longitude |-> y]
  BY DEF Position
<1>2. ContinuousCell(x, "Latitude") = x /\ ContinuousCell(y, "Longitude") = -y
  BY DEF ContinuousCell, Orientation
<1>3. Magnitude(x) <= 60 * 90 /\ Magnitude(-y) <= 60 * 180 /\ -(-y) = y
  BY DEF Magnitude
<1>4. x # Missing /\ -y # Missing
  BY DecoderAssumption
<1> QED
  BY <1>1, <1>2, <1>3, <1>4 DEF ContinuousMinutesToDegrees

(* The positions of the model decode from their packed cells.              *)
LEMMA PackedPosition ==
  ASSUME NEW p \in Position
  PROVE  /\ ReadsAsPacked(PackedCell(p.latitude, "Latitude"), PackedCell(p.longitude, "Longitude"))
         /\ PackedMinutesToDegrees(PackedCell(p.latitude, "Latitude"), "Latitude") = p.latitude
         /\ PackedMinutesToDegrees(PackedCell(p.longitude, "Longitude"), "Longitude") = p.longitude
<1>0. PICK x \in -(60 * 90)..(60 * 90), y \in -(60 * 180)..(60 * 180) :
        p = [latitude |-> x, longitude |-> y]
  BY DEF Position
<1>1. /\ p.latitude \in Int /\ Magnitude(p.latitude) <= 60 * DegreesLimit("Latitude")
      /\ p.longitude \in Int /\ Magnitude(p.longitude) <= 60 * DegreesLimit("Longitude")
  <2>1. p.latitude = x /\ p.longitude = y
    BY <1>0
  <2>2. Magnitude(x) <= 60 * 90 /\ Magnitude(y) <= 60 * 180
    BY DEF Magnitude
  <2>3. DegreesLimit("Latitude") = 90 /\ DegreesLimit("Longitude") = 180
    BY DEF DegreesLimit
  <2> QED
    BY <2>1, <2>2, <2>3
<1> QED
  BY <1>1, PackedRoundTrip DEF ReadsAsPacked

(* What a recorder writes is an integer.                                   *)
LEMMA WrittenCells ==
  ASSUME NEW axis \in {"Latitude", "Longitude"}, NEW m \in Int
  PROVE  PackedCell(m, axis) \in Int /\ ContinuousCell(m, axis) \in Int
<1>1. Magnitude(m) \in Nat /\ Signum(m) \in Int /\ Orientation(axis) \in Int
  BY DEF Magnitude, Signum, Orientation
<1>2. Magnitude(m) \div 60 \in Int /\ Magnitude(m) % 60 \in Int
  BY <1>1
<1> QED
  BY <1>1, <1>2 DEF PackedCell, ContinuousCell

(* A row has an integer or a missing cell in every column.                 *)
LEMMA RecordedRowType ==
  ASSUME channels \in Seq(STRING), NEW cells \in RecordedRows
  PROVE  cells \in Seq(Int \cup {Missing}) /\ Len(cells) = Len(channels)
<1>1. PICK n \in Nat : n = Len(channels) /\ DOMAIN channels = 1..n
  OBVIOUS
<1>2. ASSUME NEW axis \in {"Latitude", "Longitude"}, NEW M, \A m \in M : m \in Int
      PROVE  \A x \in AxisCells(axis, M) : x \in Int \cup {Missing}
  <2> SUFFICES ASSUME NEW x \in AxisCells(axis, M) PROVE x \in Int \cup {Missing}
    OBVIOUS
  <2>1. CASE x \in Noise
    BY <2>1, CoordinateAssumption
  <2>2. CASE \E m \in M : x = PackedCell(m, axis) \/ x = ContinuousCell(m, axis)
    BY <1>2, <2>2, WrittenCells
  <2> QED
    BY <2>1, <2>2 DEF AxisCells
<1>3. /\ \A m \in {p.latitude : p \in Positions} : m \in Int
      /\ \A m \in {p.longitude : p \in Positions} : m \in Int
  <2>1. ASSUME NEW p \in Position
        PROVE  p.latitude \in Int /\ p.longitude \in Int
    <3>1. PICK x \in -(60 * 90)..(60 * 90), y \in -(60 * 180)..(60 * 180) :
            p = [latitude |-> x, longitude |-> y]
      BY DEF Position
    <3> QED
      BY <3>1
  <2> QED
    BY <2>1, CoordinateAssumption
<1>4. \A c : \A x \in Cells(c) : x \in Int \cup {Missing}
  <2>1. \A x \in Noise : x \in Int \cup {Missing}
    BY CoordinateAssumption
  <2> QED
    BY <1>2, <1>3, <2>1 DEF Cells
<1>5. DOMAIN cells = 1..n /\ cells = [c \in 1..n |-> cells[c]]
      /\ \A c \in 1..n : cells[c] \in Cells(c)
  BY <1>1 DEF RecordedRows
<1>6. cells \in [1..n -> Int \cup {Missing}]
  BY <1>4, <1>5
<1> QED
  BY <1>1, <1>6

(* Both columns of the position are columns.                               *)
LEMMA PositionColumns ==
  ASSUME channels \in Seq(STRING), HasPosition
  PROVE  /\ FindChannel(LatitudeAliases) \in 1..Len(channels)
         /\ FindChannel(LongitudeAliases) \in 1..Len(channels)
<1>1. ASSUME NEW aliases, FindChannel(aliases) # None
      PROVE  FindChannel(aliases) \in 1..Len(channels)
  <2>1. PICK S \in SUBSET (1..Len(channels)) : S = {c \in DOMAIN channels : channels[c] \in aliases}
    <3>1. DOMAIN channels = 1..Len(channels)
      OBVIOUS
    <3> QED
      BY <3>1
  <2>2. S # {} /\ FindChannel(aliases) = Min(S)
    BY <1>1, <2>1 DEF FindChannel
  <2>3. S \in SUBSET Nat
    BY <2>1
  <2> QED
    BY <2>1, <2>2, <2>3, MinOfNat
<1> QED
  BY <1>1 DEF HasPosition

(* A row laid behind n rows of the same width leaves their cells alone.    *)
LEMMA RowAppended ==
  ASSUME NEW T, NEW w \in Nat, NEW n \in Nat, NEW v \in Seq(T), Len(v) = n * w,
         NEW s \in Seq(T), Len(s) = w
  PROVE  /\ v \o s \in Seq(T) /\ Len(v \o s) = (n + 1) * w
         /\ \A r \in 0..(n - 1) : \A c \in 1..w :
              r * w + c \in 1..Len(v) /\ (v \o s)[r * w + c] = v[r * w + c]
         /\ \A c \in 1..w : (v \o s)[n * w + c] = s[c]
<1>1. n * w \in Nat /\ (n + 1) * w = n * w + w
  BY ProductStep
<1>2. v \o s \in Seq(T) /\ Len(v \o s) = (n + 1) * w
  <2>1. v \o s \in Seq(T) /\ Len(v \o s) = Len(v) + Len(s)
    BY ConcatFacts
  <2> QED
    BY <1>1, <2>1
<1>3. ASSUME NEW r \in 0..(n - 1), NEW c \in 1..w
      PROVE  r * w + c \in 1..Len(v) /\ (v \o s)[r * w + c] = v[r * w + c]
  <2>1. r * w \in Nat /\ (r + 1) * w = r * w + w
    BY ProductStep
  <2>2. (r + 1) * w <= n * w
    BY ScaleKeepsOrder
  <2>3. PICK k \in Int : k = r * w + c /\ k \in 1..Len(v)
    BY <1>1, <2>1, <2>2
  <2>4. (v \o s)[k] = v[k]
    BY <2>3, ConcatFacts
  <2> QED
    BY <2>3, <2>4
<1>4. ASSUME NEW c \in 1..w
      PROVE  (v \o s)[n * w + c] = s[c]
  BY ConcatFacts
<1> QED
  BY <1>2, <1>3, <1>4

(* A set of rows that gains the next row, or does not.                     *)
LEMMA RowCounted ==
  ASSUME NEW n \in Nat, NEW A \in SUBSET (0..(n - 1)), NEW B \in SUBSET (0..n),
         \A r \in 0..(n - 1) : r \in A <=> r \in B
  PROVE  /\ Cardinality(A) \in Nat
         /\ n \in B => Cardinality(B) = Cardinality(A) + 1
         /\ n \notin B => Cardinality(B) = Cardinality(A)
<1>1. IsFiniteSet(A)
  <2>1. 0 \in Int /\ n - 1 \in Int
    OBVIOUS
  <2>2. IsFiniteSet(0..(n - 1))
    BY <2>1, FS_Interval
  <2> QED
    BY <2>2, FS_Subset
<1>2. n \notin 0..(n - 1) /\ \A r \in 0..n : r = n \/ r \in 0..(n - 1)
  OBVIOUS
<1>3. CASE n \in B
  <2>1. \A r : r \in B <=> r \in A \/ r = n
    BY <1>2, <1>3, Zenon
  <2>2. B = A \cup {n}
    BY <2>1, Zenon
  <2> QED
    BY <1>1, <1>2, <1>3, <2>2, FS_AddElement, FS_CardinalityType
<1>4. CASE n \notin B
  <2>1. \A r : r \in B <=> r \in A
    BY <1>2, <1>4, Zenon
  <2>2. B = A
    BY <2>1, Zenon
  <2> QED
    BY <1>1, <1>4, <2>2, FS_CardinalityType
<1> QED
  BY <1>3, <1>4

ReadableRows == {r \in Rows : ReadsAsPacked(Latitude(r), Longitude(r))}

(* The counters are what they count, and the decision is the one that they *)
(* call for.                                                               *)
FormatInv ==
  /\ FormatTypeOK
  /\ HasPosition =>
       present = Cardinality(PresentRows) /\ packed_valid = Cardinality(ReadableRows)
  /\ format = "ContinuousMinutes" => HasPosition /\ present > 0 /\ MostlyUnreadable
  /\ format = "PackedDegreesMinutes" => ~HasPosition \/ ~(present > 0 /\ MostlyUnreadable)

(* A recording of which no row was read has counted none.                  *)
LEMMA FormatInvInit == FormatInit => FormatInv
<1> SUFFICES ASSUME FormatInit PROVE FormatInv
  OBVIOUS
<1>1. channels \in Seq(STRING) /\ MaxRows \in Nat
      /\ None \notin {"PackedDegreesMinutes", "ContinuousMinutes"}
  BY CoordinateAssumption DEF FormatInit
<1>2. Len(channels) \in Nat
  BY <1>1
<1>3. FormatTypeOK
  BY <1>1, <1>2 DEF FormatInit, FormatTypeOK
<1>4. PresentRows = {} /\ ReadableRows = {}
  BY DEF FormatInit, PresentRows, ReadableRows, Rows
<1> QED
  BY <1>1, <1>3, <1>4, FS_EmptySet DEF FormatInit, FormatInv

(* Reading a row counts it and leaves the rows before it alone.            *)
LEMMA ReadRowStep ==
  ASSUME FormatInv, NEW cells \in RecordedRows, ReadRow(cells)
  PROVE  FormatInv'
<1>1. /\ channels \in Seq(STRING) /\ channels' = channels /\ HasPosition
      /\ format = None /\ format' = None
      /\ present = Cardinality(PresentRows) /\ packed_valid = Cardinality(ReadableRows)
  BY DEF FormatInv, FormatTypeOK, ReadRow
<1>2. PICK w \in Nat, n \in Nat : w = Len(channels) /\ n = rows_read
  BY CoordinateAssumption DEF FormatInv, FormatTypeOK
<1>3. PICK a \in 1..w, b \in 1..w :
        a = FindChannel(LatitudeAliases) /\ b = FindChannel(LongitudeAliases)
  BY <1>1, <1>2, PositionColumns
<1>4. PICK v \in Seq(Int \cup {Missing}) : v = values /\ Len(v) = n * w
  BY <1>2 DEF FormatInv, FormatTypeOK
<1>5. cells \in Seq(Int \cup {Missing}) /\ Len(cells) = w
  BY <1>1, <1>2, RecordedRowType
<1>6. PICK u : u = v \o cells
  OBVIOUS
<1>7. /\ u \in Seq(Int \cup {Missing}) /\ Len(u) = (n + 1) * w
      /\ \A r \in 0..(n - 1) : \A c \in 1..w : u[r * w + c] = v[r * w + c]
  <2>1. PICK T : T = Int \cup {Missing}
    OBVIOUS
  <2>2. v \in Seq(T) /\ cells \in Seq(T)
    BY <1>4, <1>5, <2>1
  <2>3. /\ u \in Seq(T) /\ Len(u) = (n + 1) * w
        /\ \A r \in 0..(n - 1) : \A c \in 1..w : u[r * w + c] = v[r * w + c]
    <3>1. w \in Nat /\ n \in Nat /\ Len(v) = n * w /\ Len(cells) = w
      BY <1>4, <1>5
    <3>2. /\ v \o cells \in Seq(T) /\ Len(v \o cells) = (n + 1) * w
          /\ \A r \in 0..(n - 1) : \A c \in 1..w :
               r * w + c \in 1..Len(v) /\ (v \o cells)[r * w + c] = v[r * w + c]
      BY <2>2, <3>1, RowAppended
    <3> QED
      BY <1>6, <3>2, Zenon
  <2> QED
    BY <2>1, <2>3
<1>8. values' = u /\ rows_read' = n + 1 /\ n < MaxRows
  BY <1>2, <1>4, <1>6 DEF ReadRow
<1>9. /\ FindChannel(LatitudeAliases)' = a /\ FindChannel(LongitudeAliases)' = b
      /\ Len(channels)' = w /\ HasPosition'
  BY <1>1, <1>2, <1>3 DEF FindChannel, LatitudeAliases, LongitudeAliases, HasPosition
<1>10. PICK A, B, C, D :
         /\ A = {r \in 0..(n - 1) : Present(v[r * w + a], v[r * w + b])}
         /\ B = {r \in 0..n : Present(u[r * w + a], u[r * w + b])}
         /\ C = {r \in 0..(n - 1) : ReadsAsPacked(v[r * w + a], v[r * w + b])}
         /\ D = {r \in 0..n : ReadsAsPacked(u[r * w + a], u[r * w + b])}
  OBVIOUS
<1>11. PresentRows = A /\ ReadableRows = C
  BY <1>2, <1>3, <1>4, <1>10 DEF PresentRows, ReadableRows, Rows, Latitude, Longitude, Value
<1>12. PresentRows' = B /\ ReadableRows' = D
  <2>1. (n + 1) - 1 = n
    OBVIOUS
  <2>2. \A r : Latitude(r)' = u[r * w + a] /\ Longitude(r)' = u[r * w + b]
    BY <1>1, <1>2, <1>3, <1>8, <1>9 DEF Latitude, Longitude, Value, FindChannel,
       LatitudeAliases, LongitudeAliases
  <2>3. Rows' = 0..n
    BY <1>8, <2>1 DEF Rows
  <2>4. /\ PresentRows' = {r \in Rows' : Present(Latitude(r)', Longitude(r)')}
        /\ ReadableRows' = {r \in Rows' : ReadsAsPacked(Latitude(r)', Longitude(r)')}
    BY DEF PresentRows, ReadableRows
  <2> QED
    BY <1>10, <2>2, <2>3, <2>4
<1>13. PICK k \in Nat, q \in Nat : k = present /\ q = packed_valid /\ q <= k /\ k <= n
  BY <1>2 DEF FormatInv, FormatTypeOK
<1>14. /\ present' = IF n \in B THEN k + 1 ELSE k
       /\ packed_valid' = IF n \in D THEN q + 1 ELSE q
  BY <1>2, <1>3, <1>8, <1>10, <1>13 DEF ReadRow
<1>15. present' = Cardinality(B)
  <2>1. \A r \in 0..(n - 1) : r \in 0..n /\ u[r * w + a] = v[r * w + a] /\ u[r * w + b] = v[r * w + b]
    <3>1. \A r \in 0..(n - 1) : r \in 0..n
      OBVIOUS
    <3> QED
      BY <1>3, <1>7, <3>1, Zenon
  <2>2. /\ A \in SUBSET (0..(n - 1)) /\ B \in SUBSET (0..n)
        /\ \A r \in 0..(n - 1) : r \in A <=> r \in B
    BY <1>10, <2>1, Zenon
  <2>3. /\ n \in B => Cardinality(B) = Cardinality(A) + 1
        /\ n \notin B => Cardinality(B) = Cardinality(A)
    BY <2>2, RowCounted
  <2> QED
    BY <1>1, <1>11, <1>13, <1>14, <2>3
<1>16. packed_valid' = Cardinality(D)
  <2>1. \A r \in 0..(n - 1) : r \in 0..n /\ u[r * w + a] = v[r * w + a] /\ u[r * w + b] = v[r * w + b]
    <3>1. \A r \in 0..(n - 1) : r \in 0..n
      OBVIOUS
    <3> QED
      BY <1>3, <1>7, <3>1, Zenon
  <2>2. /\ C \in SUBSET (0..(n - 1)) /\ D \in SUBSET (0..n)
        /\ \A r \in 0..(n - 1) : r \in C <=> r \in D
    BY <1>10, <2>1, Zenon
  <2>3. /\ n \in D => Cardinality(D) = Cardinality(C) + 1
        /\ n \notin D => Cardinality(D) = Cardinality(C)
    BY <2>2, RowCounted
  <2> QED
    BY <1>1, <1>11, <1>13, <1>14, <2>3
<1>17. n \in D => n \in B
  BY <1>10 DEF ReadsAsPacked, IsPackedMinutes, Present
<1>18. FormatTypeOK'
  <2>1. packed_valid' \in 0..present' /\ present' \in 0..(n + 1)
    BY <1>13, <1>14, <1>17
  <2>2. n + 1 \in 0..MaxRows
    BY <1>8, CoordinateAssumption
  <2> QED
    BY <1>1, <1>2, <1>7, <1>8, <1>9, <2>1, <2>2 DEF FormatTypeOK
<1> QED
  BY <1>1, <1>9, <1>12, <1>15, <1>16, <1>18, CoordinateAssumption DEF FormatInv

(* Every step of the detection keeps the invariant.                        *)
LEMMA FormatInvStep == FormatInv /\ [FormatNext]_detection => FormatInv'
<1> SUFFICES ASSUME FormatInv, [FormatNext]_detection PROVE FormatInv'
  OBVIOUS
<1>1. ASSUME UNCHANGED <<channels, values, rows_read, present, packed_valid>>
      PROVE  /\ HasPosition' <=> HasPosition
             /\ PresentRows' = PresentRows /\ ReadableRows' = ReadableRows
             /\ MostlyUnreadable' <=> MostlyUnreadable
  BY <1>1 DEF HasPosition, PresentRows, ReadableRows, Rows, Latitude, Longitude, Value,
     FindChannel, LatitudeAliases, LongitudeAliases, MostlyUnreadable
<1>2. CASE DefaultFormat
  <2>1. UNCHANGED <<channels, values, rows_read, present, packed_valid>>
        /\ format' = "PackedDegreesMinutes" /\ ~HasPosition
    BY <1>2 DEF DefaultFormat
  <2>2. FormatTypeOK'
    BY <2>1 DEF FormatInv, FormatTypeOK
  <2> QED
    BY <1>1, <2>1, <2>2 DEF FormatInv
<1>3. CASE DecideFormat
  <2>1. UNCHANGED <<channels, values, rows_read, present, packed_valid>> /\ HasPosition
        /\ format' = IF present > 0 /\ MostlyUnreadable
                       THEN "ContinuousMinutes" ELSE "PackedDegreesMinutes"
    BY <1>3 DEF DecideFormat
  <2>2. FormatTypeOK'
    BY <2>1 DEF FormatInv, FormatTypeOK
  <2> QED
    BY <1>1, <2>1, <2>2 DEF FormatInv
<1>4. CASE \E cells \in RecordedRows : ReadRow(cells)
  BY <1>4, ReadRowStep
<1>5. CASE UNCHANGED detection
  <2>1. UNCHANGED <<channels, values, rows_read, present, packed_valid>> /\ format' = format
    BY <1>5 DEF detection
  <2>2. FormatTypeOK'
    BY <2>1 DEF FormatInv, FormatTypeOK
  <2> QED
    BY <1>1, <2>1, <2>2 DEF FormatInv
<1> QED
  BY <1>2, <1>3, <1>4, <1>5 DEF FormatNext

(* It holds of every execution.                                            *)
LEMMA FormatInvHolds == FormatSpec => []FormatInv
  BY FormatInvInit, FormatInvStep, PTL DEF FormatSpec

(* The detection counts no more rows as packed than as present, and no     *)
(* more as present than it read, of recordings with any schema and length. *)
THEOREM FormatTypeCorrect == FormatSpec => []FormatTypeOK
<1>1. FormatInv => FormatTypeOK
  BY DEF FormatInv
<1> QED
  BY <1>1, FormatInvHolds, PTL

(* The rows are finitely many.                                             *)
LEMMA RowsAreFinite ==
  ASSUME FormatTypeOK
  PROVE  IsFiniteSet(Rows) /\ IsFiniteSet(PresentRows) /\ IsFiniteSet(ReadableRows)
<1>1. rows_read \in Nat
  BY CoordinateAssumption DEF FormatTypeOK
<1>2. IsFiniteSet(Rows)
  BY <1>1, FS_Interval DEF Rows
<1> QED
  BY <1>2, FS_Subset DEF PresentRows, ReadableRows

(* Whatever the other rows hold, a recording with a majority, or half, of  *)
(* packed rows decodes each of them to the position it was written for.    *)
THEOREM PackedRecordingsAreDecoded == FormatSpec => []PackedRecordingIsDecoded
<1>1. FormatInv => PackedRecordingIsDecoded
  <2> SUFFICES ASSUME FormatInv, format # None, HasPosition,
                      2 * Cardinality(UNION {PackedRows(p) : p \in Positions})
                        >= Cardinality(PresentRows),
                      NEW p \in Positions, NEW r \in PackedRows(p)
               PROVE  GeoPoint(r) = p
    BY DEF PackedRecordingIsDecoded
  <2>1. \A q \in Positions : q \in Position
    BY CoordinateAssumption
  <2>2. \A q \in Positions : PackedRows(q) \subseteq ReadableRows
    BY <2>1, PackedPosition DEF PackedRows, ReadableRows
  <2>3. PICK S : S = UNION {PackedRows(q) : q \in Positions}
    OBVIOUS
  <2>4. S \in SUBSET ReadableRows
    BY <2>2, <2>3
  <2>5. Cardinality(S) <= Cardinality(ReadableRows) /\ Cardinality(S) \in Nat
    BY <2>4, RowsAreFinite, FS_Subset, FS_CardinalityType DEF FormatInv
  <2>6. packed_valid \in Nat /\ present \in Nat
        /\ packed_valid = Cardinality(ReadableRows) /\ present = Cardinality(PresentRows)
    BY CoordinateAssumption DEF FormatInv, FormatTypeOK
  <2>7. ~MostlyUnreadable
    BY <2>3, <2>5, <2>6 DEF MostlyUnreadable
  <2>8. format # "ContinuousMinutes"
    BY <2>7 DEF FormatInv
  <2>9. /\ Latitude(r) = PackedCell(p.latitude, "Latitude")
        /\ Longitude(r) = PackedCell(p.longitude, "Longitude")
    BY DEF PackedRows
  <2>10. p = [latitude |-> p.latitude, longitude |-> p.longitude]
    BY <2>1 DEF Position
  <2> QED
    BY <2>1, <2>8, <2>9, <2>10, PackedPosition DEF GeoPoint, DecodeGeoPoint
<1> QED
  BY <1>1, FormatInvHolds, PTL

(* A recording of continuous minutes, most of whose rows no packed         *)
(* recorder can have written, decodes each of them.                        *)
THEOREM ContinuousRecordingsAreDecoded == FormatSpec => []ContinuousRecordingIsDecoded
<1>1. FormatInv => ContinuousRecordingIsDecoded
  <2> DEFINE Unreadable == {r \in PresentRows : ~ReadsAsPacked(Latitude(r), Longitude(r))}
  <2> SUFFICES ASSUME FormatInv, format # None, HasPosition,
                      2 * Cardinality(Unreadable) > Cardinality(PresentRows),
                      NEW p \in Positions, NEW r \in ContinuousRows(p)
               PROVE  GeoPoint(r) = p
    BY DEF ContinuousRecordingIsDecoded
  <2>1. ReadableRows \subseteq PresentRows
    BY DEF ReadableRows, PresentRows, ReadsAsPacked, IsPackedMinutes, Present
  <2>2. Unreadable = PresentRows \ ReadableRows /\ PresentRows \cap ReadableRows = ReadableRows
    BY <2>1 DEF ReadableRows, PresentRows
  <2> HIDE DEF Unreadable
  <2>3. Cardinality(Unreadable) = Cardinality(PresentRows) - Cardinality(ReadableRows)
    <3>1. IsFiniteSet(PresentRows)
      BY RowsAreFinite DEF FormatInv
    <3>2. Cardinality(PresentRows \ ReadableRows)
            = Cardinality(PresentRows) - Cardinality(PresentRows \cap ReadableRows)
      BY <3>1, FS_Difference
    <3> QED
      BY <2>2, <3>2
  <2>4. packed_valid \in Nat /\ present \in Nat
        /\ packed_valid = Cardinality(ReadableRows) /\ present = Cardinality(PresentRows)
    BY CoordinateAssumption DEF FormatInv, FormatTypeOK
  <2>5. MostlyUnreadable
    BY <2>3, <2>4 DEF MostlyUnreadable
  <2>6. present > 0
    BY <2>4, <2>5 DEF MostlyUnreadable
  <2>7. format = "ContinuousMinutes"
    BY <2>5, <2>6 DEF FormatInv, FormatTypeOK
  <2>8. /\ Latitude(r) = ContinuousCell(p.latitude, "Latitude")
        /\ Longitude(r) = ContinuousCell(p.longitude, "Longitude")
    BY DEF ContinuousRows
  <2> QED
    BY <2>7, <2>8, ContinuousRoundTrip, CoordinateAssumption DEF GeoPoint, DecodeGeoPoint
<1> QED
  BY <1>1, FormatInvHolds, PTL
=============================================================================
