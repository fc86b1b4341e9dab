---------------------------- MODULE AnalysisProofs ----------------------------
(***************************************************************************)
(* Theorems about src/analysis.rs: lap detection, the trailing mean, and   *)
(* the series it is part of, for every trace, series and number of sectors *)
(* and however quotients round.                                            *)
(***************************************************************************)
EXTENDS LapDetector, TimeSeries, BasicLemmas

(***************************************************************************)
(* Lap detection.                                                          *)
(***************************************************************************)

(* Interpolation stays within the pair and does not reverse the crossings, *)
(* whatever the rounding of the quotient loses.                            *)
LEMMA Interpolation ==
  ASSUME NEW a \in Nat, NEW b \in Nat, a <= b,
         NEW f \in 0..K, NEW g \in 0..K, f <= g
  PROVE  /\ a + ((b - a) * f) \div K \in a..b
         /\ a + ((b - a) * f) \div K <= a + ((b - a) * g) \div K
<1>1. K \in Nat \ {0}  BY LapAssumption
<1>2. PICK d \in Nat : d = b - a  OBVIOUS
<1>3. d * f \in Nat /\ d * g \in Nat /\ d * f <= d * g
  BY <1>1, ProductMonotonic
<1>4. d * f <= d * K /\ d * K \in Nat  BY <1>1, ProductMonotonic
<1>5. (d * f) \div K \in Nat /\ (d * f) \div K <= (d * g) \div K /\ (d * g) \div K \in Nat
  BY <1>1, <1>3, DivMonotonic
<1>6. (d * f) \div K <= (d * K) \div K  BY <1>1, <1>3, <1>4, DivMonotonic
<1>7. (d * K) \div K = d  BY <1>1, DivExact
<1>8. a + (d * f) \div K \in a..b /\ a + (d * f) \div K <= a + (d * g) \div K
  BY <1>2, <1>5, <1>6, <1>7
<1> QED  BY <1>2, <1>8

(* An interpolated time stays within its pair of samples. *)
LEMMA InterpolateWithin ==
  ASSUME before \in Nat, after \in Nat, before <= after, NEW f \in 0..K
  PROVE  InterpolateTime(f) \in before..after
<1>1. f <= f  BY LapAssumption
<1> QED  BY <1>1, Interpolation DEF InterpolateTime

-----------------------------------------------------------------------------
(* The sectors crossed in the running lap: the first next_sector ones, in  *)
(* time order, none before the lap's start.                                *)
RunningLap ==
  /\ lap_start = NoTime => next_sector = 0
  /\ \A s \in Sector :
       /\ s > next_sector => sector_crossings[s] = NoTime
       /\ s <= next_sector =>
            /\ sector_crossings[s] \in Nat
            /\ lap_start <= sector_crossings[s]
            /\ s > 1 => sector_crossings[s - 1] <= sector_crossings[s]

\* Nothing pending is earlier than what the lap has recorded.
NotBefore(time) ==
  /\ lap_start # NoTime => lap_start \in Nat /\ lap_start <= time
  /\ \A s \in Sector : s <= next_sector => sector_crossings[s] <= time

LapInv ==
  /\ LapTypeOK
  /\ before <= after
  /\ RunningLap
  /\ NotBefore(after)
  /\ \A e \in events : NotBefore(InterpolateTime(e.fraction))
  /\ LapsChain
  /\ SectorsPartitionLap

(* LapInv holds before the first pair. *)
LEMMA LapBegins == LapInit => LapInv
<1> SUFFICES ASSUME LapInit PROVE LapInv  OBVIOUS
<1>1. side \in [Gate -> Side] /\ N \in Nat /\ MaxPairs \in Nat  BY LapAssumption DEF LapInit
<1>2. LapTypeOK  BY <1>1 DEF LapInit, LapTypeOK, TimeIfAny, NoCrossings
<1>3. RunningLap /\ NotBefore(after)  BY DEF LapInit, RunningLap, NotBefore, NoCrossings, Sector
<1>4. LapsChain /\ SectorsPartitionLap  BY DEF LapInit, LapsChain, SectorsPartitionLap
<1> QED  BY <1>2, <1>3, <1>4 DEF LapInit, LapInv

(* Handling an event: its time lies in the pair, not before what is        *)
(* recorded, and no remaining event is earlier.                            *)
LEMMA HandleFacts ==
  ASSUME LapInv, NEW e \in events, Handle(e)
  PROVE  /\ e.gate \in Gate /\ e.fraction \in 0..K
         /\ InterpolateTime(e.fraction) \in Nat
         /\ InterpolateTime(e.fraction) <= after
         /\ NotBefore(InterpolateTime(e.fraction))
         /\ \A o \in events' : /\ o \in events
                              /\ InterpolateTime(e.fraction) <= InterpolateTime(o.fraction)
         /\ \A f : InterpolateTime(f)' = InterpolateTime(f)
         /\ UNCHANGED <<before, after, side, pairs>>
         /\ events' \in SUBSET Event
         /\ seen' \in Seq([gate : Gate, time : Int])
<1>1. /\ before \in Nat /\ after \in Nat /\ before <= after /\ events \in SUBSET Event
      /\ seen \in Seq([gate : Gate, time : Int])
  BY DEF LapInv, LapTypeOK
<1>2. \A o \in events : o.gate \in Gate /\ o.fraction \in 0..K  BY <1>1 DEF Event
<1>3. K \in Nat \ {0}  BY LapAssumption
<1>4. InterpolateTime(e.fraction) \in before..after  BY <1>1, <1>2, InterpolateWithin
<1>5. \A o \in events' : o \in events /\ InterpolateTime(e.fraction) <= InterpolateTime(o.fraction)
  <2> TAKE o \in events'
  <2>1. o \in events  BY DEF Handle
  <2>2. e.fraction <= o.fraction  BY <1>2, <1>3, <2>1 DEF Handle, IsNext
  <2> QED  BY <1>1, <1>2, <2>1, <2>2, Interpolation DEF InterpolateTime
<1>6. UNCHANGED <<before, after, side, pairs>>  BY DEF Handle
<1>7. \A f : InterpolateTime(f)' = InterpolateTime(f)  BY <1>6 DEF InterpolateTime
<1>8. seen' \in Seq([gate : Gate, time : Int])
  <2>1. [gate |-> e.gate, time |-> InterpolateTime(e.fraction)] \in [gate : Gate, time : Int]
    BY <1>1, <1>2, <1>4
  <2> QED  BY <1>1, <2>1 DEF Handle
<1> QED  BY <1>1, <1>2, <1>4, <1>5, <1>6, <1>7, <1>8 DEF LapInv, Handle

-----------------------------------------------------------------------------
(* What is not before a time is not before a later one.                    *)
LEMMA NotBeforeLater ==
  ASSUME RunningLap, next_sector \in 0..N, NEW t \in Nat, NotBefore(t),
         NEW u \in Nat, t <= u
  PROVE  NotBefore(u)
<1>1. N \in Nat  BY LapAssumption
<1>2. lap_start # NoTime => lap_start \in Nat /\ lap_start <= u  BY DEF NotBefore
<1>3. ASSUME NEW s \in Sector, s <= next_sector PROVE sector_crossings[s] <= u
  <2>1. sector_crossings[s] \in Nat  BY <1>3 DEF RunningLap
  <2>2. sector_crossings[s] <= t  BY <1>3 DEF NotBefore
  <2> QED  BY <2>1, <2>2
<1> QED  BY <1>2, <1>3 DEF NotBefore

(* A pair of samples keeps LapInv: its crossings are not earlier than anything recorded. *)
LEMMA NextPairStep ==
  ASSUME LapInv, NEW step \in 1..MaxStep, NEW new_side \in [Gate -> Sides], NextPair(step, new_side)
  PROVE  LapInv'
<1>1. /\ before \in Nat /\ after \in Nat /\ pairs \in 0..MaxPairs /\ next_sector \in 0..N
      /\ RunningLap /\ NotBefore(after) /\ LapsChain /\ SectorsPartitionLap
  BY DEF LapInv, LapTypeOK
<1>2. N \in Nat /\ MaxPairs \in Nat /\ Sides \subseteq Side  BY LapAssumption
<1>3. UNCHANGED <<lap_start, sector_crossings, next_sector, laps, seen>>  BY DEF NextPair
<1>4. /\ before' = after /\ after' = after + step /\ after' \in Nat /\ before' \in Nat
      /\ before' <= after'
  BY <1>1 DEF NextPair
<1>5. events' \in SUBSET Event
  <2>1. PICK crossed \in SUBSET Gate : \E fraction \in [crossed -> 0..K] :
          events' = {[gate |-> g, fraction |-> fraction[g]] : g \in crossed}
    BY DEF NextPair
  <2>2. PICK fraction \in [crossed -> 0..K] :
          events' = {[gate |-> g, fraction |-> fraction[g]] : g \in crossed}
    BY <2>1
  <2> QED  BY <2>2 DEF Event
<1>6. LapTypeOK'
  <2>1. pairs' \in 0..MaxPairs  BY <1>1, <1>2 DEF NextPair
  <2>2. side' \in [Gate -> Side]  BY <1>2 DEF NextPair
  <2> QED  BY <1>3, <1>4, <1>5, <2>1, <2>2 DEF LapTypeOK, LapInv
<1>7. NotBefore(after)'
  <2>1. NotBefore(after + step)  BY <1>1, <1>4, NotBeforeLater
  <2> QED  BY <2>1, <1>3, <1>4 DEF NotBefore
<1>8. ASSUME NEW e \in events' PROVE NotBefore(InterpolateTime(e.fraction))'
  <2>1. e.fraction \in 0..K /\ e.fraction <= e.fraction  BY <1>5, <1>8, LapAssumption DEF Event
  <2>2. PICK t \in before'..after' : t = InterpolateTime(e.fraction)'
    BY <1>4, <2>1, Interpolation DEF InterpolateTime
  <2>3. t \in Nat /\ after <= t  BY <1>1, <1>4
  <2>4. NotBefore(t)  BY <1>1, <2>3, NotBeforeLater
  <2> QED  BY <1>3, <2>2, <2>4 DEF NotBefore
<1>9. RunningLap' /\ LapsChain' /\ SectorsPartitionLap'
  BY <1>1, <1>3 DEF RunningLap, LapsChain, SectorsPartitionLap
<1> QED  BY <1>4, <1>6, <1>7, <1>8, <1>9 DEF LapInv

-----------------------------------------------------------------------------
(* What every handled event leaves to show: the types of what it changes,  *)
(* the running lap, and the laps.                                          *)
LEMMA HandledStep ==
  ASSUME LapInv, NEW e \in events, Handle(e),
         lap_start' \in TimeIfAny,
         sector_crossings' \in [Sector -> TimeIfAny],
         next_sector' \in 0..N,
         laps' \in Seq(Lap),
         RunningLap',
         NotBefore(after)',
         \A o \in events' : NotBefore(InterpolateTime(o.fraction))',
         LapsChain', SectorsPartitionLap'
  PROVE  LapInv'
<1>1. UNCHANGED <<before, after, side, pairs>> /\ events' \in SUBSET Event
      /\ seen' \in Seq([gate : Gate, time : Int])
  BY HandleFacts
<1>2. LapTypeOK'  BY <1>1 DEF LapInv, LapTypeOK
<1>3. before' <= after'  BY <1>1 DEF LapInv
<1> QED  BY <1>2, <1>3 DEF LapInv

(* A lap opened at an event's time: nothing is recorded yet, and nothing   *)
(* pending is earlier.                                                     *)
LEMMA OpenLapFacts ==
  ASSUME LapInv, NEW e \in events, Handle(e), OpenLap(InterpolateTime(e.fraction))
  PROVE  /\ lap_start' \in TimeIfAny
         /\ sector_crossings' \in [Sector -> TimeIfAny]
         /\ next_sector' \in 0..N
         /\ RunningLap'
         /\ NotBefore(after)'
         /\ \A o \in events' : NotBefore(InterpolateTime(o.fraction))'
<1>1. PICK t \in Nat : t = InterpolateTime(e.fraction)  BY HandleFacts
<1>2. lap_start' = t /\ sector_crossings' = NoCrossings /\ next_sector' = 0  BY <1>1 DEF OpenLap
<1>3. N \in Nat /\ NoTime \notin Int  BY LapAssumption
<1>4. ASSUME NEW u \in Nat, t <= u
      PROVE  /\ lap_start' # NoTime => lap_start' \in Nat /\ lap_start' <= u
             /\ \A s \in Sector : s <= next_sector' => sector_crossings'[s] <= u
  BY <1>2, <1>3, <1>4 DEF Sector
<1>5. RunningLap'  BY <1>2, <1>3 DEF RunningLap, NoCrossings, Sector
<1>6. NotBefore(after)'
  <2>1. after \in Nat /\ after' = after /\ t <= after  BY <1>1, HandleFacts DEF LapInv, LapTypeOK
  <2>2. after' \in Nat /\ t <= after'  BY <2>1
  <2> QED  BY <1>4, <2>2 DEF NotBefore
<1>7. ASSUME NEW o \in events' PROVE NotBefore(InterpolateTime(o.fraction))'
  <2>1. o \in events /\ t <= InterpolateTime(o.fraction)  BY <1>1, <1>7, HandleFacts
  <2>2. InterpolateTime(o.fraction)' = InterpolateTime(o.fraction)  BY HandleFacts
  <2>3. before \in Nat /\ after \in Nat /\ before <= after /\ o.fraction \in 0..K
    BY <2>1 DEF LapInv, LapTypeOK, Event
  <2>4. InterpolateTime(o.fraction) \in Nat  BY <2>3, InterpolateWithin
  <2>5. PICK u \in Nat : u = InterpolateTime(o.fraction)' /\ t <= u  BY <2>1, <2>2, <2>4
  <2> QED  BY <1>4, <2>5 DEF NotBefore
<1>8. t \in TimeIfAny /\ NoCrossings \in [Sector -> TimeIfAny]  BY DEF TimeIfAny, NoCrossings
<1>9. next_sector' \in 0..N  BY <1>2, <1>3
<1> QED  BY <1>2, <1>5, <1>6, <1>7, <1>8, <1>9

(* The boundary before a sector crossed in order is the sector in front of *)
(* it.                                                                     *)
LEMMA PreviousFacts ==
  ASSUME LapInv, NEW start, NEW s \in Sector, s <= next_sector
  PROVE  Previous(start, s) = IF s = 1 THEN start ELSE sector_crossings[s - 1]
<1>1. N \in Nat /\ NoTime \notin Int  BY LapAssumption
<1>2. s \in Nat /\ next_sector \in 0..N  BY <1>1 DEF Sector, LapInv, LapTypeOK
<1> DEFINE crossed == {j \in 1..(s - 1) : sector_crossings[j] # NoTime}
<1>3. \A j \in 1..(s - 1) : sector_crossings[j] \in Nat
  BY <1>1, <1>2 DEF Sector, LapInv, RunningLap
<1>4. CASE s = 1
  <2>1. crossed = {}  BY <1>4
  <2> QED  BY <1>4, <2>1 DEF Previous
<1>5. CASE s # 1
  <2>1. s - 1 \in crossed  BY <1>1, <1>2, <1>3, <1>5 DEF Sector
  <2>2. crossed \in SUBSET (1..(s - 1)) /\ crossed # {} /\ s - 1 \in Nat  BY <1>2, <1>5, <2>1 DEF Sector
  <2>3. Previous(start, s) = sector_crossings[Max(crossed)]  BY <2>2 DEF Previous
  <2> HIDE DEF crossed
  <2>4. Max(crossed) \in crossed /\ s - 1 <= Max(crossed)  BY <2>1, <2>2, MaxOfInterval
  <2>5. PICK m : m = Max(crossed) /\ m \in 1..(s - 1) /\ s - 1 <= m  BY <2>2, <2>4
  <2>6. Max(crossed) = s - 1  BY <1>2, <2>5
  <2> QED  BY <1>5, <2>3, <2>6
<1> QED  BY <1>4, <1>5

(* The lap built at a line crossing is a lap whose sectors partition it.   *)
LEMMA BuildLapFacts ==
  ASSUME LapInv, lap_start \in Nat, NEW finish \in Nat, NotBefore(finish)
  PROVE  /\ BuildLap(lap_start, finish) \in Lap
         /\ Partitioned(BuildLap(lap_start, finish))
<1> DEFINE lap == BuildLap(lap_start, finish)
<1>1. N \in Nat /\ NoTime \notin Int  BY LapAssumption
<1>2. RunningLap /\ next_sector \in 0..N  BY DEF LapInv, LapTypeOK
<1>3. /\ lap.started = lap_start /\ lap.finished = finish
      /\ \A s \in Sector : lap.sectors[s] =
           IF sector_crossings[s] = NoTime THEN [elapsed |-> NoTime, duration |-> NoTime]
           ELSE [elapsed |-> sector_crossings[s] - lap_start,
                 duration |-> sector_crossings[s] - Previous(lap_start, s)]
  BY DEF BuildLap
<1>4. ASSUME NEW s \in Sector, s <= next_sector
      PROVE  /\ sector_crossings[s] \in Nat /\ sector_crossings[s] # NoTime
             /\ lap_start <= sector_crossings[s] /\ sector_crossings[s] <= finish
             /\ s > 1 => sector_crossings[s - 1] <= sector_crossings[s]
  BY <1>1, <1>2, <1>4 DEF RunningLap, NotBefore
<1>5. ASSUME NEW s \in Sector, ~(s <= next_sector)
      PROVE  lap.sectors[s] = [elapsed |-> NoTime, duration |-> NoTime]
  <2>1. s > next_sector  BY <1>1, <1>2, <1>5 DEF Sector
  <2> QED  BY <1>2, <1>3, <2>1 DEF RunningLap
<1>6. ASSUME NEW s \in Sector, s <= next_sector
      PROVE  /\ lap.sectors[s].elapsed = sector_crossings[s] - lap_start
             /\ lap.sectors[s].duration =
                  sector_crossings[s] - (IF s = 1 THEN lap_start ELSE sector_crossings[s - 1])
             /\ lap.sectors[s] \in SectorTime
  <2>1. lap.sectors[s] = [elapsed |-> sector_crossings[s] - lap_start,
                          duration |-> sector_crossings[s] - Previous(lap_start, s)]
    BY <1>3, <1>4, <1>6
  <2>2. Previous(lap_start, s) = IF s = 1 THEN lap_start ELSE sector_crossings[s - 1]
    BY <1>6, PreviousFacts
  <2>3. s > 1 => s - 1 \in Sector /\ s - 1 <= next_sector  BY <1>1, <1>2, <1>6 DEF Sector
  <2>4. Previous(lap_start, s) \in Nat  BY <1>4, <2>2, <2>3 DEF Sector
  <2>5. sector_crossings[s] \in Nat  BY <1>4, <1>6
  <2> QED  BY <2>1, <2>2, <2>4, <2>5 DEF SectorTime, TimeIfAny
<1>7. lap \in Lap
  <2>1. \A s \in Sector : lap.sectors[s] \in SectorTime
    <3> TAKE s \in Sector
    <3>1. CASE s <= next_sector  BY <1>6, <3>1
    <3>2. CASE ~(s <= next_sector)  BY <1>5, <3>2 DEF SectorTime, TimeIfAny
    <3> QED  BY <3>1, <3>2
  <2>2. lap = [started |-> lap_start, finished |-> finish, sectors |-> lap.sectors]
        /\ lap.sectors = [s \in Sector |-> lap.sectors[s]]
    BY DEF BuildLap
  <2> HIDE DEF lap
  <2>3. lap.sectors \in [Sector -> SectorTime]  BY <2>1, <2>2
  <2> QED  BY <2>2, <2>3 DEF Lap
<1> HIDE DEF lap
<1>8. ASSUME NEW s \in Sector, Elapsed(lap, s) # NoTime
      PROVE  /\ Elapsed(lap, s - 1) # NoTime
             /\ lap.sectors[s].duration = Elapsed(lap, s) - Elapsed(lap, s - 1)
             /\ Elapsed(lap, s - 1) <= Elapsed(lap, s)
             /\ Elapsed(lap, s) <= lap.finished - lap.started
  <2>1. s \in Nat /\ s >= 1  BY <1>1 DEF Sector
  <2>2. s <= next_sector  BY <1>5, <1>8, <2>1 DEF Elapsed
  <2>3. Elapsed(lap, s) = sector_crossings[s] - lap_start  BY <1>6, <2>1, <2>2 DEF Elapsed
  <2>4. CASE s = 1
    <3>1. Elapsed(lap, s - 1) = 0  BY <2>4 DEF Elapsed
    <3> QED  BY <1>1, <1>3, <1>4, <1>6, <2>2, <2>3, <2>4, <3>1
  <2>5. CASE s > 1
    <3>1. s - 1 \in Sector /\ s - 1 <= next_sector  BY <1>1, <1>2, <2>2, <2>5 DEF Sector
    <3>2. Elapsed(lap, s - 1) = sector_crossings[s - 1] - lap_start
      BY <1>6, <2>1, <2>5, <3>1 DEF Elapsed
    <3>3. sector_crossings[s] \in Nat /\ sector_crossings[s - 1] \in Nat
          /\ sector_crossings[s - 1] <= sector_crossings[s] /\ sector_crossings[s] <= finish
      BY <1>4, <2>2, <2>5, <3>1
    <3>4. lap.sectors[s].duration = sector_crossings[s] - sector_crossings[s - 1]
      BY <1>6, <2>2, <2>5
    <3>5. sector_crossings[s - 1] - lap_start \in Int  BY <3>3
    <3>6. Elapsed(lap, s - 1) # NoTime  BY <1>1, <3>2, <3>5
    <3> QED  BY <1>3, <2>3, <3>2, <3>3, <3>4, <3>6
  <2> QED  BY <2>1, <2>4, <2>5
<1> QED  BY <1>7, <1>8 DEF Partitioned, lap

-----------------------------------------------------------------------------
(* The first crossing of the line begins a lap with no sectors. *)
LEMMA FirstLineCrossingStep ==
  ASSUME LapInv, NEW e \in events, FirstLineCrossing(e)
  PROVE  LapInv'
<1>1. Handle(e) /\ OpenLap(InterpolateTime(e.fraction)) /\ laps' = laps /\ lap_start = NoTime
  BY DEF FirstLineCrossing
<1>2. laps = <<>>
  <2>1. laps # <<>> => laps[Len(laps)] \in Lap
    BY DEF LapInv, LapTypeOK
  <2>2. laps # <<>> => lap_start \in Int  BY <2>1 DEF LapInv, LapsChain, Lap
  <2> QED  BY <1>1, <2>2, LapAssumption
<1>3. laps' \in Seq(Lap) /\ LapsChain' /\ SectorsPartitionLap'
  BY <1>1, <1>2 DEF LapsChain, SectorsPartitionLap
<1> QED  BY <1>1, <1>3, OpenLapFacts, HandledStep

(* A second crossing at the time of the first begins the lap anew. *)
LEMMA RestartLapStep ==
  ASSUME LapInv, NEW e \in events, RestartLap(e)
  PROVE  LapInv'
<1>1. Handle(e) /\ OpenLap(InterpolateTime(e.fraction)) /\ laps' = laps /\ lap_start # NoTime
      /\ ~(InterpolateTime(e.fraction) > lap_start)
  BY DEF RestartLap
<1>2. PICK t \in Nat : t = InterpolateTime(e.fraction) /\ NotBefore(t)  BY <1>1, HandleFacts
<1>3. lap_start \in Nat /\ lap_start <= t  BY <1>1, <1>2 DEF NotBefore
<1>4. lap_start' = lap_start  BY <1>1, <1>2, <1>3 DEF OpenLap
<1>5. laps' \in Seq(Lap) /\ LapsChain' /\ SectorsPartitionLap'
  BY <1>1, <1>4 DEF LapInv, LapTypeOK, LapsChain, SectorsPartitionLap
<1> QED  BY <1>1, <1>5, OpenLapFacts, HandledStep

(* The lap that is pushed ends where the next one starts. *)
LEMMA CompleteLapStep ==
  ASSUME LapInv, NEW e \in events, CompleteLap(e)
  PROVE  LapInv'
<1>1. PICK t \in Nat : t = InterpolateTime(e.fraction) /\ NotBefore(t)
  BY HandleFacts DEF CompleteLap
<1>2. /\ Handle(e) /\ OpenLap(InterpolateTime(e.fraction)) /\ lap_start # NoTime /\ t > lap_start
      /\ laps' = Append(laps, BuildLap(lap_start, t))
  BY <1>1 DEF CompleteLap
<1>3. lap_start \in Nat  BY <1>1, <1>2 DEF NotBefore
<1>4. PICK lap \in Lap : lap = BuildLap(lap_start, t) /\ Partitioned(lap)
  BY <1>1, <1>3, BuildLapFacts
<1>5. lap.started = lap_start /\ lap.finished = t  BY <1>4 DEF BuildLap
<1>6. laps \in Seq(Lap) /\ laps' = Append(laps, lap)  BY <1>2, <1>4 DEF LapInv, LapTypeOK
<1>7. /\ laps' \in Seq(Lap) /\ Len(laps') = Len(laps) + 1
      /\ \A i \in 1..Len(laps) : laps'[i] = laps[i]
      /\ laps'[Len(laps) + 1] = lap
      /\ DOMAIN laps' = 1..(Len(laps) + 1) /\ DOMAIN laps = 1..Len(laps) /\ Len(laps) \in Nat
  BY <1>6
<1>8. LapsChain'
  <2>1. ASSUME NEW i \in DOMAIN laps'
        PROVE  laps'[i].started < laps'[i].finished
               /\ (i > 1 => laps'[i].started = laps'[i - 1].finished)
    <3>1. CASE i \in 1..Len(laps)
      <4>1. i > 1 => i - 1 \in 1..Len(laps)  BY <1>7, <3>1
      <4>2. laps[i].started < laps[i].finished /\ (i > 1 => laps[i].started = laps[i - 1].finished)
        BY <1>7, <3>1 DEF LapInv, LapsChain
      <4> QED  BY <1>7, <3>1, <4>1, <4>2
    <3>2. CASE i = Len(laps) + 1
      <4>1. laps'[i].started < laps'[i].finished  BY <1>2, <1>5, <1>7, <3>2
      <4>2. ASSUME i > 1 PROVE laps'[i].started = laps'[i - 1].finished
        <5>1. Len(laps) \in 1..Len(laps) /\ i - 1 = Len(laps) /\ laps # <<>>  BY <1>7, <3>2, <4>2
        <5>2. lap_start = laps[Len(laps)].finished  BY <5>1 DEF LapInv, LapsChain
        <5> QED  BY <1>5, <1>7, <3>2, <5>1, <5>2
      <4> QED  BY <4>1, <4>2
    <3> QED  BY <1>7, <2>1, <3>1, <3>2
  <2>2. lap_start' = laps'[Len(laps')].finished  BY <1>1, <1>2, <1>5, <1>7 DEF OpenLap
  <2> QED  BY <2>1, <2>2 DEF LapsChain
<1>9. SectorsPartitionLap'
  <2>1. ASSUME NEW i \in DOMAIN laps' PROVE Partitioned(laps'[i])
    <3>1. CASE i \in 1..Len(laps)  BY <1>7, <3>1 DEF LapInv, SectorsPartitionLap
    <3>2. CASE i = Len(laps) + 1  BY <1>4, <1>7, <3>2
    <3> QED  BY <1>7, <2>1, <3>1, <3>2
  <2> QED  BY <2>1 DEF SectorsPartitionLap, Partitioned, Elapsed
<1> QED  BY <1>2, <1>7, <1>8, <1>9, OpenLapFacts, HandledStep

(* A sector crossing is recorded behind those of the sectors before. *)
LEMMA CrossSectorStep ==
  ASSUME LapInv, NEW e \in events, CrossSector(e)
  PROVE  LapInv'
<1>1. PICK t \in Nat : /\ t = InterpolateTime(e.fraction) /\ NotBefore(t) /\ t <= after
                       /\ \A o \in events' : t <= InterpolateTime(o.fraction)
  BY HandleFacts DEF CrossSector
<1>2. PICK g \in Sector : g = e.gate
  BY HandleFacts, LapAssumption DEF CrossSector, Gate, Sector
<1>3. /\ Handle(e) /\ lap_start # NoTime /\ g - 1 = next_sector
      /\ sector_crossings' = [sector_crossings EXCEPT ![g] = t]
      /\ next_sector' = next_sector + 1
      /\ lap_start' = lap_start /\ laps' = laps
  BY <1>1, <1>2 DEF CrossSector
<1>4. /\ N \in Nat /\ NoTime \notin Int
      /\ sector_crossings \in [Sector -> TimeIfAny] /\ lap_start \in Nat /\ lap_start <= t
      /\ RunningLap /\ before \in Nat /\ after \in Nat /\ before <= after
  BY <1>1, <1>3, LapAssumption DEF LapInv, LapTypeOK, NotBefore
<1>5. next_sector' = g /\ g \in Nat /\ g >= 1 /\ g <= N  BY <1>2, <1>3, <1>4 DEF Sector
<1>6. /\ sector_crossings' \in [Sector -> TimeIfAny]
      /\ sector_crossings'[g] = t
      /\ \A s \in Sector : s # g => sector_crossings'[s] = sector_crossings[s]
  BY <1>3, <1>4 DEF TimeIfAny
<1>7. \A s \in Sector : s < g => s <= next_sector  BY <1>3, <1>5 DEF Sector
<1>8. \A s \in Sector : s <= g =>
        sector_crossings'[s] \in Nat /\ sector_crossings'[s] <= t /\ lap_start <= sector_crossings'[s]
  <2> SUFFICES ASSUME NEW s \in Sector, s <= g
               PROVE  /\ sector_crossings'[s] \in Nat /\ sector_crossings'[s] <= t
                      /\ lap_start <= sector_crossings'[s]
    OBVIOUS
  <2>1. CASE s = g  BY <1>4, <1>6, <2>1
  <2>2. CASE s < g  BY <1>1, <1>4, <1>6, <1>7, <2>2 DEF RunningLap, NotBefore
  <2> QED  BY <1>5, <2>1, <2>2 DEF Sector
<1>9. RunningLap'
  <2>1. \A s \in Sector : s > g => sector_crossings'[s] = NoTime
    BY <1>3, <1>4, <1>5, <1>6 DEF RunningLap, Sector
  <2>2. ASSUME NEW s \in Sector, s <= g, s > 1
        PROVE  sector_crossings'[s - 1] <= sector_crossings'[s]
    <3>1. s - 1 \in Sector /\ s - 1 < g /\ s - 1 # g  BY <1>4, <1>5, <2>2 DEF Sector
    <3>2. CASE s = g
      <4>1. s - 1 <= g  BY <1>5, <3>1, <3>2
      <4>2. sector_crossings'[s - 1] <= t  BY <1>8, <3>1, <4>1
      <4> QED  BY <1>6, <3>2, <4>2
    <3>3. CASE s < g
      <4>1. sector_crossings[s - 1] <= sector_crossings[s]  BY <1>4, <1>7, <2>2, <3>3 DEF RunningLap
      <4>2. s # g  BY <1>5, <3>3
      <4>3. sector_crossings'[s - 1] = sector_crossings[s - 1]  BY <1>6, <3>1
      <4>4. sector_crossings'[s] = sector_crossings[s]  BY <1>6, <4>2
      <4> QED  BY <4>1, <4>3, <4>4
    <3> QED  BY <1>5, <2>2, <3>2, <3>3 DEF Sector
  <2>3. lap_start' # NoTime  BY <1>3
  <2> QED  BY <1>3, <1>5, <1>8, <2>1, <2>2, <2>3 DEF RunningLap
<1>10. ASSUME NEW u \in Nat, t <= u
       PROVE  /\ lap_start' # NoTime => lap_start' \in Nat /\ lap_start' <= u
              /\ \A s \in Sector : s <= next_sector' => sector_crossings'[s] <= u
  BY <1>3, <1>4, <1>5, <1>8, <1>10
<1>11. NotBefore(after)'
  <2>1. after' = after  BY <1>3 DEF Handle
  <2> QED  BY <1>1, <1>4, <1>10, <2>1 DEF NotBefore
<1>12. ASSUME NEW o \in events' PROVE NotBefore(InterpolateTime(o.fraction))'
  <2>1. o \in events /\ InterpolateTime(o.fraction)' = InterpolateTime(o.fraction)
    BY <1>3, HandleFacts
  <2>2. o.fraction \in 0..K  BY <2>1 DEF LapInv, LapTypeOK, Event
  <2>3. InterpolateTime(o.fraction) \in Nat  BY <1>4, <2>2, InterpolateWithin
  <2>4. PICK u \in Nat : u = InterpolateTime(o.fraction)' /\ t <= u  BY <1>1, <2>1, <2>3
  <2> QED  BY <1>10, <2>4 DEF NotBefore
<1>13. laps' \in Seq(Lap) /\ LapsChain' /\ SectorsPartitionLap'
  BY <1>3 DEF LapInv, LapTypeOK, LapsChain, SectorsPartitionLap
<1>14. lap_start' \in TimeIfAny /\ next_sector' \in 0..N  BY <1>3, <1>4, <1>5 DEF TimeIfAny
<1> QED  BY <1>3, <1>6, <1>9, <1>11, <1>12, <1>13, <1>14, HandledStep

(* An ignored crossing changes nothing but what is pending. *)
LEMMA IgnoreSectorStep ==
  ASSUME LapInv, NEW e \in events, IgnoreSector(e)
  PROVE  LapInv'
<1>1. Handle(e) /\ UNCHANGED <<lap_start, sector_crossings, next_sector, laps>>  BY DEF IgnoreSector
<1>2. after' = after  BY <1>1 DEF Handle
<1>3. NotBefore(after)'  BY <1>1, <1>2 DEF LapInv, NotBefore
<1>4. ASSUME NEW o \in events' PROVE NotBefore(InterpolateTime(o.fraction))'
  <2>1. o \in events /\ InterpolateTime(o.fraction)' = InterpolateTime(o.fraction)
    BY <1>1, HandleFacts
  <2>2. PICK u : u = InterpolateTime(o.fraction) /\ NotBefore(u)  BY <2>1 DEF LapInv
  <2> QED  BY <1>1, <2>1, <2>2 DEF NotBefore
<1>5. RunningLap' /\ LapsChain' /\ SectorsPartitionLap'
  BY <1>1 DEF LapInv, RunningLap, LapsChain, SectorsPartitionLap
<1> QED  BY <1>1, <1>3, <1>4, <1>5, HandledStep DEF LapInv, LapTypeOK

(* Every step keeps LapInv. *)
LEMMA LapGoesOn == LapInv /\ [LapNext]_detector => LapInv'
<1> SUFFICES ASSUME LapInv, [LapNext]_detector PROVE LapInv'  OBVIOUS
<1>1. ASSUME NEW step \in 1..MaxStep, NEW new_side \in [Gate -> Sides], NextPair(step, new_side)
      PROVE  LapInv'
  BY <1>1, NextPairStep
<1>2. ASSUME NEW e \in events, HandleEvent(e) PROVE LapInv'
  BY <1>2, FirstLineCrossingStep, CompleteLapStep, RestartLapStep, CrossSectorStep,
     IgnoreSectorStep
     DEF HandleEvent
<1>3. CASE UNCHANGED detector
  <2>1. \A f : InterpolateTime(f)' = InterpolateTime(f)  BY <1>3 DEF detector, InterpolateTime
  <2>2. \A e \in events' : NotBefore(InterpolateTime(e.fraction))'
    <3> TAKE e \in events'
    <3>1. PICK u : u = InterpolateTime(e.fraction) /\ NotBefore(u)  BY <1>3 DEF detector, LapInv
    <3> QED  BY <1>3, <2>1, <3>1 DEF detector, NotBefore
  <2>3. (LapTypeOK /\ before <= after /\ RunningLap /\ NotBefore(after))'
    BY <1>3 DEF detector, LapInv, LapTypeOK, RunningLap, NotBefore
  <2>4. (LapsChain /\ SectorsPartitionLap)'
    BY <1>3 DEF detector, LapInv, LapsChain, SectorsPartitionLap
  <2> QED  BY <2>2, <2>3, <2>4 DEF LapInv
<1> QED  BY <1>1, <1>2, <1>3 DEF LapNext

(* Every step of the pass keeps the running lap ordered and the finished   *)
(* laps chained and partitioned.                                           *)
THEOREM LapInvariant == LapSpec => []LapInv
<1> QED  BY LapBegins, LapGoesOn, PTL DEF LapSpec

-----------------------------------------------------------------------------
(* The detector's state keeps its types; `next_sector` never passes the    *)
(* number of sectors, so it indexes sector_crossings (analysis.rs:317-320).*)
THEOREM LapTypeCorrect == LapSpec => []LapTypeOK
<1>1. LapInv => LapTypeOK  BY DEF LapInv
<1> QED  BY <1>1, LapInvariant, PTL

(* Laps follow each other without a gap and none takes zero time or less.  *)
THEOREM LapsFollowEachOther == LapSpec => []LapsChain
<1>1. LapInv => LapsChain  BY DEF LapInv
<1> QED  BY <1>1, LapInvariant, PTL

(* Sector times are in order, non-negative, and fit in their lap.          *)
THEOREM SectorsAreOrdered == LapSpec => []SectorsPartitionLap
<1>1. LapInv => SectorsPartitionLap  BY DEF LapInv
<1> QED  BY <1>1, LapInvariant, PTL

-----------------------------------------------------------------------------
(***************************************************************************)
(* The laps and the crossings handled.  What the property reads of them is *)
(* a function of the trace, so that two traces can be compared.            *)
(***************************************************************************)
LineCrossingsOf(trace) == {k \in DOMAIN trace : trace[k].gate = 0}

BoundsOf(trace) ==
  {b \in LineCrossingsOf(trace) \X LineCrossingsOf(trace) :
     /\ b[1] < b[2] /\ trace[b[1]].time < trace[b[2]].time
     /\ \A k \in LineCrossingsOf(trace) : ~(b[1] < k /\ k < b[2])}

\* The crossings of sector s behind the i-th crossing and before the q-th.
Later(trace, i, q, s) == {k \in (i + 1)..(q - 1) : trace[k].gate = s}

NextIn(trace, i, q, s) ==
  IF i = 0 \/ Later(trace, i, q, s) = {} THEN 0 ELSE Min(Later(trace, i, q, s))

\* f holds the crossing of each of the first m sectors.
CrossedTo(trace, p, q, f, m) ==
  f = [s \in 0..m |-> IF s = 0 THEN p ELSE NextIn(trace, f[s - 1], q, s)]

CrossedIn(trace, p, q) ==
  LET at[s \in Gate] ==
        IF s = 0 THEN p
        ELSE LET later == {k \in (at[s - 1] + 1)..(q - 1) : trace[k].gate = s}
             IN  IF at[s - 1] = 0 \/ later = {} THEN 0 ELSE Min(later)
  IN  at

(* One sector further.                                                     *)
LEMMA CrossedExtends ==
  ASSUME NEW trace, NEW p, NEW q, NEW n \in Nat, NEW f, CrossedTo(trace, p, q, f, n)
  PROVE  \E g : CrossedTo(trace, p, q, g, n + 1)
<1> DEFINE last == NextIn(trace, f[n], q, n + 1)
           g == [s \in 0..(n + 1) |-> IF s <= n THEN f[s] ELSE last]
           h == [s \in 0..(n + 1) |-> IF s = 0 THEN p ELSE NextIn(trace, g[s - 1], q, s)]
<1>1. \A s \in 0..n : f[s] = IF s = 0 THEN p ELSE NextIn(trace, f[s - 1], q, s)
  BY DEF CrossedTo
<1>2. \A s \in 0..(n + 1) : g[s] = h[s]
  <2> TAKE s \in 0..(n + 1)
  <2>1. CASE s = 0
    BY <1>1, <2>1
  <2>2. CASE s # 0 /\ s <= n
    <3>1. s - 1 \in 0..(n + 1) /\ s - 1 <= n /\ s \in 0..n
      BY <2>2
    <3>2. g[s - 1] = f[s - 1] /\ g[s] = f[s]
      BY <2>2, <3>1
    <3>3. h[s] = NextIn(trace, g[s - 1], q, s)
      <4> HIDE DEF g
      <4> QED
        BY <2>2
    <3> QED
      BY <1>1, <2>2, <3>1, <3>2, <3>3
  <2>3. CASE s # 0 /\ ~(s <= n)
    <3>1. s = n + 1 /\ n \in 0..(n + 1) /\ s - 1 = n /\ n <= n /\ ~(n + 1 <= n)
      BY <2>3
    <3>2. g[n] = f[n] /\ g[s] = last
      BY <3>1
    <3>3. h[s] = NextIn(trace, g[n], q, n + 1)
      <4> HIDE DEF g
      <4> QED
        BY <2>3, <3>1
    <3> QED
      BY <3>2, <3>3
  <2> QED
    BY <2>1, <2>2, <2>3
<1>3. g = h
  <2>1. g = [s \in 0..(n + 1) |-> g[s]] /\ h = [s \in 0..(n + 1) |-> h[s]]
    OBVIOUS
  <2> HIDE DEF g, h
  <2> QED
    BY <1>2, <2>1
<1> QED
  BY <1>3 DEF CrossedTo

(* The first n sectors of a stretch of crossings can be filled in for every n. *)
LEMMA CrossedExists ==
  ASSUME NEW trace, NEW p, NEW q, NEW n \in Nat
  PROVE  \E f : CrossedTo(trace, p, q, f, n)
<1> DEFINE S == {k \in Nat : \E f : CrossedTo(trace, p, q, f, k)}
<1>1. 0 \in S
  <2>1. CrossedTo(trace, p, q, [s \in 0..0 |-> p], 0)
    BY DEF CrossedTo
  <2> QED
    BY <2>1
<1>2. \A k \in S : k + 1 \in S
  BY CrossedExtends
<1>3. n \in S
  <2>1. S \in SUBSET Nat
    OBVIOUS
  <2> HIDE DEF S
  <2> QED
    BY <1>1, <1>2, <2>1, InductionOverNat
<1> QED
  BY <1>3

(* CrossedIn, defined by CHOOSE, satisfies its own definition. *)
LEMMA CrossedInIs ==
  ASSUME NEW trace, NEW p, NEW q
  PROVE  CrossedTo(trace, p, q, CrossedIn(trace, p, q), N)
<1> DEFINE F == CHOOSE at : at = [s \in Gate |->
        IF s = 0 THEN p
        ELSE LET later == {k \in (at[s - 1] + 1)..(q - 1) : trace[k].gate = s}
             IN  IF at[s - 1] = 0 \/ later = {} THEN 0 ELSE Min(later)]
<1>1. \E at : at = [s \in Gate |->
        IF s = 0 THEN p
        ELSE LET later == {k \in (at[s - 1] + 1)..(q - 1) : trace[k].gate = s}
             IN  IF at[s - 1] = 0 \/ later = {} THEN 0 ELSE Min(later)]
  <2>1. PICK f : CrossedTo(trace, p, q, f, N)
    BY CrossedExists, LapAssumption
  <2>2. f = [s \in Gate |->
        IF s = 0 THEN p
        ELSE LET later == {k \in (f[s - 1] + 1)..(q - 1) : trace[k].gate = s}
             IN  IF f[s - 1] = 0 \/ later = {} THEN 0 ELSE Min(later)]
    BY <2>1, Zenon DEF CrossedTo, NextIn, Later, Gate
  <2> QED
    BY <2>2, Zenon
<1>2. F = [s \in Gate |->
        IF s = 0 THEN p
        ELSE LET later == {k \in (F[s - 1] + 1)..(q - 1) : trace[k].gate = s}
             IN  IF F[s - 1] = 0 \/ later = {} THEN 0 ELSE Min(later)]
  BY <1>1, Zenon
<1>3. CrossedIn(trace, p, q) = F
  BY Zenon DEF CrossedIn
<1> HIDE DEF F
<1> QED
  BY <1>2, <1>3 DEF CrossedTo, NextIn, Later, Gate

(* Only one function satisfies it. *)
LEMMA CrossedUnique ==
  ASSUME NEW trace, NEW p, NEW q, NEW n \in Nat, NEW f, NEW g,
         CrossedTo(trace, p, q, f, n), CrossedTo(trace, p, q, g, n)
  PROVE  f = g
<1> DEFINE S == {k \in Nat : k \in 0..n => f[k] = g[k]}
<1>1. \A s \in 0..n : /\ f[s] = IF s = 0 THEN p ELSE NextIn(trace, f[s - 1], q, s)
                      /\ g[s] = IF s = 0 THEN p ELSE NextIn(trace, g[s - 1], q, s)
  BY DEF CrossedTo
<1>2. 0 \in S
  BY <1>1
<1>3. \A k \in S : k + 1 \in S
  <2> SUFFICES ASSUME NEW k \in S, k + 1 \in 0..n PROVE f[k + 1] = g[k + 1]
    OBVIOUS
  <2>1. k \in Nat /\ k \in 0..n /\ k + 1 # 0 /\ (k + 1) - 1 = k
    OBVIOUS
  <2>2. f[k] = g[k]
    BY <2>1
  <2> QED
    BY <1>1, <2>1, <2>2
<1>4. \A k \in Nat : k \in S
  <2>1. S \in SUBSET Nat
    OBVIOUS
  <2> HIDE DEF S
  <2> QED
    BY <1>2, <1>3, <2>1, InductionOverNat
<1>5. \A k \in 0..n : f[k] = g[k]
  BY <1>4
<1>6. f = [s \in 0..n |-> f[s]] /\ g = [s \in 0..n |-> g[s]]
  BY DEF CrossedTo
<1> QED
  BY <1>5, <1>6

(* The crossings found lie before the q-th.                                *)
LEMMA NextInRange ==
  ASSUME NEW trace, NEW q \in Nat \ {0}, NEW i \in 0..(q - 1), NEW s
  PROVE  /\ NextIn(trace, i, q, s) \in 0..(q - 1)
         /\ NextIn(trace, i, q, s) # 0 => i # 0 /\ i < NextIn(trace, i, q, s)
<1>1. CASE i = 0 \/ Later(trace, i, q, s) = {}
  BY <1>1 DEF NextIn
<1>2. CASE i # 0 /\ Later(trace, i, q, s) # {}
  <2>1. Later(trace, i, q, s) \in SUBSET Nat
    BY DEF Later
  <2>2. Min(Later(trace, i, q, s)) \in Later(trace, i, q, s)
    BY <1>2, <2>1, MinOfNat
  <2>3. NextIn(trace, i, q, s) = Min(Later(trace, i, q, s))
    BY <1>2 DEF NextIn
  <2>4. PICK m : m = Min(Later(trace, i, q, s))
    OBVIOUS
  <2>5. m \in (i + 1)..(q - 1)
    BY <2>2, <2>4 DEF Later
  <2> QED
    BY <1>2, <2>3, <2>4, <2>5
<1> QED
  BY <1>1, <1>2

(* A sector is crossed inside the stretch, or not at all. *)
LEMMA CrossedRange ==
  ASSUME NEW trace, NEW q \in Nat \ {0}, NEW p \in 0..(q - 1), NEW n \in Nat, NEW f,
         CrossedTo(trace, p, q, f, n)
  PROVE  \A s \in 0..n : f[s] \in 0..(q - 1)
<1> DEFINE S == {k \in Nat : k \in 0..n => f[k] \in 0..(q - 1)}
<1>1. \A s \in 0..n : f[s] = IF s = 0 THEN p ELSE NextIn(trace, f[s - 1], q, s)
  BY DEF CrossedTo
<1>2. 0 \in S
  BY <1>1
<1>3. \A k \in S : k + 1 \in S
  <2> SUFFICES ASSUME NEW k \in S, k + 1 \in 0..n PROVE f[k + 1] \in 0..(q - 1)
    OBVIOUS
  <2>1. k \in Nat /\ k \in 0..n /\ k + 1 # 0 /\ (k + 1) - 1 = k
    OBVIOUS
  <2>2. f[k] \in 0..(q - 1)
    BY <2>1
  <2> QED
    BY <1>1, <2>1, <2>2, NextInRange
<1>4. \A k \in Nat : k \in S
  <2>1. S \in SUBSET Nat
    OBVIOUS
  <2> HIDE DEF S
  <2> QED
    BY <1>2, <1>3, <2>1, InductionOverNat
<1> QED
  BY <1>4

\* longer is the trace with one more crossing.
OneLonger(longer, trace, n, x) ==
  /\ DOMAIN trace = 1..n /\ DOMAIN longer = 1..(n + 1)
  /\ \A k \in 1..n : longer[k] = trace[k]
  /\ longer[n + 1] = x

(* A crossing more changes nothing up to the crossings before it.          *)
LEMMA CrossedKept ==
  ASSUME NEW trace, NEW longer, NEW x, NEW n \in Nat, OneLonger(longer, trace, n, x),
         NEW q \in 1..(n + 1), NEW p \in 0..(q - 1)
  PROVE  CrossedIn(longer, p, q) = CrossedIn(trace, p, q)
<1> DEFINE f == CrossedIn(trace, p, q)
<1>1. CrossedTo(trace, p, q, f, N) /\ N \in Nat /\ q \in Nat \ {0}
  BY CrossedInIs, LapAssumption
<1> HIDE DEF f
<1>2. \A s \in 0..N : f[s] \in 0..(q - 1)
  BY <1>1, CrossedRange
<1>3. ASSUME NEW i \in 0..(q - 1), NEW s PROVE NextIn(longer, i, q, s) = NextIn(trace, i, q, s)
  <2>1. \A k \in (i + 1)..(q - 1) : k \in 1..n
    OBVIOUS
  <2>2. Later(longer, i, q, s) = Later(trace, i, q, s)
    BY <2>1 DEF Later, OneLonger
  <2> QED
    BY <2>2 DEF NextIn
<1>4. \A s \in 0..N : s # 0 => NextIn(longer, f[s - 1], q, s) = NextIn(trace, f[s - 1], q, s)
  <2> SUFFICES ASSUME NEW s \in 0..N, s # 0
               PROVE  NextIn(longer, f[s - 1], q, s) = NextIn(trace, f[s - 1], q, s)
    OBVIOUS
  <2>1. s - 1 \in 0..N
    BY <1>1
  <2> QED
    BY <1>2, <1>3, <2>1
<1>5. CrossedTo(longer, p, q, f, N)
  <2>1. f = [s \in 0..N |-> IF s = 0 THEN p ELSE NextIn(trace, f[s - 1], q, s)]
    BY <1>1 DEF CrossedTo
  <2>2. \A s \in 0..N : (IF s = 0 THEN p ELSE NextIn(trace, f[s - 1], q, s))
                         = IF s = 0 THEN p ELSE NextIn(longer, f[s - 1], q, s)
    BY <1>4
  <2> QED
    BY <2>1, <2>2 DEF CrossedTo
<1>6. CrossedTo(longer, p, q, CrossedIn(longer, p, q), N)
  BY CrossedInIs
<1> QED
  BY <1>1, <1>5, <1>6, CrossedUnique DEF f

(* Within a lap it is the crossing of the first sector not crossed yet, if *)
(* it crosses that one's gate.                                             *)
LEMMA CrossedGrows ==
  ASSUME NEW trace, NEW longer, NEW x, NEW n \in Nat, OneLonger(longer, trace, n, x),
         NEW p \in 1..n, NEW f, f = CrossedIn(trace, p, n + 1)
  PROVE  /\ f \in [Gate -> 0..n] /\ f[0] = p
         /\ \A s \in Sector : CrossedIn(longer, p, n + 2)[s] =
              IF f[s] # 0 THEN f[s] ELSE IF s = x.gate /\ f[s - 1] # 0 THEN n + 1 ELSE 0
<1> DEFINE h == [s \in 0..N |-> IF f[s] # 0 THEN f[s]
                                ELSE IF s = x.gate /\ s # 0 /\ f[s - 1] # 0 THEN n + 1 ELSE 0]
<1>1. CrossedTo(trace, p, n + 1, f, N) /\ N \in Nat
  BY CrossedInIs, LapAssumption
<1>2. \A s \in 0..N : f[s] \in 0..n
  <2>1. n + 1 \in Nat \ {0} /\ p \in 0..((n + 1) - 1) /\ (n + 1) - 1 = n
    OBVIOUS
  <2> QED
    BY <1>1, <2>1, CrossedRange
<1>3. \A s \in 0..N : f[s] = IF s = 0 THEN p ELSE NextIn(trace, f[s - 1], n + 1, s)
  BY <1>1 DEF CrossedTo
<1>4. f[0] = p /\ p # 0
  BY <1>1, <1>3
<1>5. ASSUME NEW i \in 1..n, NEW s
      PROVE  /\ NextIn(trace, i, n + 1, s) # 0 =>
                  NextIn(longer, i, n + 2, s) = NextIn(trace, i, n + 1, s)
             /\ NextIn(trace, i, n + 1, s) = 0 =>
                  NextIn(longer, i, n + 2, s) = IF s = x.gate THEN n + 1 ELSE 0
  <2> DEFINE L == Later(trace, i, n + 1, s)
             M == Later(longer, i, n + 2, s)
  <2>1. L = {k \in (i + 1)..n : trace[k].gate = s}
    BY DEF Later
  <2>2. M = {k \in (i + 1)..(n + 1) : longer[k].gate = s}
    BY DEF Later
  <2>3. M = L \cup IF s = x.gate THEN {n + 1} ELSE {}
    <3>1. (i + 1)..(n + 1) = ((i + 1)..n) \cup {n + 1}
      OBVIOUS
    <3>2. \A k \in (i + 1)..n : k \in 1..n /\ k # n + 1
      OBVIOUS
    <3> HIDE DEF L, M
    <3> QED
      BY <2>1, <2>2, <3>1, <3>2 DEF OneLonger
  <2>4. L \in SUBSET Nat /\ \A k \in L : k < n + 1 /\ k # 0
    BY <2>1
  <2>5. /\ NextIn(trace, i, n + 1, s) = IF L = {} THEN 0 ELSE Min(L)
        /\ NextIn(longer, i, n + 2, s) = IF M = {} THEN 0 ELSE Min(M)
    BY DEF NextIn
  <2> HIDE DEF L, M
  <2>6. L # {} => Min(L) # 0
    BY <2>4, MinOfNat
  <2>7. CASE s = x.gate
    <3>1. M = L \cup {n + 1} /\ Min(L \cup {n + 1}) = IF L = {} THEN n + 1 ELSE Min(L)
      BY <2>3, <2>4, <2>7, MinGrows
    <3> QED
      BY <2>5, <2>6, <2>7, <3>1
  <2>8. CASE s # x.gate
    BY <2>3, <2>5, <2>6, <2>8
  <2> QED
    BY <2>7, <2>8
<1>6. \A s : NextIn(longer, 0, n + 2, s) = 0 /\ NextIn(longer, n + 1, n + 2, s) = 0
  BY DEF NextIn, Later
<1>7. ASSUME NEW s \in 0..N
      PROVE  h[s] = IF s = 0 THEN p ELSE NextIn(longer, h[s - 1], n + 2, s)
  <2>1. CASE s = 0
    BY <1>4, <2>1
  <2>2. CASE s # 0
    <3>0. s - 1 \in 0..N
      BY <1>1, <2>2
    <3>1. s - 1 \in 0..N /\ f[s - 1] \in 0..n /\ f[s] = NextIn(trace, f[s - 1], n + 1, s)
      BY <1>2, <1>3, <2>2, <3>0
    <3>2. PICK i : i = f[s - 1]
      OBVIOUS
    <3>3. h[s] = IF f[s] # 0 THEN f[s] ELSE IF s = x.gate /\ i # 0 THEN n + 1 ELSE 0
      BY <2>2, <3>2
    <3>4. CASE i # 0
      <4>1. h[s - 1] = i /\ i \in 1..n
        BY <3>1, <3>2, <3>4
      <4> HIDE DEF h
      <4> QED
        BY <1>5, <2>2, <3>1, <3>2, <3>3, <3>4, <4>1
    <3>5. CASE i = 0
      <4>1. f[s] = 0
        BY <3>1, <3>2, <3>5 DEF NextIn
      <4>2. h[s - 1] \in {0, n + 1}
        BY <3>1, <3>2, <3>5
      <4> HIDE DEF h
      <4> QED
        BY <1>6, <2>2, <3>3, <3>5, <4>1, <4>2
    <3> QED
      BY <3>4, <3>5
  <2> QED
    BY <2>1, <2>2
<1>8. CrossedTo(longer, p, n + 2, h, N)
  <2>1. h = [s \in 0..N |-> h[s]]
    OBVIOUS
  <2> HIDE DEF h
  <2> QED
    BY <1>7, <2>1 DEF CrossedTo
<1>9. CrossedTo(longer, p, n + 2, CrossedIn(longer, p, n + 2), N)
  BY CrossedInIs
<1>10. CrossedIn(longer, p, n + 2) = h
  <2> HIDE DEF h
  <2> QED
    BY <1>1, <1>8, <1>9, CrossedUnique
<1>11. f \in [Gate -> 0..n]
  <2>1. f = [s \in 0..N |-> IF s = 0 THEN p ELSE NextIn(trace, f[s - 1], n + 1, s)]
    BY <1>1 DEF CrossedTo
  <2> QED
    BY <1>2, <2>1 DEF Gate
<1> QED
  BY <1>1, <1>4, <1>10, <1>11 DEF Sector

(* A lap that begins has crossed no sector.                                *)
LEMMA NothingCrossed ==
  ASSUME NEW trace, NEW n \in Nat
  PROVE  \A s \in Sector : CrossedIn(trace, n + 1, n + 2)[s] = 0
<1> DEFINE f == CrossedIn(trace, n + 1, n + 2)
<1>1. CrossedTo(trace, n + 1, n + 2, f, N) /\ N \in Nat
  BY CrossedInIs, LapAssumption
<1> HIDE DEF f
<1>2. \A s \in 0..N : f[s] = IF s = 0 THEN n + 1 ELSE NextIn(trace, f[s - 1], n + 2, s)
  BY <1>1 DEF CrossedTo
<1>3. \A s : NextIn(trace, 0, n + 2, s) = 0 /\ NextIn(trace, n + 1, n + 2, s) = 0
  BY DEF NextIn, Later
<1> DEFINE S == {k \in Nat : k \in 0..N => f[k] \in {0, n + 1} /\ (k # 0 => f[k] = 0)}
<1>4. 0 \in S
  BY <1>1, <1>2
<1>5. \A k \in S : k + 1 \in S
  <2> SUFFICES ASSUME NEW k \in S, k + 1 \in 0..N PROVE f[k + 1] = 0
    OBVIOUS
  <2>1. k \in Nat /\ k \in 0..N /\ k + 1 # 0 /\ (k + 1) - 1 = k
    BY <1>1
  <2>2. f[k] \in {0, n + 1}
    BY <2>1
  <2> QED
    BY <1>2, <1>3, <2>1, <2>2
<1>6. \A k \in Nat : k \in S
  <2>1. S \in SUBSET Nat
    OBVIOUS
  <2> HIDE DEF S
  <2> QED
    BY <1>4, <1>5, <2>1, InductionOverNat
<1>7. \A s \in Sector : s \in Nat /\ s \in 0..N /\ s # 0
  BY <1>1 DEF Sector
<1> QED
  BY <1>6, <1>7 DEF f

-----------------------------------------------------------------------------
(* A sector's gate changes nothing about the line's crossings.             *)
LEMMA SectorKeepsBounds ==
  ASSUME NEW trace, NEW longer, NEW x, NEW n \in Nat, OneLonger(longer, trace, n, x), x.gate # 0
  PROVE  /\ LineCrossingsOf(longer) = LineCrossingsOf(trace)
         /\ BoundsOf(longer) = BoundsOf(trace)
<1>1. n + 1 \notin 1..n /\ 1..(n + 1) = (1..n) \cup {n + 1}
  OBVIOUS
<1>2. LineCrossingsOf(longer) = LineCrossingsOf(trace)
  BY <1>1 DEF LineCrossingsOf, OneLonger
<1>3. \A k \in LineCrossingsOf(trace) : longer[k] = trace[k]
  BY DEF LineCrossingsOf, OneLonger
<1>4. BoundsOf(longer) = BoundsOf(trace)
  BY <1>2, <1>3 DEF BoundsOf
<1> QED
  BY <1>2, <1>4

\* The last crossing of the line.
LastLine(trace, p) ==
  p \in LineCrossingsOf(trace) /\ \A k \in LineCrossingsOf(trace) : k <= p

(* A crossing of the line ends an interval, which counts if it took time.  *)
LEMMA LineAddsBound ==
  ASSUME NEW trace, NEW longer, NEW x, NEW n \in Nat, OneLonger(longer, trace, n, x), x.gate = 0
  PROVE  /\ LineCrossingsOf(longer) = LineCrossingsOf(trace) \cup {n + 1}
         /\ LineCrossingsOf(trace) = {} => BoundsOf(longer) = {} /\ BoundsOf(trace) = {}
         /\ \A p : LastLine(trace, p) =>
              BoundsOf(longer) =
                BoundsOf(trace) \cup IF trace[p].time < x.time THEN {<<p, n + 1>>} ELSE {}
<1> DEFINE L == LineCrossingsOf(trace)
           M == LineCrossingsOf(longer)
<1>1. n + 1 \notin 1..n /\ 1..(n + 1) = (1..n) \cup {n + 1}
  OBVIOUS
<1>2. M = L \cup {n + 1} /\ L \subseteq 1..n
  BY <1>1 DEF LineCrossingsOf, OneLonger
<1>3. (\A k \in L : longer[k] = trace[k]) /\ longer[n + 1] = x
  BY DEF LineCrossingsOf, OneLonger
<1> HIDE DEF L, M
<1>4. /\ BoundsOf(trace) = {b \in L \X L : /\ b[1] < b[2] /\ trace[b[1]].time < trace[b[2]].time
                                           /\ \A k \in L : ~(b[1] < k /\ k < b[2])}
      /\ BoundsOf(longer) = {b \in M \X M : /\ b[1] < b[2] /\ longer[b[1]].time < longer[b[2]].time
                                            /\ \A k \in M : ~(b[1] < k /\ k < b[2])}
  BY DEF BoundsOf, L, M
<1>5. CASE L = {}
  <2>1. M = {n + 1}
    BY <1>2, <1>5
  <2>2. BoundsOf(longer) = {} /\ BoundsOf(trace) = {}
    BY <1>4, <1>5, <2>1
  <2>3. \A p : ~LastLine(trace, p)
    BY <1>5 DEF LastLine, L
  <2> QED
    BY <1>2, <2>2, <2>3 DEF L, M
<1>6. ASSUME NEW p, LastLine(trace, p)
      PROVE  BoundsOf(longer) =
               BoundsOf(trace) \cup IF trace[p].time < x.time THEN {<<p, n + 1>>} ELSE {}
  <2>1. p \in L /\ p \in Nat /\ p < n + 1 /\ \A k \in L : k \in Nat /\ k <= p /\ k < n + 1
    BY <1>2, <1>6 DEF LastLine, L
  <2>2. ASSUME NEW b \in M \X M
        PROVE  b \in BoundsOf(longer) <=>
                 \/ b \in BoundsOf(trace)
                 \/ b = <<p, n + 1>> /\ trace[p].time < x.time
    <3>1. PICK i \in M, j \in M : b = <<i, j>>
      OBVIOUS
    <3>2. b \in BoundsOf(longer) <=> /\ i < j /\ longer[i].time < longer[j].time
                                     /\ \A k \in M : ~(i < k /\ k < j)
      BY <1>4, <3>1
    <3>3. b \in BoundsOf(trace) <=> /\ i \in L /\ j \in L
                                    /\ i < j /\ trace[i].time < trace[j].time
                                    /\ \A k \in L : ~(i < k /\ k < j)
      BY <1>4, <3>1
    <3>4. CASE i \in L /\ j \in L
      <4>1. j < n + 1 /\ j # n + 1 /\ j \in Nat /\ n + 1 \in Nat
        BY <2>1, <3>4
      <4>2. ~(i < n + 1 /\ n + 1 < j)
        BY <4>1
      <4> QED
        BY <1>2, <1>3, <3>1, <3>2, <3>3, <3>4, <4>1, <4>2
    <3>5. CASE i \in L /\ j = n + 1
      <4>1. j \notin L
        BY <2>1, <3>5
      <4>2. i \in Nat /\ i <= p /\ i < j /\ p < j
        BY <2>1, <3>5
      <4>3. CASE i = p
        <5>1. \A k \in M : ~(i < k /\ k < j)
          <6> SUFFICES ASSUME NEW k \in M, i < k, k < j PROVE FALSE
            OBVIOUS
          <6>1. k \in L \/ k = n + 1
            BY <1>2
          <6> QED
            BY <2>1, <3>5, <4>3, <6>1
        <5> QED
          BY <1>3, <3>1, <3>2, <3>3, <3>5, <4>1, <4>2, <4>3, <5>1
      <4>4. CASE i # p
        <5>1. i < p /\ p < j /\ p \in M
          BY <1>2, <2>1, <4>2, <4>4
        <5> QED
          BY <3>1, <3>2, <3>3, <4>1, <4>4, <5>1
      <4> QED
        BY <4>3, <4>4
    <3>6. CASE i = n + 1
      <4>1. ~(i < j) /\ i \notin L /\ i # p
        BY <1>2, <2>1, <3>6
      <4> QED
        BY <3>1, <3>2, <3>3, <4>1
    <3> QED
      BY <1>2, <3>4, <3>5, <3>6
  <2>3. BoundsOf(longer) \subseteq M \X M /\ BoundsOf(trace) \subseteq M \X M /\ <<p, n + 1>> \in M \X M
    BY <1>2, <1>4, <2>1
  <2> QED
    BY <2>2, <2>3
<1> QED
  BY <1>2, <1>5, <1>6 DEF L, M

(* The intervals are finitely many, and each is numbered by those that end *)
(* no later.                                                               *)
LEMMA BoundsAreFinite ==
  ASSUME NEW trace, NEW n \in Nat, DOMAIN trace = 1..n
  PROVE  /\ IsFiniteSet(BoundsOf(trace))
         /\ Cardinality(BoundsOf(trace)) \in Nat
         /\ \A b \in BoundsOf(trace) :
              /\ b[1] \in 1..n /\ b[2] \in 1..n /\ b[1] < b[2]
              /\ Cardinality({c \in BoundsOf(trace) : c[2] <= b[2]}) \in 1..Cardinality(BoundsOf(trace))
<1> DEFINE B == BoundsOf(trace)
<1>1. B \subseteq (1..n) \X (1..n)
  BY DEF BoundsOf, LineCrossingsOf
<1>2. \A b \in B : b[1] \in 1..n /\ b[2] \in 1..n /\ b[1] < b[2]
  BY <1>1 DEF BoundsOf
<1> HIDE DEF B
<1>3. IsFiniteSet((1..n) \X (1..n))
  <2>1. 1 \in Int /\ n \in Int
    OBVIOUS
  <2>2. IsFiniteSet(1..n)
    BY <2>1, FS_Interval
  <2> QED
    BY <2>2, FS_Product
<1>4. IsFiniteSet(B) /\ Cardinality(B) \in Nat
  BY <1>1, <1>3, FS_Subset, FS_CardinalityType
<1>5. ASSUME NEW b \in B PROVE Cardinality({c \in B : c[2] <= b[2]}) \in 1..Cardinality(B)
  <2> DEFINE C == {c \in B : c[2] <= b[2]}
  <2>1. b \in C
    <3>1. b[2] <= b[2]
      BY <1>2
    <3> QED
      BY <3>1
  <2>2. C \subseteq B
    OBVIOUS
  <2> HIDE DEF C
  <2>3. IsFiniteSet(C) /\ Cardinality(C) \in Nat /\ Cardinality(C) <= Cardinality(B)
    BY <1>4, <2>2, FS_Subset, FS_CardinalityType
  <2>4. Cardinality(C) # 0
    BY <2>1, <2>3, FS_EmptySet
  <2> QED
    BY <1>4, <2>3, <2>4 DEF C
<1> QED
  BY <1>2, <1>4, <1>5 DEF B

-----------------------------------------------------------------------------
NumberOf(trace, b) == Cardinality({c \in BoundsOf(trace) : c[2] <= b[2]})

ElapsedAt(trace, i, start) == IF i = 0 THEN NoTime ELSE trace[i].time - start

\* The lap between two crossings of the line.
IsLapOf(trace, b, lap) ==
  /\ lap.started = trace[b[1]].time
  /\ lap.finished = trace[b[2]].time
  /\ \A s \in Sector :
       lap.sectors[s].elapsed = ElapsedAt(trace, CrossedIn(trace, b[1], b[2])[s], lap.started)

LapsAreThoseOf(trace, list) ==
  /\ Len(list) = Cardinality(BoundsOf(trace))
  /\ \A b \in BoundsOf(trace) : IsLapOf(trace, b, list[NumberOf(trace, b)])

\* A running lap holds the crossings behind the last one of the line, which
\* are those of the first `next` sectors.
RunningIsThatOf(trace, n, start, crossings, next) ==
  /\ start = NoTime <=> LineCrossingsOf(trace) = {}
  /\ \A p : LastLine(trace, p) =>
       /\ start = trace[p].time
       /\ \A s \in Sector :
            /\ s <= next => /\ CrossedIn(trace, p, n + 1)[s] # 0
                            /\ crossings[s] = trace[CrossedIn(trace, p, n + 1)[s]].time
            /\ s > next => CrossedIn(trace, p, n + 1)[s] = 0

(* A lap stays the one between its crossings of the line.                  *)
LEMMA LapStays ==
  ASSUME NEW trace, NEW longer, NEW x, NEW n \in Nat, OneLonger(longer, trace, n, x),
         NEW b \in BoundsOf(trace), NEW lap, IsLapOf(trace, b, lap)
  PROVE  IsLapOf(longer, b, lap)
<1>1. b[1] \in 1..n /\ b[2] \in 1..n /\ b[1] < b[2]
  BY BoundsAreFinite DEF OneLonger
<1>2. PICK p \in 1..n, q \in 1..n : p = b[1] /\ q = b[2] /\ p < q
  BY <1>1
<1>3. q \in 1..(n + 1) /\ p \in 0..(q - 1) /\ N \in Nat
  BY <1>2, LapAssumption
<1>4. CrossedIn(longer, p, q) = CrossedIn(trace, p, q)
  BY <1>3, CrossedKept
<1>5. longer[p] = trace[p] /\ longer[q] = trace[q]
  BY DEF OneLonger
<1>6. \A s \in Sector : CrossedIn(trace, p, q)[s] \in 0..(q - 1)
  <2>1. CrossedTo(trace, p, q, CrossedIn(trace, p, q), N) /\ q \in Nat \ {0}
    BY CrossedInIs
  <2>2. \A s \in Sector : s \in 0..N
    BY <1>3 DEF Sector
  <2> QED
    BY <1>3, <2>1, <2>2, CrossedRange
<1>7. ASSUME NEW i \in 0..(q - 1), NEW start
      PROVE  ElapsedAt(longer, i, start) = ElapsedAt(trace, i, start)
  <2>1. i # 0 => i \in 1..n
    OBVIOUS
  <2> QED
    BY <2>1 DEF ElapsedAt, OneLonger
<1>8. /\ lap.started = trace[p].time /\ lap.finished = trace[q].time
      /\ \A s \in Sector :
           lap.sectors[s].elapsed = ElapsedAt(trace, CrossedIn(trace, p, q)[s], lap.started)
  BY <1>2 DEF IsLapOf
<1>9. \A s \in Sector :
           lap.sectors[s].elapsed = ElapsedAt(longer, CrossedIn(longer, p, q)[s], lap.started)
  BY <1>4, <1>6, <1>7, <1>8
<1> QED
  BY <1>2, <1>5, <1>8, <1>9 DEF IsLapOf

(* Without a new interval the laps stay the same.                          *)
LEMMA LapsStay ==
  ASSUME NEW trace, NEW longer, NEW x, NEW n \in Nat, OneLonger(longer, trace, n, x),
         BoundsOf(longer) = BoundsOf(trace), NEW list, LapsAreThoseOf(trace, list)
  PROVE  LapsAreThoseOf(longer, list)
<1>1. \A b \in BoundsOf(trace) : NumberOf(longer, b) = NumberOf(trace, b)
  BY DEF NumberOf
<1>2. \A b \in BoundsOf(trace) : IsLapOf(longer, b, list[NumberOf(trace, b)])
  BY LapStays DEF LapsAreThoseOf
<1> QED
  BY <1>1, <1>2 DEF LapsAreThoseOf

(* A new interval is the last, and its lap is appended.                    *)
LEMMA LapIsAppended ==
  ASSUME NEW trace, NEW longer, NEW x, NEW n \in Nat, OneLonger(longer, trace, n, x),
         NEW p \in 1..n, BoundsOf(longer) = BoundsOf(trace) \cup {<<p, n + 1>>},
         NEW T, NEW list \in Seq(T), NEW lap, LapsAreThoseOf(trace, list),
         IsLapOf(longer, <<p, n + 1>>, lap)
  PROVE  LapsAreThoseOf(longer, Append(list, lap))
<1> DEFINE B == BoundsOf(trace)
           new == <<p, n + 1>>
<1>1. /\ IsFiniteSet(B) /\ Cardinality(B) \in Nat
      /\ \A b \in B : b[2] \in 1..n /\ NumberOf(trace, b) \in 1..Cardinality(B)
  BY BoundsAreFinite DEF OneLonger, NumberOf
<1>2. new \notin B
  BY <1>1
<1>3. BoundsOf(longer) = B \cup {new}
  OBVIOUS
<1>4. Len(list) = Cardinality(B) /\ \A b \in B : IsLapOf(trace, b, list[NumberOf(trace, b)])
  BY DEF LapsAreThoseOf
<1>5. new[2] = n + 1
  OBVIOUS
<1> HIDE DEF B, new
<1>6. Cardinality(B \cup {new}) = Cardinality(B) + 1
  BY <1>1, <1>2, FS_AddElement
<1>7. \A b \in B : NumberOf(longer, b) = NumberOf(trace, b)
  <2> TAKE b \in B
  <2>1. ~(new[2] <= b[2])
    BY <1>1, <1>5
  <2>2. {c \in B \cup {new} : c[2] <= b[2]} = {c \in B : c[2] <= b[2]}
    BY <2>1
  <2> QED
    BY <1>3, <2>2 DEF NumberOf, B
<1>8. NumberOf(longer, new) = Cardinality(B) + 1
  <2>1. \A c \in B \cup {new} : c[2] <= new[2]
    BY <1>1, <1>5
  <2>2. {c \in B \cup {new} : c[2] <= new[2]} = B \cup {new}
    BY <2>1
  <2> QED
    BY <1>3, <1>6, <2>2 DEF NumberOf
<1>9. PICK more : more = Append(list, lap)
  OBVIOUS
<1>10. /\ Len(more) = Cardinality(B) + 1 /\ more[Cardinality(B) + 1] = lap
       /\ \A i \in 1..Cardinality(B) : more[i] = list[i]
  BY <1>1, <1>4, <1>9
<1>11. ASSUME NEW b \in B PROVE IsLapOf(longer, b, more[NumberOf(longer, b)])
  <2>1. IsLapOf(trace, b, list[NumberOf(trace, b)])
    BY <1>4
  <2>2. IsLapOf(longer, b, list[NumberOf(trace, b)])
    BY <2>1, LapStays DEF B
  <2> QED
    BY <1>1, <1>7, <1>10, <2>2
<1>12. IsLapOf(longer, new, more[NumberOf(longer, new)])
  BY <1>8, <1>10 DEF new
<1> QED
  BY <1>3, <1>6, <1>9, <1>10, <1>11, <1>12 DEF LapsAreThoseOf

(* The line opens a lap that has crossed no sector.                        *)
LEMMA LapOpens ==
  ASSUME NEW trace, NEW longer, NEW x, NEW n \in Nat, OneLonger(longer, trace, n, x),
         x.gate = 0, x.time # NoTime, NEW crossings
  PROVE  RunningIsThatOf(longer, n + 1, x.time, crossings, 0)
<1>1. LineCrossingsOf(longer) = LineCrossingsOf(trace) \cup {n + 1}
  BY LineAddsBound
<1>2. \A p : LastLine(longer, p) => p = n + 1
  <2>1. \A k \in LineCrossingsOf(trace) : k \in Nat /\ k < n + 1
    BY DEF LineCrossingsOf, OneLonger
  <2> QED
    BY <1>1, <2>1 DEF LastLine
<1>3. longer[n + 1] = x
  BY DEF OneLonger
<1>4. \A s \in Sector : CrossedIn(longer, n + 1, (n + 1) + 1)[s] = 0
  <2>1. (n + 1) + 1 = n + 2
    OBVIOUS
  <2> QED
    BY <2>1, NothingCrossed
<1>5. \A s \in Sector : ~(s <= 0)
  BY LapAssumption DEF Sector
<1> QED
  BY <1>1, <1>2, <1>3, <1>4, <1>5 DEF RunningIsThatOf

(* A sector's gate is crossed in the running lap when its turn has come.   *)
LEMMA LapRuns ==
  ASSUME NEW trace, NEW longer, NEW x, NEW n \in Nat, OneLonger(longer, trace, n, x),
         x.gate \in Sector, NEW start, NEW crossings, NEW next \in 0..N,
         RunningIsThatOf(trace, n, start, crossings, next), DOMAIN crossings = Sector,
         NEW crossings2, NEW next2,
         start # NoTime /\ x.gate - 1 = next =>
           crossings2 = [crossings EXCEPT ![x.gate] = x.time] /\ next2 = next + 1,
         ~(start # NoTime /\ x.gate - 1 = next) => crossings2 = crossings /\ next2 = next
  PROVE  RunningIsThatOf(longer, n + 1, start, crossings2, next2)
<1>1. LineCrossingsOf(longer) = LineCrossingsOf(trace) /\ N \in Nat /\ x.gate # 0
  BY SectorKeepsBounds, LapAssumption DEF Sector
<1>2. \A p : LastLine(longer, p) <=> LastLine(trace, p)
  BY <1>1 DEF LastLine
<1>3. start = NoTime <=> LineCrossingsOf(longer) = {}
  BY <1>1 DEF RunningIsThatOf
<1> DEFINE turn == start # NoTime /\ x.gate - 1 = next
<1>4. ASSUME NEW p, LastLine(trace, p)
      PROVE  /\ start = longer[p].time
             /\ \A s \in Sector :
                  /\ s <= next2 => /\ CrossedIn(longer, p, n + 2)[s] # 0
                                   /\ crossings2[s] = longer[CrossedIn(longer, p, n + 2)[s]].time
                  /\ s > next2 => CrossedIn(longer, p, n + 2)[s] = 0
  <2>1. p \in 1..n /\ longer[p] = trace[p] /\ start # NoTime
    BY <1>3, <1>1, <1>4 DEF LastLine, LineCrossingsOf, OneLonger
  <2>2. PICK f : f = CrossedIn(trace, p, n + 1)
    OBVIOUS
  <2>3. PICK g : g = CrossedIn(longer, p, n + 2)
    OBVIOUS
  <2>4. /\ f \in [Gate -> 0..n] /\ f[0] = p
        /\ \A s \in Sector : g[s] =
             IF f[s] # 0 THEN f[s] ELSE IF s = x.gate /\ f[s - 1] # 0 THEN n + 1 ELSE 0
    BY <2>1, <2>2, <2>3, CrossedGrows
  <2>5. /\ start = trace[p].time
        /\ \A s \in Sector : /\ s <= next => f[s] # 0 /\ crossings[s] = trace[f[s]].time
                             /\ s > next => f[s] = 0
    BY <1>4, <2>2 DEF RunningIsThatOf
  <2>6. ASSUME NEW s \in Sector
        PROVE  /\ s <= next2 => g[s] # 0 /\ crossings2[s] = longer[g[s]].time
               /\ s > next2 => g[s] = 0
    <3>1. s \in Nat /\ s \in 1..N /\ x.gate \in 1..N /\ s \in Gate /\ s - 1 \in Gate /\ next \in Nat
      BY <1>1 DEF Sector, Gate
    <3>2. f[s - 1] # 0 <=> s - 1 <= next
      <4>1. CASE s = 1
        BY <2>1, <2>4, <3>1, <4>1
      <4>2. CASE s # 1
        <5>1. s - 1 \in Sector
          BY <1>1, <3>1, <4>2 DEF Sector
        <5> QED
          BY <2>5, <3>1, <5>1
      <4> QED
        BY <4>1, <4>2
    <3>3. CASE s <= next
      <4>1. f[s] # 0 /\ g[s] = f[s] /\ f[s] \in 1..n
        BY <2>4, <2>5, <3>1, <3>3
      <4>2. longer[f[s]] = trace[f[s]]
        BY <4>1 DEF OneLonger
      <4>3. turn => s # x.gate
        BY <3>1, <3>3
      <4>4. crossings2[s] = crossings[s]
        BY <4>3
      <4>5. s <= next2
        BY <3>1, <3>3
      <4>6. ~(s > next2)
        BY <3>1, <4>5
      <4> HIDE DEF turn
      <4> QED
        BY <2>5, <3>3, <4>1, <4>2, <4>4, <4>6
    <3>4. CASE s > next /\ turn /\ s = x.gate
      <4>1. f[s] = 0 /\ s - 1 <= next
        BY <2>5, <3>1, <3>4
      <4>2. g[s] = n + 1 /\ n + 1 # 0
        BY <2>4, <3>2, <3>4, <4>1
      <4>3. longer[n + 1] = x
        BY DEF OneLonger
      <4>4. crossings2[s] = x.time
        BY <3>4
      <4>5. ~(s > next2)
        BY <3>1, <3>4
      <4> HIDE DEF turn
      <4> QED
        BY <4>2, <4>3, <4>4, <4>5
    <3>5. CASE s > next /\ ~(turn /\ s = x.gate)
      <4>1. f[s] = 0
        BY <2>5, <3>5
      <4>2. ~(s = x.gate /\ s - 1 <= next)
        BY <2>1, <3>1, <3>5
      <4>3. g[s] = 0
        BY <2>4, <3>2, <4>1, <4>2
      <4>4. ~(s <= next2)
        BY <3>1, <3>5
      <4> HIDE DEF turn
      <4> QED
        BY <4>3, <4>4
    <3> QED
      BY <3>1, <3>3, <3>4, <3>5
  <2> QED
    BY <2>1, <2>3, <2>5, <2>6
<1>5. RunningIsThatOf(longer, n + 1, start, crossings2, next2)
  <2>1. (n + 1) + 1 = n + 2
    OBVIOUS
  <2> QED
    BY <1>2, <1>3, <1>4, <2>1 DEF RunningIsThatOf
<1> QED
  BY <1>5

-----------------------------------------------------------------------------
(* The inductive invariant, with LapInv: the laps are those of the trace   *)
(* of crossings handled, and so is the running one.                        *)
MatchInv ==
  /\ LapsAreThoseOf(seen, laps)
  /\ RunningIsThatOf(seen, Len(seen), lap_start, sector_crossings, next_sector)

(* MatchInv holds before the first pair. *)
LEMMA MatchBegins == LapInit => MatchInv
<1> SUFFICES ASSUME LapInit PROVE MatchInv
  OBVIOUS
<1>1. seen = <<>> /\ laps = <<>> /\ lap_start = NoTime
  BY DEF LapInit
<1>2. LineCrossingsOf(<<>>) = {} /\ BoundsOf(<<>>) = {}
  BY DEF LineCrossingsOf, BoundsOf
<1>3. LapsAreThoseOf(seen, laps)
  BY <1>1, <1>2, FS_EmptySet DEF LapsAreThoseOf
<1>4. RunningIsThatOf(seen, Len(seen), lap_start, sector_crossings, next_sector)
  BY <1>1, <1>2 DEF RunningIsThatOf, LastLine
<1> QED
  BY <1>3, <1>4 DEF MatchInv

(* A handled event makes the trace one crossing longer.                    *)
LEMMA HandledTrace ==
  ASSUME LapInv, NEW e \in events, Handle(e)
  PROVE  \E n, x, longer :
           /\ n \in Nat /\ n = Len(seen) /\ longer = seen' /\ Len(longer) = n + 1
           /\ x.gate = e.gate /\ x.time = InterpolateTime(e.fraction)
           /\ OneLonger(longer, seen, n, x)
<1>1. seen \in Seq([gate : Gate, time : Int])
  BY DEF LapInv, LapTypeOK
<1>2. PICK n \in Nat : n = Len(seen)
  BY <1>1
<1>3. PICK x : x = [gate |-> e.gate, time |-> InterpolateTime(e.fraction)]
  OBVIOUS
<1>4. PICK longer : longer = Append(seen, x)
  OBVIOUS
<1>5. seen' = longer
  BY <1>3, <1>4 DEF Handle
<1>6. /\ DOMAIN seen = 1..n /\ DOMAIN longer = 1..(n + 1) /\ Len(longer) = n + 1
      /\ (\A k \in 1..n : longer[k] = seen[k]) /\ longer[n + 1] = x
  BY <1>1, <1>2, <1>4
<1>7. x.gate = e.gate /\ x.time = InterpolateTime(e.fraction)
  BY <1>3
<1> QED
  BY <1>2, <1>5, <1>6, <1>7 DEF OneLonger

(* A lap under way began at the last crossing of the line.                 *)
LEMMA LastLineExists ==
  ASSUME NEW trace, NEW n \in Nat, DOMAIN trace = 1..n, LineCrossingsOf(trace) # {}
  PROVE  \E p \in 1..n : LastLine(trace, p)
<1>1. LineCrossingsOf(trace) \in SUBSET (1..n)
  BY DEF LineCrossingsOf
<1>2. PICK p : p = Max(LineCrossingsOf(trace))
  OBVIOUS
<1>3. p \in LineCrossingsOf(trace) /\ \A k \in LineCrossingsOf(trace) : k <= p
  BY <1>1, <1>2, MaxOfInterval
<1> QED
  BY <1>1, <1>3 DEF LastLine

(* The lap that begins has no crossings behind it, in the reading as in the detector. *)
LEMMA FirstLineCrossingMatches ==
  ASSUME LapInv, MatchInv, NEW e \in events, FirstLineCrossing(e)
  PROVE  MatchInv'
<1>1. /\ Handle(e) /\ e.gate = 0 /\ lap_start = NoTime /\ laps' = laps
      /\ lap_start' = InterpolateTime(e.fraction) /\ next_sector' = 0
  BY DEF FirstLineCrossing, OpenLap
<1>2. PICK n, x, longer :
        /\ n \in Nat /\ n = Len(seen) /\ longer = seen' /\ Len(longer) = n + 1
        /\ x.gate = e.gate /\ x.time = InterpolateTime(e.fraction)
        /\ OneLonger(longer, seen, n, x)
  BY <1>1, HandledTrace
<1> n \in Nat
  BY <1>2
<1>3. x.time # NoTime
  <2>1. InterpolateTime(e.fraction) \in Nat
    BY <1>1, HandleFacts
  <2> QED
    BY <1>2, <2>1, LapAssumption
<1>4. LineCrossingsOf(seen) = {}
  BY <1>1 DEF MatchInv, RunningIsThatOf
<1>5. BoundsOf(longer) = BoundsOf(seen)
  BY <1>1, <1>2, <1>4, LineAddsBound
<1>6. LapsAreThoseOf(longer, laps)
  BY <1>2, <1>5, LapsStay DEF MatchInv
<1>7. PICK c : c = sector_crossings'
  OBVIOUS
<1>8. RunningIsThatOf(longer, n + 1, x.time, c, 0)
  BY <1>1, <1>2, <1>3, LapOpens
<1> QED
  BY <1>1, <1>2, <1>6, <1>7, <1>8 DEF MatchInv

(* A lap without duration is none in the reading either. *)
LEMMA RestartLapMatches ==
  ASSUME LapInv, MatchInv, NEW e \in events, RestartLap(e)
  PROVE  MatchInv'
<1>1. /\ Handle(e) /\ e.gate = 0 /\ lap_start # NoTime /\ laps' = laps
      /\ ~(InterpolateTime(e.fraction) > lap_start)
      /\ lap_start' = InterpolateTime(e.fraction) /\ next_sector' = 0
  BY DEF RestartLap, OpenLap
<1>2. PICK n, x, longer :
        /\ n \in Nat /\ n = Len(seen) /\ longer = seen' /\ Len(longer) = n + 1
        /\ x.gate = e.gate /\ x.time = InterpolateTime(e.fraction)
        /\ OneLonger(longer, seen, n, x)
  BY <1>1, HandledTrace
<1> n \in Nat
  BY <1>2
<1>3. x.time # NoTime /\ x.time \in Nat /\ lap_start \in Nat
  <2>1. InterpolateTime(e.fraction) \in Nat /\ NotBefore(InterpolateTime(e.fraction))
    BY <1>1, HandleFacts
  <2> QED
    BY <1>1, <1>2, <2>1, LapAssumption DEF NotBefore
<1>4. LineCrossingsOf(seen) # {} /\ DOMAIN seen = 1..n
  BY <1>1, <1>2 DEF MatchInv, RunningIsThatOf, OneLonger
<1>5. PICK p \in 1..n : LastLine(seen, p)
  BY <1>4, LastLineExists
<1>6. lap_start = seen[p].time
  BY <1>5 DEF MatchInv, RunningIsThatOf
<1>7. ~(seen[p].time < x.time)
  BY <1>1, <1>2, <1>3, <1>6
<1>8. BoundsOf(longer) = BoundsOf(seen)
  <2>1. x.gate = 0
    BY <1>1, <1>2
  <2>2. BoundsOf(longer) =
          BoundsOf(seen) \cup IF seen[p].time < x.time THEN {<<p, n + 1>>} ELSE {}
    BY <1>2, <1>5, <2>1, LineAddsBound
  <2> QED
    BY <1>7, <2>2, Zenon
<1>9. LapsAreThoseOf(longer, laps)
  BY <1>2, <1>8, LapsStay DEF MatchInv
<1>10. PICK c : c = sector_crossings'
  OBVIOUS
<1>11. RunningIsThatOf(longer, n + 1, x.time, c, 0)
  BY <1>1, <1>2, <1>3, LapOpens
<1> QED
  BY <1>1, <1>2, <1>9, <1>10, <1>11 DEF MatchInv

(* The pushed lap is the reading's lap between its last two line crossings. *)
LEMMA CompleteLapMatches ==
  ASSUME LapInv, MatchInv, NEW e \in events, CompleteLap(e)
  PROVE  MatchInv'
<1>1. /\ Handle(e) /\ e.gate = 0 /\ lap_start # NoTime
      /\ InterpolateTime(e.fraction) > lap_start
      /\ laps' = Append(laps, BuildLap(lap_start, InterpolateTime(e.fraction)))
      /\ lap_start' = InterpolateTime(e.fraction) /\ next_sector' = 0
  BY DEF CompleteLap, OpenLap
<1>2. PICK n, x, longer :
        /\ n \in Nat /\ n = Len(seen) /\ longer = seen' /\ Len(longer) = n + 1
        /\ x.gate = e.gate /\ x.time = InterpolateTime(e.fraction)
        /\ OneLonger(longer, seen, n, x)
  BY <1>1, HandledTrace
<1> n \in Nat
  BY <1>2
<1>3. x.time # NoTime /\ x.time \in Nat /\ lap_start \in Nat
  <2>1. InterpolateTime(e.fraction) \in Nat /\ NotBefore(InterpolateTime(e.fraction))
    BY <1>1, HandleFacts
  <2> QED
    BY <1>1, <1>2, <2>1, LapAssumption DEF NotBefore
<1>4. LineCrossingsOf(seen) # {} /\ DOMAIN seen = 1..n
  BY <1>1, <1>2 DEF MatchInv, RunningIsThatOf, OneLonger
<1>5. PICK p \in 1..n : LastLine(seen, p)
  BY <1>4, LastLineExists
<1>6. PICK f : f = CrossedIn(seen, p, n + 1)
  OBVIOUS
<1>7. /\ lap_start = seen[p].time
      /\ \A s \in Sector : /\ s <= next_sector => f[s] # 0 /\ sector_crossings[s] = seen[f[s]].time
                           /\ s > next_sector => f[s] = 0
  BY <1>2, <1>5, <1>6 DEF MatchInv, RunningIsThatOf
<1>8. BoundsOf(longer) = BoundsOf(seen) \cup {<<p, n + 1>>}
  BY <1>1, <1>2, <1>3, <1>5, <1>7, LineAddsBound
<1>9. PICK lap : lap = BuildLap(lap_start, x.time)
  OBVIOUS
<1>10. IsLapOf(longer, <<p, n + 1>>, lap)
  <2>1. lap.started = lap_start /\ lap.finished = x.time
    BY <1>9 DEF BuildLap
  <2>2. longer[p] = seen[p] /\ longer[n + 1] = x
    BY <1>2 DEF OneLonger
  <2>3. CrossedIn(longer, p, n + 1) = f
    <3>1. n + 1 \in 1..(n + 1) /\ p \in 0..((n + 1) - 1)
      OBVIOUS
    <3> QED
      BY <1>2, <1>6, <3>1, CrossedKept
  <2>4. f \in [Gate -> 0..n]
    BY <1>2, <1>6, CrossedGrows
  <2>5. ASSUME NEW s \in Sector
        PROVE  lap.sectors[s].elapsed = ElapsedAt(longer, f[s], lap_start)
    <3>1. s \in Gate /\ s \in Nat /\ next_sector \in Nat
      BY LapAssumption DEF Sector, Gate, LapInv, LapTypeOK
    <3>2. f[s] \in 0..n
      BY <2>4, <3>1
    <3>3. lap.sectors[s] = IF sector_crossings[s] = NoTime THEN [elapsed |-> NoTime, duration |-> NoTime]
                           ELSE [elapsed |-> sector_crossings[s] - lap_start,
                                 duration |-> sector_crossings[s] - Previous(lap_start, s)]
      BY <1>9 DEF BuildLap
    <3>4. CASE s <= next_sector
      <4>1. sector_crossings[s] \in Nat /\ sector_crossings[s] # NoTime
        BY <3>4, LapAssumption DEF LapInv, RunningLap
      <4>2. f[s] # 0 /\ f[s] \in 1..n /\ sector_crossings[s] = seen[f[s]].time
        BY <1>7, <3>2, <3>4
      <4>3. longer[f[s]] = seen[f[s]]
        BY <1>2, <4>2 DEF OneLonger
      <4>4. lap.sectors[s].elapsed = sector_crossings[s] - lap_start
        BY <3>3, <4>1
      <4> QED
        BY <4>2, <4>3, <4>4 DEF ElapsedAt
    <3>5. CASE s > next_sector
      <4>1. sector_crossings[s] = NoTime /\ f[s] = 0
        BY <1>7, <3>5 DEF LapInv, RunningLap
      <4> QED
        BY <3>3, <4>1 DEF ElapsedAt
    <3> QED
      BY <3>1, <3>4, <3>5
  <2> QED
    BY <1>7, <2>1, <2>2, <2>3, <2>5 DEF IsLapOf
<1>11. laps' = Append(laps, lap) /\ laps \in Seq(Lap)
  BY <1>1, <1>2, <1>9 DEF LapInv, LapTypeOK
<1>12. LapsAreThoseOf(longer, Append(laps, lap))
  BY <1>2, <1>8, <1>10, <1>11, LapIsAppended DEF MatchInv
<1>13. PICK c : c = sector_crossings'
  OBVIOUS
<1>14. RunningIsThatOf(longer, n + 1, x.time, c, 0)
  BY <1>1, <1>2, <1>3, LapOpens
<1> QED
  BY <1>1, <1>2, <1>11, <1>12, <1>13, <1>14 DEF MatchInv

(* A sector crossing extends the running lap exactly when the reading takes it. *)
LEMMA SectorMatches ==
  ASSUME LapInv, MatchInv, NEW e \in events, CrossSector(e) \/ IgnoreSector(e)
  PROVE  MatchInv'
<1>1. Handle(e) /\ e.gate # 0 /\ laps' = laps /\ lap_start' = lap_start
  BY DEF CrossSector, IgnoreSector
<1>2. PICK n, x, longer :
        /\ n \in Nat /\ n = Len(seen) /\ longer = seen' /\ Len(longer) = n + 1
        /\ x.gate = e.gate /\ x.time = InterpolateTime(e.fraction)
        /\ OneLonger(longer, seen, n, x)
  BY <1>1, HandledTrace
<1> n \in Nat
  BY <1>2
<1>3. x.gate \in Sector /\ next_sector \in 0..N /\ DOMAIN sector_crossings = Sector
  BY <1>1, <1>2, HandleFacts, LapAssumption DEF Gate, Sector, LapInv, LapTypeOK
<1>4. LapsAreThoseOf(longer, laps)
  BY <1>1, <1>2, SectorKeepsBounds, LapsStay DEF MatchInv
<1>5. RunningIsThatOf(seen, n, lap_start, sector_crossings, next_sector)
  BY <1>2 DEF MatchInv
<1>6. CASE CrossSector(e)
  <2>1. /\ lap_start # NoTime /\ x.gate - 1 = next_sector /\ next_sector' = next_sector + 1
        /\ sector_crossings' = [sector_crossings EXCEPT ![x.gate] = x.time]
    BY <1>2, <1>6 DEF CrossSector
  <2>2. PICK start, c, next : start = lap_start /\ c = sector_crossings /\ next = next_sector
    OBVIOUS
  <2>3. PICK c2 : c2 = [c EXCEPT ![x.gate] = x.time]
    OBVIOUS
  <2>4. /\ RunningIsThatOf(seen, n, start, c, next)
        /\ start # NoTime /\ x.gate - 1 = next /\ DOMAIN c = Sector /\ next \in 0..N
    BY <1>3, <1>5, <2>1, <2>2
  <2>6. RunningIsThatOf(longer, n + 1, start, c2, next + 1)
    BY <1>2, <1>3, <2>3, <2>4, LapRuns
  <2> QED
    BY <1>1, <1>2, <1>4, <2>1, <2>2, <2>3, <2>6 DEF MatchInv
<1>7. CASE IgnoreSector(e)
  <2>1. /\ ~(lap_start # NoTime /\ x.gate - 1 = next_sector)
        /\ next_sector' = next_sector /\ sector_crossings' = sector_crossings
    BY <1>2, <1>7 DEF IgnoreSector
  <2>2. RunningIsThatOf(longer, n + 1, lap_start, sector_crossings, next_sector)
    BY <1>2, <1>3, <1>5, <2>1, LapRuns
  <2> QED
    BY <1>1, <1>2, <1>4, <2>1, <2>2 DEF MatchInv
<1> QED
  BY <1>6, <1>7

(* Every step keeps MatchInv. *)
LEMMA MatchGoesOn == LapInv /\ MatchInv /\ [LapNext]_detector => MatchInv'
<1> SUFFICES ASSUME LapInv, MatchInv, [LapNext]_detector PROVE MatchInv'
  OBVIOUS
<1>1. CASE UNCHANGED <<lap_start, sector_crossings, next_sector, laps, seen>>
  BY <1>1 DEF MatchInv
<1>2. ASSUME NEW e \in events, HandleEvent(e) PROVE MatchInv'
  BY <1>2, FirstLineCrossingMatches, CompleteLapMatches, RestartLapMatches, SectorMatches
     DEF HandleEvent
<1> QED
  BY <1>1, <1>2 DEF LapNext, NextPair, detector

(* The laps of every trace are exactly its intervals between crossings of  *)
(* the line that are apart in time, with the first crossing of each sector *)
(* in turn, for any number of sectors and however interpolation rounds.    *)
THEOREM LapsAreThoseDriven == LapSpec => []LapsMatchCrossings
<1>1. MatchInv => LapsMatchCrossings
  <2> SUFFICES ASSUME MatchInv PROVE LapsMatchCrossings
    OBVIOUS
  <2>1. LapBounds = BoundsOf(seen)
    BY DEF LapBounds, BoundsOf, LineCrossings, CrossingsOf, LineCrossingsOf
  <2>2. \A p, q : CrossingIn(p, q) = CrossedIn(seen, p, q)
    BY Zenon DEF CrossingIn, CrossedIn
  <2>3. LapsAreThoseOf(seen, laps)
    BY DEF MatchInv
  <2> QED
    BY <2>1, <2>2, <2>3 DEF LapsAreThoseOf, IsLapOf, ElapsedAt, NumberOf, LapsMatchCrossings
<1>2. LapSpec => []MatchInv
  BY MatchBegins, MatchGoesOn, LapInvariant, PTL DEF LapSpec
<1> QED
  BY <1>1, <1>2, PTL

-----------------------------------------------------------------------------
(***************************************************************************)
(* Gates that count one way.                                               *)
(***************************************************************************)
PendingAt(g) == \E e \in events : e.gate = g

\* The vehicle is on the side a crossing of gate g leads to.
Past(g) == IF Direction[g] = "NegativeToPositive" THEN side[g] > 0 ELSE side[g] < 0

(* The inductive invariant: a crossing, handled or pending, took a pair    *)
(* from the first side, and but for the last of them a pair back.          *)
ReturnInv ==
  /\ \A e, o \in events : e.gate = o.gate => e = o
  /\ \A g \in Gate : Direction[g] # "Either" =>
       2 * (Cardinality(CrossingsOf(g)) + IF PendingAt(g) THEN 1 ELSE 0)
         <= pairs + IF Past(g) THEN 1 ELSE 0

(* The crossings of a gate can be counted. *)
LEMMA CrossingsAreCounted ==
  ASSUME NEW g, seen \in Seq([gate : Gate, time : Int])
  PROVE  IsFiniteSet(CrossingsOf(g)) /\ Cardinality(CrossingsOf(g)) \in Nat
<1>1. PICK n \in Nat : n = Len(seen)
  OBVIOUS
<1>2. 1 \in Int /\ n \in Int /\ CrossingsOf(g) \subseteq 1..n
  BY <1>1 DEF CrossingsOf
<1>3. IsFiniteSet(1..n)
  BY <1>2, FS_Interval
<1> QED
  BY <1>2, <1>3, FS_Subset, FS_CardinalityType

(* ReturnInv holds before the first pair. *)
LEMMA ReturnBegins == LapInit => ReturnInv
<1> SUFFICES ASSUME LapInit PROVE ReturnInv
  OBVIOUS
<1>1. \A g : CrossingsOf(g) = {} /\ ~PendingAt(g)
  BY DEF LapInit, CrossingsOf, PendingAt
<1>2. \A g : Cardinality(CrossingsOf(g)) = 0
  BY <1>1, FS_EmptySet
<1>3. pairs = 0 /\ events = {}
  BY DEF LapInit
<1> QED
  BY <1>1, <1>2, <1>3 DEF ReturnInv

(* A pair crosses a gate that counts one way only from the first side.     *)
LEMMA NextPairReturns ==
  ASSUME LapInv, ReturnInv, NEW step \in 1..MaxStep, NEW new_side \in [Gate -> Sides],
         NextPair(step, new_side)
  PROVE  ReturnInv'
<1>1. PICK crossed \in SUBSET {g \in Gate : MayCross(side[g], new_side[g], g)} :
        \E fraction \in [crossed -> 0..K] :
          events' = {[gate |-> g, fraction |-> fraction[g]] : g \in crossed}
  BY DEF NextPair
<1>2. PICK fraction \in [crossed -> 0..K] :
          events' = {[gate |-> g, fraction |-> fraction[g]] : g \in crossed}
  BY <1>1
<1>3. \A e, o \in events' : e.gate = o.gate => e = o
  BY <1>2
<1>4. /\ events = {} /\ pairs' = pairs + 1 /\ side' = new_side /\ seen' = seen
  BY DEF NextPair
<1>5. ASSUME NEW g \in Gate, Direction[g] # "Either"
      PROVE  2 * (Cardinality(CrossingsOf(g)) + IF PendingAt(g)' THEN 1 ELSE 0)
               <= pairs' + IF Past(g)' THEN 1 ELSE 0
  <2>1. PICK c \in Nat : c = Cardinality(CrossingsOf(g))
    BY CrossingsAreCounted DEF LapInv, LapTypeOK
  <2>2. pairs \in Nat /\ side[g] \in Side /\ new_side[g] \in Side /\ Direction[g] \in GateDirection
    BY LapAssumption DEF LapInv, LapTypeOK
  <2>3. ~PendingAt(g)
    BY <1>4 DEF PendingAt
  <2>4. 2 * c <= pairs + IF Past(g) THEN 1 ELSE 0
    BY <1>5, <2>1, <2>2, <2>3 DEF ReturnInv
  <2>5. CASE PendingAt(g)'
    <3>1. MayCross(side[g], new_side[g], g)
      BY <1>1, <1>2, <2>5 DEF PendingAt
    <3>2. ~Past(g) /\ Past(g)'
      BY <1>4, <1>5, <2>2, <3>1 DEF MayCross, MatchesDirection, Past, Side, GateDirection
    <3> QED
      BY <1>4, <2>1, <2>2, <2>4, <2>5, <3>2
  <2>6. CASE ~PendingAt(g)'
    BY <1>4, <2>1, <2>2, <2>4, <2>6
  <2> QED
    BY <2>5, <2>6
<1>6. \A g : CrossingsOf(g)' = CrossingsOf(g)
  BY <1>4 DEF CrossingsOf
<1> QED
  BY <1>3, <1>5, <1>6 DEF ReturnInv

(* A handled crossing is no longer pending.                                *)
LEMMA HandleReturns ==
  ASSUME LapInv, ReturnInv, NEW e \in events, Handle(e)
  PROVE  ReturnInv'
<1>1. PICK n, x, longer :
        /\ n \in Nat /\ n = Len(seen) /\ longer = seen' /\ Len(longer) = n + 1
        /\ x.gate = e.gate /\ x.time = InterpolateTime(e.fraction)
        /\ OneLonger(longer, seen, n, x)
  BY HandledTrace
<1> n \in Nat
  BY <1>1
<1>2. events' = events \ {e} /\ UNCHANGED <<side, pairs>>
  BY DEF Handle
<1>3. ASSUME NEW g \in Gate, Direction[g] # "Either"
      PROVE  2 * (Cardinality(CrossingsOf(g)') + IF PendingAt(g)' THEN 1 ELSE 0)
               <= pairs + IF Past(g) THEN 1 ELSE 0
  <2> pairs \in Nat
    BY LapAssumption DEF LapInv, LapTypeOK
  <2>1. IsFiniteSet(CrossingsOf(g)) /\ Cardinality(CrossingsOf(g)) \in Nat
    BY CrossingsAreCounted DEF LapInv, LapTypeOK
  <2>2. 2 * (Cardinality(CrossingsOf(g)) + IF PendingAt(g) THEN 1 ELSE 0)
          <= pairs + IF Past(g) THEN 1 ELSE 0
    BY <1>3 DEF ReturnInv
  <2>3. n + 1 \notin 1..n /\ 1..(n + 1) = (1..n) \cup {n + 1}
    OBVIOUS
  <2>4. CASE e.gate = g
    <3>1. CrossingsOf(g)' = CrossingsOf(g) \cup {n + 1} /\ n + 1 \notin CrossingsOf(g)
      BY <1>1, <2>3, <2>4 DEF CrossingsOf, OneLonger
    <3>2. Cardinality(CrossingsOf(g)') = Cardinality(CrossingsOf(g)) + 1
      BY <2>1, <3>1, FS_AddElement
    <3>3. PendingAt(g) /\ ~PendingAt(g)'
      BY <1>2, <2>4 DEF PendingAt, ReturnInv
    <3>4. PICK c \in Nat : c = Cardinality(CrossingsOf(g))
      BY <2>1
    <3>5. 2 * (c + 1) <= pairs + IF Past(g) THEN 1 ELSE 0
      BY <2>2, <3>3, <3>4
    <3>6. Cardinality(CrossingsOf(g)') + (IF PendingAt(g)' THEN 1 ELSE 0) = c + 1
      BY <3>2, <3>3, <3>4
    <3> QED
      BY <3>5, <3>6
  <2>5. CASE e.gate # g
    <3>1. CrossingsOf(g)' = CrossingsOf(g)
      BY <1>1, <2>3, <2>5 DEF CrossingsOf, OneLonger
    <3>2. PendingAt(g)' <=> PendingAt(g)
      BY <1>2, <2>5 DEF PendingAt
    <3> QED
      BY <2>2, <3>1, <3>2
  <2> QED
    BY <2>4, <2>5
<1>4. \A g : Past(g)' <=> Past(g)
  BY <1>2 DEF Past
<1> QED
  BY <1>2, <1>3, <1>4 DEF ReturnInv

(* A gate that counts one way is crossed by at most every other pair of    *)
(* samples, whatever the trace: jitter over it does not double laps.       *)
THEOREM OneWayGatesNeedReturn == LapSpec => []OneWayGateNeedsReturn
<1>1. LapInv /\ ReturnInv => OneWayGateNeedsReturn
  <2> SUFFICES ASSUME LapInv, ReturnInv, NEW g \in Gate, Direction[g] # "Either"
               PROVE  2 * Cardinality(CrossingsOf(g)) <= pairs + 1
    BY DEF OneWayGateNeedsReturn
  <2>1. PICK c \in Nat : c = Cardinality(CrossingsOf(g))
    BY CrossingsAreCounted DEF LapInv, LapTypeOK
  <2>2. 2 * (c + IF PendingAt(g) THEN 1 ELSE 0) <= pairs + IF Past(g) THEN 1 ELSE 0
    BY <2>1 DEF ReturnInv
  <2>3. pairs \in Nat
    BY LapAssumption DEF LapInv, LapTypeOK
  <2> QED
    BY <2>1, <2>2, <2>3
<1>2. LapInv /\ ReturnInv /\ [LapNext]_detector => ReturnInv'
  <2> SUFFICES ASSUME LapInv, ReturnInv, [LapNext]_detector PROVE ReturnInv'
    OBVIOUS
  <2>1. CASE UNCHANGED detector
    BY <2>1 DEF detector, ReturnInv, CrossingsOf, PendingAt, Past
  <2>2. ASSUME NEW e \in events, HandleEvent(e) PROVE ReturnInv'
    <3>1. Handle(e)
      BY <2>2 DEF HandleEvent, FirstLineCrossing, CompleteLap, RestartLap, CrossSector, IgnoreSector
    <3> QED
      BY <3>1, HandleReturns
  <2> QED
    BY <2>1, <2>2, NextPairReturns DEF LapNext
<1> QED
  BY <1>1, <1>2, ReturnBegins, LapInvariant, PTL DEF LapSpec

-----------------------------------------------------------------------------
(***************************************************************************)
(* The trailing mean.  Its history is made of prefix sums, so a window is  *)
(* a difference of two of them: the inductive invariant says that each     *)
(* prefix sum is the one before plus its sample, and that the accumulators *)
(* are differences.                                                        *)
(***************************************************************************)

Sample == Values \cup {NaN}

Shape ==
  /\ window \in Windows
  /\ status \in {"running", "InvalidSmoothingWindow", "Ok"}
  /\ sum \in Finite \cup {Infinite}
  /\ finite_count \in Int
  /\ source \in Seq(Sample)
  /\ means \in Seq([sum : Int, count : Int] \cup {NaN})
  /\ totals \in Seq(Int) /\ counts \in Seq(Nat)
  /\ Len(totals) = Len(source) /\ Len(counts) = Len(source) /\ Len(means) = Len(source)

PrefixSums ==
  \A i \in 1..Len(source) :
    /\ totals[i] = At(totals, i - 1) + Term(source[i])
    /\ counts[i] = At(counts, i - 1) + CountedIn(source[i])

CountsGrow ==
  \A i, j \in 0..Len(counts) : i <= j => At(counts, j) - At(counts, i) \in 0..(j - i)

CountIsWindow == finite_count = WindowCount(Len(source))

SumIsWindow == NoOverflow => sum = WindowSum(Len(source), window)

IInv == Shape /\ PrefixSums /\ CountsGrow /\ CountIsWindow /\ SumIsWindow /\ MeansMatchWindow

-----------------------------------------------------------------------------
(* Before its first element a prefix sum is 0.                             *)
LEMMA AtTypes ==
  ASSUME Shape, NEW i \in Int, i <= Len(source)
  PROVE  At(totals, i) \in Int /\ At(counts, i) \in Nat
<1>1. CASE i <= 0
  BY <1>1 DEF At
<1>2. CASE i > 0
  BY <1>2 DEF At, Shape
<1> QED
  BY <1>1, <1>2

(* Appending to a prefix keeps what was there.                             *)
LEMMA AtAppend ==
  ASSUME NEW S, NEW prefix \in Seq(S), NEW x \in S
  PROVE  /\ \A i \in Int : i <= Len(prefix) => At(Append(prefix, x), i) = At(prefix, i)
         /\ At(Append(prefix, x), Len(prefix) + 1) = x
BY DEF At

(* Samples contribute integers.                                            *)
LEMMA SampleTerms ==
  ASSUME NEW v \in Sample
  PROVE  Term(v) \in Int /\ CountedIn(v) \in 0..1 /\ Term(NaN) = 0 /\ CountedIn(NaN) = 0
BY SmoothingAssumption DEF Term, CountedIn, Sample

(* A sum is finite or Infinite.                                            *)
LEMMA PlusCloses ==
  ASSUME NEW total \in Finite \cup {Infinite}, NEW x \in Int
  PROVE  Plus(total, x) \in Finite \cup {Infinite}
BY DEF Plus

(* The sample that leaves is one of the series, at the window's end.       *)
LEMMA OutgoingIsSample ==
  ASSUME Shape, NEW v \in Sample
  PROVE  /\ Outgoing(v) \in Sample
         /\ Len(source) >= window => Outgoing(v) = Append(source, v)[Len(source) + 1 - window]
         /\ Len(source) < window => Outgoing(v) = NaN
<1>1. window \in Nat
  BY SmoothingAssumption DEF Shape
<1> QED
  BY <1>1 DEF Outgoing, Shape, Sample

(* Initially there is no sample and nothing to add.                        *)
LEMMA SmoothingBegins ==
  SmoothingInit => IInv
<1> SUFFICES ASSUME SmoothingInit PROVE IInv
  OBVIOUS
<1>0. window \in Nat /\ 0 \in Finite
  BY SmoothingAssumption DEF SmoothingInit, Finite
<1>1. Shape
  BY <1>0 DEF SmoothingInit, Shape
<1>2. PrefixSums /\ CountsGrow
  BY DEF SmoothingInit, PrefixSums, CountsGrow, At
<1>3. CountIsWindow /\ SumIsWindow
  BY <1>0 DEF SmoothingInit, CountIsWindow, SumIsWindow, WindowCount, WindowSum, At
<1>4. MeansMatchWindow
  BY DEF SmoothingInit, MeansMatchWindow
<1> QED
  BY <1>1, <1>2, <1>3, <1>4 DEF IInv

(* Reading a sample extends every history by one element.                  *)
LEMMA SmoothShape ==
  ASSUME IInv, NEW v \in Sample, Smooth(v)
  PROVE  /\ Shape'
         /\ Len(source') = Len(source) + 1
         /\ \A i \in 1..Len(source) : source'[i] = source[i] /\ means'[i] = means[i]
         /\ source'[Len(source) + 1] = v
         /\ \A i \in Int : i <= Len(source) =>
              At(totals', i) = At(totals, i) /\ At(counts', i) = At(counts, i)
         /\ At(totals', Len(source) + 1) = At(totals, Len(source)) + Term(v)
         /\ At(counts', Len(source) + 1) = At(counts, Len(source)) + CountedIn(v)
<1> DEFINE n == Len(source)
           x == At(totals, n) + Term(v)
           y == At(counts, n) + CountedIn(v)
<1>0. Shape /\ n \in Nat
  BY DEF IInv, Shape
<1>1. x \in Int /\ y \in Nat
  <2>1. At(totals, n) \in Int /\ At(counts, n) \in Nat
    BY <1>0, AtTypes DEF Shape
  <2> QED
    BY <2>1, SampleTerms
<1>2. /\ totals \in Seq(Int) /\ counts \in Seq(Nat) /\ source \in Seq(Sample)
      /\ Len(totals) = n /\ Len(counts) = n /\ Len(means) = n
  BY <1>0 DEF Shape
<1>3. totals' = Append(totals, x) /\ counts' = Append(counts, y) /\ source' = Append(source, v)
  BY <1>2 DEF Smooth
<1>4. Outgoing(v) \in Sample
  BY <1>0, OutgoingIsSample
<1>5. sum' \in Finite \cup {Infinite}
  <2>1. Plus(sum, Term(v)) \in Finite \cup {Infinite}
    BY <1>0, SampleTerms, PlusCloses DEF Shape
  <2>2. -Term(Outgoing(v)) \in Int
    BY <1>4, SampleTerms
  <2> QED
    BY <2>1, <2>2, PlusCloses DEF Smooth
<1>6. finite_count' \in Int
  BY <1>0, <1>4, SampleTerms DEF Smooth, Shape, CountedOut
<1>7. Mean(sum', finite_count') \in [sum : Int, count : Int] \cup {NaN}
  BY <1>5, <1>6 DEF Mean, Finite
<1>8. means' = Append(means, Mean(sum', finite_count')) /\ means \in Seq([sum : Int, count : Int] \cup {NaN})
  BY <1>0 DEF Smooth, Shape
<1> HIDE DEF x, y
<1>9. \A i \in Int : i <= n => At(totals', i) = At(totals, i) /\ At(counts', i) = At(counts, i)
  <2>1. \A i \in Int : i <= n => At(Append(totals, x), i) = At(totals, i)
    BY <1>1, <1>2, AtAppend
  <2>2. \A i \in Int : i <= n => At(Append(counts, y), i) = At(counts, i)
    BY <1>1, <1>2, AtAppend
  <2> QED
    BY <1>3, <2>1, <2>2
<1>10. At(totals', n + 1) = x /\ At(counts', n + 1) = y
  BY <1>1, <1>2, <1>3, AtAppend
<1>11. totals' \in Seq(Int) /\ Len(totals') = n + 1
  BY <1>1, <1>2, <1>3
<1>12. counts' \in Seq(Nat) /\ Len(counts') = n + 1
  BY <1>1, <1>2, <1>3
<1>13. source' \in Seq(Sample) /\ Len(source') = n + 1 /\ source'[n + 1] = v
       /\ \A i \in 1..n : source'[i] = source[i]
  BY <1>2, <1>3
<1>14. /\ means' \in Seq([sum : Int, count : Int] \cup {NaN}) /\ Len(means') = n + 1
       /\ \A i \in 1..n : means'[i] = means[i]
  BY <1>2, <1>7, <1>8
<1>15. Shape'
  BY <1>0, <1>5, <1>6, <1>11, <1>12, <1>13, <1>14 DEF Shape, Smooth
<1> QED
  BY <1>9, <1>10, <1>13, <1>14, <1>15 DEF x, y

(* The histories stay prefix sums.                                         *)
LEMMA SmoothHistory ==
  ASSUME IInv, NEW v \in Sample, Smooth(v)
  PROVE  PrefixSums' /\ CountsGrow'
<1> DEFINE n == Len(source)
<1>0. Shape /\ PrefixSums /\ CountsGrow /\ n \in Nat
  BY DEF IInv, Shape
<1>1. Shape' /\ Len(source') = n + 1 /\ Len(counts') = n + 1 /\ Len(counts) = n
  BY <1>0, SmoothShape DEF Shape
<1>2. PrefixSums'
  <2> SUFFICES ASSUME NEW i \in 1..(n + 1)
               PROVE  /\ totals'[i] = At(totals', i - 1) + Term(source'[i])
                      /\ counts'[i] = At(counts', i - 1) + CountedIn(source'[i])
    BY <1>1 DEF PrefixSums
  <2>1. totals'[i] = At(totals', i) /\ counts'[i] = At(counts', i)
    BY DEF At
  <2>2. CASE i = n + 1
    BY <1>0, <2>1, <2>2, SmoothShape
  <2>3. CASE i \in 1..n
    <3>1. totals[i] = At(totals, i) /\ counts[i] = At(counts, i)
      BY <2>3 DEF At
    <3> QED
      BY <1>0, <2>1, <2>3, <3>1, SmoothShape DEF PrefixSums
  <2> QED
    BY <1>0, <2>2, <2>3
<1>3. CountsGrow'
  <2> SUFFICES ASSUME NEW i \in 0..(n + 1), NEW j \in 0..(n + 1), i <= j
               PROVE  At(counts', j) - At(counts', i) \in 0..(j - i)
    BY <1>1 DEF CountsGrow
  <2>1. CASE j \in 0..n
    <3>1. i \in 0..n
      BY <1>0, <2>1
    <3>2. At(counts', j) = At(counts, j) /\ At(counts', i) = At(counts, i)
      BY <2>1, <3>1, SmoothShape
    <3>3. At(counts, j) - At(counts, i) \in 0..(j - i)
      BY <1>0, <1>1, <2>1, <3>1 DEF CountsGrow
    <3> QED
      BY <3>2, <3>3
  <2>2. CASE j = n + 1 /\ i = n + 1
    <3>1. At(counts, n) \in Nat
      BY <1>0, <1>1, AtTypes DEF Shape
    <3> QED
      BY <1>0, <2>2, <3>1, SmoothShape, SampleTerms
  <2>3. CASE j = n + 1 /\ i \in 0..n
    <3>1. At(counts, n) - At(counts, i) \in 0..(n - i)
      BY <1>0, <1>1, <2>3 DEF CountsGrow
    <3>2. At(counts, n) \in Nat /\ At(counts, i) \in Nat
      BY <1>0, <1>1, <2>3, AtTypes DEF Shape
    <3>3. At(counts', j) = At(counts, n) + CountedIn(v) /\ At(counts', i) = At(counts, i)
      BY <1>0, <2>3, SmoothShape
    <3> QED
      BY <1>0, <2>3, <3>1, <3>2, <3>3, SampleTerms
  <2> QED
    BY <1>0, <2>1, <2>2, <2>3
<1> QED
  BY <1>2, <1>3

(* What leaves the window is the step of the prefix sums at its far end.   *)
LEMMA OutgoingIsStep ==
  ASSUME IInv, NEW v \in Sample, Smooth(v), NEW n, n = Len(source)
  PROVE  /\ At(totals', n + 1 - window) = At(totals', n - window) + Term(Outgoing(v))
         /\ At(counts', n + 1 - window) = At(counts', n - window) + CountedOut(v)
<1>0. Shape /\ n \in Nat /\ window \in Nat /\ PrefixSums' /\ Shape' /\ Len(source') = n + 1
  BY SmoothHistory, SmoothShape, SmoothingAssumption DEF IInv, Shape
<1>1. CASE n < window
  <2>1. n - window <= 0 /\ n + 1 - window <= 0
    BY <1>0, <1>1
  <2>2. Outgoing(v) = NaN
    BY <1>0, <1>1, OutgoingIsSample
  <2> QED
    BY <2>1, <2>2, SampleTerms DEF At, CountedOut
<1>2. CASE n >= window
  <2> DEFINE i == n + 1 - window
  <2>1. i \in 1..(n + 1) /\ i - 1 = n - window
    BY <1>0, <1>2
  <2>2. Outgoing(v) = source'[i]
    BY <1>0, <1>2, OutgoingIsSample DEF Smooth
  <2> HIDE DEF i
  <2>3. At(totals', i) = totals'[i] /\ At(counts', i) = counts'[i]
    BY <2>1 DEF At
  <2>4. totals'[i] = At(totals', i - 1) + Term(source'[i]) /\ counts'[i] = At(counts', i - 1) + CountedIn(source'[i])
    BY <1>0, <2>1 DEF PrefixSums
  <2> QED
    BY <2>1, <2>2, <2>3, <2>4 DEF CountedOut, i
<1> QED
  BY <1>0, <1>1, <1>2

(* The count stays the one of the window.                                  *)
LEMMA SmoothCount ==
  ASSUME IInv, NEW v \in Sample, Smooth(v)
  PROVE  CountIsWindow'
<1> DEFINE n == Len(source)
<1>0. Shape /\ Shape' /\ n \in Nat /\ window \in Nat /\ window' = window /\ Len(source') = n + 1
  BY SmoothShape, SmoothingAssumption DEF IInv, Shape, Smooth
<1>1. finite_count = At(counts, n) - At(counts, n - window)
  BY DEF IInv, CountIsWindow, WindowCount
<1>2. finite_count' = finite_count + CountedIn(v) - CountedOut(v)
  BY DEF Smooth
<1>3. At(counts', n + 1) = At(counts, n) + CountedIn(v) /\ At(counts', n - window) = At(counts, n - window)
  BY <1>0, SmoothShape
<1>4. At(counts', n + 1 - window) = At(counts', n - window) + CountedOut(v)
  BY OutgoingIsStep
<1>5. At(counts, n) \in Int /\ At(counts, n - window) \in Int
  BY <1>0, AtTypes
<1>6. CountedIn(v) \in Int /\ CountedOut(v) \in Int
  BY <1>0, OutgoingIsSample, SampleTerms DEF CountedOut
<1>7. finite_count' = At(counts', n + 1) - At(counts', n + 1 - window)
  <2> HIDE DEF n
  <2> QED
    BY <1>1, <1>2, <1>3, <1>4, <1>5, <1>6
<1> QED
  BY <1>0, <1>7 DEF CountIsWindow, WindowCount

(* While no window overflows, the running sum is the one of the window.    *)
LEMMA SmoothSum ==
  ASSUME IInv, NEW v \in Sample, Smooth(v), NoOverflow'
  PROVE  NoOverflow /\ sum' = At(totals', Len(source) + 1) - At(totals', Len(source) + 1 - window)
<1> DEFINE n == Len(source)
<1>0. /\ Shape /\ Shape' /\ n \in Nat /\ window \in Nat /\ window' = window /\ window + 1 \in Nat
      /\ Len(source') = n + 1 /\ source' \in Seq(Sample) /\ source \in Seq(Sample)
  BY SmoothShape, SmoothingAssumption DEF IInv, Shape, Smooth
<1>1. NoOverflow
  <2> SUFFICES ASSUME NEW i \in 1..n
               PROVE  WindowSum(i, window) \in Finite /\ WindowSum(i, window + 1) \in Finite
    BY <1>0 DEF NoOverflow
  <2>1. WindowSum(i, window)' \in Finite /\ WindowSum(i, window + 1)' \in Finite
    BY <1>0 DEF NoOverflow
  <2>2. WindowSum(i, window)' = WindowSum(i, window)
    <3>1. At(totals', i) = At(totals, i) /\ At(totals', i - window) = At(totals, i - window)
      BY <1>0, SmoothShape
    <3> QED
      BY <1>0, <3>1 DEF WindowSum
  <2>3. WindowSum(i, window + 1)' = WindowSum(i, window + 1)
    <3>1. At(totals', i) = At(totals, i) /\ At(totals', i - (window + 1)) = At(totals, i - (window + 1))
      BY <1>0, SmoothShape
    <3> QED
      BY <1>0, <3>1 DEF WindowSum
  <2> QED
    BY <2>1, <2>2, <2>3
<1>2. sum = At(totals, n) - At(totals, n - window)
  BY <1>1 DEF IInv, SumIsWindow, WindowSum
<1>3. /\ At(totals', n + 1) = At(totals, n) + Term(v)
      /\ At(totals', n - window) = At(totals, n - window)
      /\ At(totals', n + 1 - window) = At(totals', n - window) + Term(Outgoing(v))
  BY <1>0, SmoothShape, OutgoingIsStep
<1>4. /\ At(totals, n) \in Int /\ At(totals, n - window) \in Int
      /\ Term(v) \in Int /\ Term(Outgoing(v)) \in Int
  BY <1>0, AtTypes, OutgoingIsSample, SampleTerms
<1>5. /\ At(totals', n + 1) - At(totals', n + 1 - window) \in Finite
      /\ At(totals', n + 1) - At(totals', n + 1 - (window + 1)) \in Finite
  <2>1. n + 1 \in DOMAIN source'
    BY <1>0
  <2> QED
    BY <1>0, <2>1 DEF NoOverflow, WindowSum
<1>6. n + 1 - (window + 1) = n - window
  BY <1>0
<1>7. sum' = Plus(Plus(sum, Term(v)), -Term(Outgoing(v)))
  BY DEF Smooth
<1>8. sum' = At(totals', n + 1) - At(totals', n + 1 - window)
  <2> DEFINE a == At(totals, n)
             b == At(totals, n - window)
             t == Term(v)
             u == Term(Outgoing(v))
  <2>0. /\ a \in Int /\ b \in Int /\ t \in Int /\ u \in Int /\ sum = a - b
        /\ sum' = Plus(Plus(sum, t), -u)
    BY <1>2, <1>4, <1>7
  <2>1. At(totals', n + 1) = a + t /\ At(totals', n + 1 - window) = b + u
    BY <1>3
  <2>2. a + t - b \in Finite
    <3> HIDE DEF a, t
    <3>1. At(totals', n + 1 - (window + 1)) = b
      BY <1>3, <1>6
    <3>2. At(totals', n + 1) - At(totals', n + 1 - (window + 1)) \in Finite
      BY <1>5
    <3> HIDE DEF b
    <3> QED
      BY <2>0, <2>1, <3>1, <3>2
  <2>3. (a + t) - (b + u) \in Finite
    BY <1>5, <2>1
  <2> HIDE DEF a, b, t, u, n
  <2>4. Plus(sum, t) = a + t - b
    <3>1. sum # Infinite /\ sum + t = a + t - b
      BY <2>0, SmoothingAssumption
    <3> QED
      BY <2>2, <3>1 DEF Plus
  <2>5. Plus(a + t - b, -u) = (a + t) - (b + u)
    <3>1. a + t - b # Infinite /\ a + t - b + (-u) = (a + t) - (b + u)
      BY <2>0, SmoothingAssumption
    <3> QED
      BY <2>3, <3>1 DEF Plus
  <2> QED
    BY <2>0, <2>1, <2>4, <2>5
<1> QED
  BY <1>1, <1>8

(* So the mean pushed is the one of the window.                            *)
LEMMA SmoothMeans ==
  ASSUME IInv, NEW v \in Sample, Smooth(v)
  PROVE  MeansMatchWindow'
<1> PICK n : n = Len(source)
  OBVIOUS
<1> DEFINE Expected(i) == IF WindowCount(i) = 0 THEN NaN
                          ELSE [sum |-> WindowSum(i, window), count |-> WindowCount(i)]
<1>0. /\ Shape /\ Shape' /\ n \in Nat /\ window \in Nat /\ window' = window
      /\ Len(source') = n + 1 /\ Len(means') = n + 1 /\ Len(means) = n
      /\ means' \in Seq([sum : Int, count : Int] \cup {NaN})
      /\ means \in Seq([sum : Int, count : Int] \cup {NaN})
  BY SmoothShape, SmoothingAssumption DEF IInv, Shape, Smooth
<1> SUFFICES ASSUME NoOverflow', NEW i \in 1..(n + 1)
             PROVE  means'[i] = Expected(i)'
  BY <1>0 DEF MeansMatchWindow
<1>1. NoOverflow /\ sum' = WindowSum(n + 1, window)'
  BY <1>0, SmoothSum DEF WindowSum
<1>2. CASE i \in 1..n
  <2>1. means'[i] = means[i]
    BY <1>2, SmoothShape
  <2>2. means[i] = Expected(i)
    BY <1>0, <1>1, <1>2 DEF IInv, MeansMatchWindow
  <2>3. WindowSum(i, window)' = WindowSum(i, window) /\ WindowCount(i)' = WindowCount(i)
    <3>1. At(totals', i) = At(totals, i) /\ At(totals', i - window) = At(totals, i - window)
      BY <1>0, <1>2, SmoothShape
    <3>2. At(counts', i) = At(counts, i) /\ At(counts', i - window) = At(counts, i - window)
      BY <1>0, <1>2, SmoothShape
    <3> QED
      BY <1>0, <3>1, <3>2 DEF WindowSum, WindowCount
  <2> QED
    BY <2>1, <2>2, <2>3
<1>3. CASE i = n + 1
  <2>1. means'[n + 1] = Mean(sum', finite_count')
    BY <1>0 DEF Smooth
  <2>2. finite_count' = WindowCount(n + 1)'
    BY <1>0, SmoothCount DEF CountIsWindow
  <2>3. finite_count' \in Nat /\ sum' \in Int
    <3>1. finite_count' \in Nat
      <4>1. At(counts', n + 1) - At(counts', n + 1 - window) \in Nat
        <5>1. CountsGrow' /\ Len(counts') = n + 1
          BY <1>0, SmoothHistory DEF Shape
        <5>2. CASE n + 1 - window >= 0
          <6>1. PICK k : k = n + 1 - window
            OBVIOUS
          <6>2. PICK m : m = n + 1
            OBVIOUS
          <6>3. k \in 0..m /\ m \in 0..m /\ m \in Nat
            BY <1>0, <5>2, <6>1, <6>2
          <6>4. At(counts', m) - At(counts', k) \in 0..(m - k)
            BY <5>1, <6>2, <6>3 DEF CountsGrow
          <6> QED
            BY <6>1, <6>2, <6>3, <6>4
        <5>3. CASE n + 1 - window < 0
          <6>1. At(counts', n + 1) - At(counts', 0) \in Nat
            BY <1>0, <5>1 DEF CountsGrow
          <6>2. At(counts', 0) = 0 /\ At(counts', n + 1 - window) = 0
            BY <1>0, <5>3 DEF At
          <6> QED
            BY <6>1, <6>2
        <5> QED
          BY <1>0, <5>2, <5>3
      <4> QED
        BY <1>0, <2>2, <4>1 DEF WindowCount
    <3>2. sum' \in Int
      <4>1. n + 1 \in DOMAIN source'
        BY <1>0 DEF Shape
      <4>2. WindowSum(n + 1, window)' \in Finite
        BY <4>1 DEF NoOverflow
      <4> QED
        BY <1>1, <4>2, SmoothingAssumption DEF Finite
    <3> QED
      BY <3>1, <3>2
  <2>4. sum' # Infinite
    BY <2>3, SmoothingAssumption
  <2> QED
    BY <1>0, <1>1, <1>3, <2>1, <2>2, <2>3, <2>4 DEF Mean
<1> QED
  BY <1>0, <1>2, <1>3

(* The invariant is inductive.                                             *)
LEMMA SmoothingGoesOn ==
  IInv /\ [SmoothingNext]_smoothing => IInv'
<1> SUFFICES ASSUME IInv, [SmoothingNext]_smoothing PROVE IInv'
  OBVIOUS
<1>1. ASSUME NEW v \in Values \cup {NaN}, Smooth(v) PROVE IInv'
  <2>1. Sample = Values \cup {NaN}
    BY DEF Sample
  <2>2. Shape' /\ PrefixSums' /\ CountsGrow' /\ CountIsWindow' /\ MeansMatchWindow'
    BY <1>1, <2>1, SmoothShape, SmoothHistory, SmoothCount, SmoothMeans
  <2>3. SumIsWindow'
    <3>1. Len(source') = Len(source) + 1 /\ window' = window
      BY <1>1, <2>1, SmoothShape DEF Smooth
    <3>2. ASSUME NoOverflow'
          PROVE  sum' = At(totals', Len(source) + 1) - At(totals', Len(source) + 1 - window)
      BY <1>1, <2>1, <3>2, SmoothSum
    <3>3. WindowSum(Len(source), window)' = At(totals', Len(source')) - At(totals', Len(source') - window')
      BY DEF WindowSum
    <3>4. window \in Nat /\ Len(source) \in Nat
      BY SmoothingAssumption DEF IInv, Shape
    <3>5. Len(source') - window' = Len(source) + 1 - window
      BY <3>1, <3>4
    <3> QED
      BY <3>1, <3>2, <3>3, <3>5 DEF SumIsWindow
  <2> QED
    BY <2>2, <2>3 DEF IInv
<1>2. CASE FinishSmoothing \/ UNCHANGED smoothing
  <2>1. UNCHANGED <<window, sum, finite_count, source, means, totals, counts>>
    BY <1>2 DEF FinishSmoothing, smoothing
  <2>2. status' \in {"running", "InvalidSmoothingWindow", "Ok"}
    BY <1>2 DEF FinishSmoothing, smoothing, IInv, Shape
  <2>3. Shape'
    BY <2>1, <2>2 DEF IInv, Shape
  <2>4. (PrefixSums /\ CountsGrow /\ CountIsWindow)'
    BY <2>1 DEF IInv, PrefixSums, CountsGrow, CountIsWindow, WindowCount
  <2>5. (SumIsWindow /\ MeansMatchWindow)'
    BY <2>1 DEF IInv, SumIsWindow, MeansMatchWindow, NoOverflow, WindowSum, WindowCount
  <2> QED
    BY <2>3, <2>4, <2>5 DEF IInv
<1> QED
  BY <1>1, <1>2 DEF SmoothingNext

(* The invariant holds in every state of every series.                     *)
LEMMA SmoothingInvariant ==
  SmoothingSpec => []IInv
BY SmoothingBegins, SmoothingGoesOn, PTL DEF SmoothingSpec

(* The count of a window is at most the number of samples read.            *)
LEMMA SmoothingTypes ==
  IInv => SmoothingTypeOK
<1> SUFFICES ASSUME IInv PROVE SmoothingTypeOK
  OBVIOUS
<1> DEFINE n == Len(source)
<1>0. Shape /\ n \in Nat /\ window \in Nat /\ CountsGrow /\ Len(counts) = n
  BY SmoothingAssumption DEF IInv, Shape
<1>1. finite_count = At(counts, n) - At(counts, n - window)
  BY DEF IInv, CountIsWindow, WindowCount
<1>2. CASE n - window >= 0
  <2>1. finite_count \in 0..(n - (n - window))
    <3>1. n - window \in 0..n /\ n \in 0..n /\ n - window <= n /\ window \in Nat
      BY <1>0, <1>2, SmoothingAssumption DEF Shape
    <3> HIDE DEF n
    <3> QED
      BY <1>0, <1>1, <3>1 DEF CountsGrow
  <2>2. finite_count \in 0..n
    BY <1>0, <1>2, <2>1
  <2> QED
    BY <1>0, <2>2 DEF Shape, SmoothingTypeOK, Sample
<1>3. CASE n - window < 0
  <2>1. At(counts, n) - At(counts, 0) \in 0..(n - 0)
    BY <1>0 DEF CountsGrow
  <2>2. At(counts, 0) = 0 /\ At(counts, n - window) = 0
    BY <1>0, <1>3 DEF At
  <2>3. finite_count \in 0..n
    BY <1>0, <1>1, <2>1, <2>2
  <2> QED
    BY <1>0, <2>3 DEF Shape, SmoothingTypeOK, Sample
<1> QED
  BY <1>0, <1>2, <1>3

-----------------------------------------------------------------------------
(* smooth_moving_mean never counts a sample out that it did not count in:  *)
(* finite_count does not underflow, for any series and any window.         *)
THEOREM SmoothingTypeCorrect == SmoothingSpec => []SmoothingTypeOK
BY SmoothingInvariant, SmoothingTypes, PTL

(* smooth_moving_mean: as long as no window overflows, every mean it       *)
(* pushed is the one of its window, for any series and any window.         *)
THEOREM MeansAreWindowMeans == SmoothingSpec => []MeansMatchWindow
<1>1. IInv => MeansMatchWindow
  BY DEF IInv
<1> QED
  BY <1>1, SmoothingInvariant, PTL

-----------------------------------------------------------------------------
(***************************************************************************)
(* The series.  The arithmetic of its ranks and of interpolation first.    *)
(***************************************************************************)

(* Ranks are ordered as their numbers are, but for the two zeros.          *)
LEMMA NumberKeepsOrder ==
  ASSUME NEW a \in Int, NEW b \in Int
  PROVE  /\ Number(a) \in Int /\ Number(b) \in Int
         /\ a <= b => Number(a) <= Number(b)
         /\ Number(a) < Number(b) => a < b
BY DEF Number

(* A part of a difference, rounded down, lies between 0 and the whole.     *)
LEMMA PartOfDifference ==
  ASSUME NEW d \in Int, NEW x \in Nat, NEW w \in Nat \ {0}, x <= w
  PROVE  /\ (d * x) \div w \in Int
         /\ d >= 0 => (d * x) \div w \in 0..d
         /\ d < 0 => (d * x) \div w \in d..0
<1>1. CASE d >= 0
  <2>1. d \in Nat
    BY <1>1
  <2>2. d * x \in Nat /\ d * w \in Nat /\ d * x <= d * w
    BY <2>1, ProductMonotonic
  <2>3. (d * x) \div w \in Nat /\ (d * x) \div w <= (d * w) \div w /\ (d * w) \div w = d
    BY <2>1, <2>2, DivMonotonic, DivExact
  <2> QED
    BY <1>1, <2>1, <2>3
<1>2. CASE d < 0
  <2>1. PICK p \in Int : p = d * x
    OBVIOUS
  <2>2. PICK q \in Int : q = p \div w /\ w * q <= p /\ p < w * q + w
    <3>1. /\ p \div w \in Int /\ p % w \in 0..(w - 1)
          /\ p = w * (p \div w) + (p % w)
      OBVIOUS
    <3>2. PICK q \in Int, r \in 0..(w - 1) : q = p \div w /\ r = p % w /\ p = w * q + r
      BY <3>1
    <3>3. PICK wq \in Int : wq = w * q
      OBVIOUS
    <3>4. wq <= p /\ p < wq + w
      BY <3>2, <3>3
    <3> QED
      BY <3>2, <3>3, <3>4
  <2>3. PICK e \in Nat : d = -e
    <3>1. -d \in Nat /\ d = -(-d)
      BY <1>2
    <3> QED
      BY <3>1
  <2>4. e * x \in Nat /\ e * w \in Nat /\ e * x <= e * w
    BY ProductMonotonic
  <2>5. p = -(e * x)
    BY <2>1, <2>3
  <2>6. q <= 0
    <3> SUFFICES ASSUME q > 0 PROVE FALSE
      OBVIOUS
    <3>1. PICK k \in Nat : q = k + 1
      <4>1. q - 1 \in Nat /\ q = (q - 1) + 1
        OBVIOUS
      <4> QED
        BY <4>1
    <3>2. w * q = w * k + w /\ w * k \in Nat
      BY <3>1
    <3> QED
      BY <2>2, <2>4, <2>5, <3>2
  <2>7. d <= q
    <3> SUFFICES ASSUME q < d PROVE FALSE
      OBVIOUS
    <3>1. q + 1 <= d /\ q + 1 \in Int
      OBVIOUS
    <3>2. (q + 1) * w <= d * w
      BY <3>1, ScaleKeepsOrder
    <3>3. (q + 1) * w = w * q + w /\ d * w = -(e * w)
      BY <2>3
    <3>4. PICK a \in Int, b \in Int, c \in Int : a = w * q /\ b = e * w /\ c = e * x
      BY <2>4
    <3> QED
      BY <2>2, <2>4, <2>5, <3>2, <3>3, <3>4
  <2> QED
    BY <1>2, <2>1, <2>2, <2>6, <2>7
<1> QED
  BY <1>1, <1>2

(* A set of places that holds every place before one of its own is an      *)
(* interval from 1.                                                        *)
LEMMA InitialSegment ==
  ASSUME NEW n \in Nat, NEW S \in SUBSET (1..n),
         \A i \in S : \A j \in 1..n : j < i => j \in S
  PROVE  \E m \in 0..n : S = 1..m /\ Cardinality(S) = m
<1>1. CASE S = {}
  <2>1. S = 1..0 /\ 0 \in 0..n
    BY <1>1
  <2> QED
    BY <1>1, <2>1, FS_EmptySet
<1>2. CASE S # {}
  <2>1. PICK m \in 1..n : m \in S /\ \A x \in S : x <= m
    BY <1>2, MaxOfInterval
  <2>2. S = 1..m
    <3>1. ASSUME NEW x \in S PROVE x \in 1..m
      BY <2>1
    <3>2. ASSUME NEW x \in 1..m PROVE x \in S
      <4>1. x \in 1..n /\ (x = m \/ x < m)
        OBVIOUS
      <4> QED
        BY <2>1, <4>1
    <3> QED
      BY <3>1, <3>2
  <2>3. Cardinality(1..m) = m
    <3>1. 1 \in Int /\ m \in Int /\ 1 <= m
      OBVIOUS
    <3>2. Cardinality(1..m) = IF 1 > m THEN 0 ELSE m - 1 + 1
      BY <3>1, FS_Interval
    <3> QED
      BY <3>1, <3>2
  <2> QED
    BY <2>2, <2>3
<1> QED
  BY <1>1, <1>2

(* The ends of an interval of places.                                      *)
LEMMA EndsOfInterval ==
  ASSUME NEW n \in Nat, NEW i \in 1..n
  PROVE  Max(1..i) = i /\ Min(i..n) = i
<1>1. 1..i \in SUBSET (1..n) /\ 1..i # {} /\ i \in 1..i
  OBVIOUS
<1>2. Max(1..i) \in 1..i /\ \A x \in 1..i : x <= Max(1..i)
  BY <1>1, MaxOfInterval
<1>3. i..n \in SUBSET Nat /\ i..n # {} /\ i \in i..n
  OBVIOUS
<1>4. Min(i..n) \in i..n /\ \A x \in i..n : Min(i..n) <= x
  BY <1>3, MinOfNat
<1> QED
  BY <1>1, <1>2, <1>3, <1>4

-----------------------------------------------------------------------------
(* A validated series: its numbers increase, with a value for each.        *)
Ascending ==
  /\ timestamps \in Seq(Int) /\ Len(timestamps) = Len(values)
  /\ \A i, j \in 1..Len(timestamps) : i < j => Number(timestamps[i]) < Number(timestamps[j])

Column == Finite \cup {NaN}

\* What the property asks of one output.
Follows(t, out) ==
  IF Before(t) = {} \/ After(t) = {} THEN out = None
  ELSE LET low == values[Max(Before(t))]
           high == values[Min(After(t))]
       IN  IF low = NaN \/ high = NaN THEN out = None
           ELSE IF high - low \notin Finite THEN out = None
           ELSE out \in low..high \/ out \in high..low

(* A timestamp of the series: the search finds its only place.             *)
LEMMA AtSample ==
  ASSUME Ascending, NEW t \in Int, Found(t) # {}
  PROVE  \E i \in 1..Len(timestamps) :
           Found(t) = {i} /\ Before(t) = 1..i /\ After(t) = i..Len(timestamps)
<1> DEFINE n == Len(timestamps)
<1>1. n \in Nat /\ DOMAIN timestamps = 1..n /\ \A i \in 1..n : timestamps[i] \in Int
  BY DEF Ascending
<1>2. PICK i \in 1..n : timestamps[i] = t
  BY <1>1 DEF Found
<1>3. \A j \in 1..n : /\ j < i => Number(timestamps[j]) < Number(t)
                      /\ i < j => Number(t) < Number(timestamps[j])
                      /\ Number(timestamps[j]) \in Int
  BY <1>1, <1>2, NumberKeepsOrder DEF Ascending
<1>4. Number(t) \in Int
  BY NumberKeepsOrder
<1>5. \A j \in 1..n : /\ Number(timestamps[j]) <= Number(t) <=> j <= i
                      /\ Number(timestamps[j]) >= Number(t) <=> j >= i
  BY <1>1, <1>2, <1>3, <1>4
<1>6. Found(t) = {i}
  BY <1>1, <1>2, <1>3, <1>4 DEF Found
<1>7. Before(t) = 1..i
  BY <1>1, <1>5 DEF Before
<1>8. After(t) = i..n
  BY <1>1, <1>5 DEF After
<1> QED
  BY <1>6, <1>7, <1>8

(* Any other: the samples below it are the first m.                        *)
LEMMA BetweenSamples ==
  ASSUME Ascending, NEW t \in Int, Found(t) = {}
  PROVE  \E m \in 0..Len(timestamps) :
           /\ InsertionPoint(t) = m + 1
           /\ m > 0 => Number(timestamps[m]) <= Number(t)
           /\ m < Len(timestamps) => Number(t) <= Number(timestamps[m + 1])
           /\ SignsAgree(t) => Before(t) = 1..m /\ After(t) = (m + 1)..Len(timestamps)
<1> DEFINE n == Len(timestamps)
           S == {i \in 1..n : timestamps[i] < t}
<1>1. n \in Nat /\ DOMAIN timestamps = 1..n /\ \A i \in 1..n : timestamps[i] \in Int
  BY DEF Ascending
<1>2. \A i, j \in 1..n : j < i => timestamps[j] < timestamps[i]
  BY <1>1, NumberKeepsOrder DEF Ascending
<1>3. \A i \in S : \A j \in 1..n : j < i => j \in S
  BY <1>1, <1>2
<1>4. PICK m \in 0..n : S = 1..m /\ Cardinality(S) = m
  <2> HIDE DEF S, n
  <2>1. S \in SUBSET (1..n)
    BY DEF S
  <2> QED
    BY <1>1, <1>3, <2>1, InitialSegment
<1>5. InsertionPoint(t) = m + 1
  <2>1. {i \in DOMAIN timestamps : timestamps[i] < t} = S
    BY <1>1
  <2>2. InsertionPoint(t) = 1 + Cardinality(S)
    BY <2>1, Zenon DEF InsertionPoint
  <2> HIDE DEF S
  <2> QED
    BY <1>4, <2>2
<1>6. \A i \in 1..n : timestamps[i] # t
  BY <1>1 DEF Found
<1>7. \A i \in 1..n : /\ i <= m <=> timestamps[i] < t
                      /\ i > m <=> t < timestamps[i]
  <2>1. \A i \in 1..n : i <= m <=> timestamps[i] < t
    BY <1>4
  <2> QED
    BY <1>1, <1>6, <2>1
<1>8. \A i \in 1..n : /\ i <= m => Number(timestamps[i]) <= Number(t)
                      /\ i > m => Number(t) <= Number(timestamps[i])
                      /\ Number(timestamps[i]) \in Int /\ Number(t) \in Int
  <2> SUFFICES ASSUME NEW i \in 1..n
               PROVE  /\ i <= m => Number(timestamps[i]) <= Number(t)
                      /\ i > m => Number(t) <= Number(timestamps[i])
                      /\ Number(timestamps[i]) \in Int /\ Number(t) \in Int
    OBVIOUS
  <2>1. PICK a \in Int : a = timestamps[i]
    BY <1>1
  <2>2. (i <= m => a < t) /\ (i > m => t < a)
    BY <1>7, <2>1
  <2>3. /\ Number(a) \in Int /\ Number(t) \in Int
        /\ a < t => Number(a) <= Number(t)
        /\ t < a => Number(t) <= Number(a)
    BY NumberKeepsOrder
  <2> QED
    BY <2>1, <2>2, <2>3
<1>9. ASSUME SignsAgree(t)
      PROVE  Before(t) = 1..m /\ After(t) = (m + 1)..n
  <2>1. \A i \in 1..n : Number(timestamps[i]) # Number(t)
    BY <1>1, <1>6, <1>9 DEF SignsAgree
  <2>2. \A i \in 1..n : /\ Number(timestamps[i]) <= Number(t) <=> i <= m
                        /\ Number(timestamps[i]) >= Number(t) <=> i > m
    BY <1>8, <2>1
  <2>3. Before(t) = 1..m
    BY <1>1, <2>2 DEF Before
  <2>4. After(t) = (m + 1)..n
    BY <1>1, <2>2 DEF After
  <2> QED
    BY <2>3, <2>4
<1> QED
  BY <1>1, <1>5, <1>8, <1>9

(* Between two finite samples the value lies between theirs.               *)
LEMMA LineLiesBetween ==
  ASSUME Ascending, values \in Seq(Column), NEW t \in Int,
         NEW m \in 1..Len(timestamps), m < Len(timestamps),
         Number(timestamps[m]) <= Number(t), Number(t) <= Number(timestamps[m + 1])
  PROVE  /\ Line(m, t) \in Finite \cup {None}
         /\ values[m] = NaN \/ values[m + 1] = NaN => Line(m, t) = None
         /\ values[m] # NaN /\ values[m + 1] # NaN =>
              IF values[m + 1] - values[m] \notin Finite THEN Line(m, t) = None
              ELSE \/ Line(m, t) \in values[m]..values[m + 1]
                   \/ Line(m, t) \in values[m + 1]..values[m]
<1>1. /\ m \in 1..Len(values) /\ m + 1 \in 1..Len(values)
      /\ values[m] \in Column /\ values[m + 1] \in Column
      /\ timestamps[m] \in Int /\ timestamps[m + 1] \in Int
  BY DEF Ascending
<1>2. Number(timestamps[m]) < Number(timestamps[m + 1])
  BY <1>1 DEF Ascending
<1>3. CASE values[m] = NaN \/ values[m + 1] = NaN
  BY <1>3 DEF Line
<1>4. CASE values[m] # NaN /\ values[m + 1] # NaN /\ values[m + 1] - values[m] \notin Finite
  BY <1>4 DEF Line
<1>5. CASE values[m] # NaN /\ values[m + 1] # NaN /\ values[m + 1] - values[m] \in Finite
  <2>1. Big \in Nat
    BY SmoothingAssumption
  <2>2. PICK low \in Finite, high \in Finite : low = values[m] /\ high = values[m + 1]
    BY <1>1, <1>5 DEF Column
  <2>3. low \in Int /\ high \in Int /\ -Big <= low /\ low <= Big /\ -Big <= high /\ high <= Big
    BY <2>1, <2>2 DEF Finite
  <2>4. PICK d \in Int : d = high - low
    BY <2>3
  <2>5. PICK x \in Nat, w \in Nat \ {0} :
          /\ x = Number(t) - Number(timestamps[m])
          /\ w = Number(timestamps[m + 1]) - Number(timestamps[m])
          /\ x <= w
    <3>1. PICK a \in Int, b \in Int, c \in Int :
            a = Number(timestamps[m]) /\ b = Number(t) /\ c = Number(timestamps[m + 1])
      BY <1>1, NumberKeepsOrder
    <3>2. a <= b /\ b <= c /\ a < c
      BY <1>2, <3>1
    <3>3. b - a \in Nat /\ c - a \in Nat \ {0} /\ b - a <= c - a
      BY <3>2
    <3> QED
      BY <3>1, <3>3
  <2>6. Line(m, t) = low + (d * x) \div w
    BY <1>5, <2>2, <2>4, <2>5 DEF Line
  <2>7. PICK q \in Int : /\ q = (d * x) \div w
                         /\ d >= 0 => q \in 0..d
                         /\ d < 0 => q \in d..0
    <3>1. PICK q : q = (d * x) \div w
      OBVIOUS
    <3>2. q \in Int /\ (d >= 0 => q \in 0..d) /\ (d < 0 => q \in d..0)
      BY <2>5, <3>1, PartOfDifference
    <3> QED
      BY <3>1, <3>2
  <2>8. Line(m, t) = low + q
    BY <2>6, <2>7
  <2>9. low + q \in low..high \/ low + q \in high..low
    BY <2>3, <2>4, <2>7
  <2>10. low + q \in Finite
    BY <2>1, <2>3, <2>9 DEF Finite
  <2> QED
    BY <1>5, <2>2, <2>8, <2>9, <2>10
<1> QED
  BY <1>3, <1>4, <1>5

(* What a query yields.                                                    *)
LEMMA InterpolateFollows ==
  ASSUME Ascending, values \in Seq(Column), NEW t \in Int
  PROVE  /\ Interpolate(t) \in Finite \cup {None}
         /\ SignsAgree(t) => Follows(t, Interpolate(t))
<1> DEFINE n == Len(timestamps)
<1>1. n \in Nat /\ Len(values) = n /\ \A i \in 1..n : values[i] \in Column
  BY DEF Ascending
<1>2. CASE Found(t) # {}
  <2>1. PICK i \in 1..n : Found(t) = {i} /\ Before(t) = 1..i /\ After(t) = i..n
    BY <1>2, AtSample
  <2>2. Min(Found(t)) = i
    <3>1. {i} \in SUBSET Nat /\ {i} # {}
      OBVIOUS
    <3>2. Min({i}) \in {i}
      BY <3>1, MinOfNat
    <3> QED
      BY <2>1, <3>2
  <2>3. Max(Before(t)) = i /\ Min(After(t)) = i
    BY <1>1, <2>1, EndsOfInterval
  <2>4. Before(t) # {} /\ After(t) # {}
    <3>1. i \in 1..i /\ i \in i..n
      BY <1>1
    <3> QED
      BY <2>1, <3>1
  <2>5. Interpolate(t) = Observed(values[i])
    BY <1>2, <2>2 DEF Interpolate
  <2>6. values[i] \in Column
    BY <1>1
  <2>7. CASE values[i] = NaN
    BY <2>3, <2>4, <2>5, <2>7 DEF Observed, Follows
  <2>8. CASE values[i] # NaN
    <3>1. Interpolate(t) = values[i] /\ values[i] \in Finite
      BY <2>5, <2>6, <2>8 DEF Observed, Column
    <3>2. PICK v \in Int : v = values[i] /\ v \in Finite /\ 0 \in Finite
      BY <3>1, SmoothingAssumption DEF Finite
    <3>3. v - v \in Finite /\ v \in v..v
      BY <3>2
    <3>4. Follows(t, v)
      BY <2>3, <2>4, <2>8, <3>2, <3>3 DEF Follows
    <3> QED
      BY <3>1, <3>2, <3>4
  <2> QED
    BY <2>7, <2>8
<1>3. CASE Found(t) = {}
  <2>1. PICK m \in 0..n :
           /\ InsertionPoint(t) = m + 1
           /\ m > 0 => Number(timestamps[m]) <= Number(t)
           /\ m < n => Number(t) <= Number(timestamps[m + 1])
           /\ SignsAgree(t) => Before(t) = 1..m /\ After(t) = (m + 1)..n
    BY <1>3, BetweenSamples
  <2>2. CASE m = 0
    <3>1. Interpolate(t) = None
      BY <1>3, <2>1, <2>2 DEF Interpolate
    <3>2. SignsAgree(t) => Before(t) = {}
      BY <2>1, <2>2
    <3> QED
      BY <3>1, <3>2 DEF Follows
  <2>3. CASE m = n
    <3>1. Interpolate(t) = None
      BY <1>1, <1>3, <2>1, <2>3 DEF Interpolate
    <3>2. SignsAgree(t) => After(t) = {}
      BY <1>1, <2>1, <2>3
    <3> QED
      BY <3>1, <3>2 DEF Follows
  <2>4. CASE m > 0 /\ m < n
    <3>1. m \in 1..n /\ m + 1 \in 1..n /\ (m + 1) - 1 = m /\ m + 1 # 1 /\ m + 1 # n + 1
      BY <1>1, <2>4
    <3>2. Interpolate(t) = Line(m, t)
      BY <1>3, <2>1, <3>1 DEF Interpolate
    <3>3. /\ Line(m, t) \in Finite \cup {None}
          /\ values[m] = NaN \/ values[m + 1] = NaN => Line(m, t) = None
          /\ values[m] # NaN /\ values[m + 1] # NaN =>
               IF values[m + 1] - values[m] \notin Finite THEN Line(m, t) = None
               ELSE \/ Line(m, t) \in values[m]..values[m + 1]
                    \/ Line(m, t) \in values[m + 1]..values[m]
      BY <2>1, <2>4, <3>1, LineLiesBetween
    <3>4. ASSUME SignsAgree(t) PROVE Follows(t, Line(m, t))
      <4>1. Before(t) = 1..m /\ After(t) = (m + 1)..n
        BY <2>1, <3>4
      <4>2. Max(Before(t)) = m /\ Min(After(t)) = m + 1
        BY <1>1, <3>1, <4>1, EndsOfInterval
      <4>3. Before(t) # {} /\ After(t) # {}
        <5>1. m \in 1..m /\ m + 1 \in (m + 1)..n
          BY <1>1, <3>1
        <5> QED
          BY <4>1, <5>1
      <4> QED
        BY <3>3, <4>2, <4>3 DEF Follows
    <3> QED
      BY <3>2, <3>3, <3>4
  <2> QED
    BY <1>1, <2>2, <2>3, <2>4
<1> QED
  BY <1>2, <1>3

-----------------------------------------------------------------------------
(***************************************************************************)
(* The calls on a series.  The inductive invariant: what is evaluated was  *)
(* validated, the means are finite where there are any, and nothing was    *)
(* pushed before an evaluation began.                                      *)
(***************************************************************************)
Validated == {"ready", "smooth", "align", "resample"}

MeansFinite ==
  \A i \in 1..Len(means) :
    means[i] = NaN \/ (means[i].sum \in Finite /\ means[i].count \in Nat \ {0})

SeriesShape ==
  /\ values \in Seq(Column)
  /\ timestamps \in Seq(Int \cup {NaN})
  /\ status # "Ok" => values \in Seq(Sample)
  /\ phase \in Validated \cup {"new", "returned"}
  /\ phase \in Validated => Ascending
  /\ phase \in {"new", "ready", "smooth"} => output = <<>>
  /\ grid \in Seq(Int \cup {NaN})
  /\ output \in Seq(Finite \cup {None}) /\ Len(output) <= Len(grid)

SeriesInv == IInv /\ MeansFinite /\ SeriesShape

(* The quotient of a mean is finite.                                       *)
LEMMA QuotientIsFinite ==
  ASSUME NEW mean, mean = NaN \/ (mean.sum \in Finite /\ mean.count \in Nat \ {0})
  PROVE  Quotient(mean) \in Column
<1>1. CASE mean = NaN
  BY <1>1 DEF Quotient, Column
<1>2. CASE mean # NaN
  <2>1. PICK s \in Finite, c \in Nat \ {0} : Quotient(mean) = s \div c
    BY <1>2 DEF Quotient
  <2>2. PICK b \in Nat : b = Big
    BY SmoothingAssumption
  <2>3. s \in Int /\ -b <= s /\ s <= b
    BY <2>2 DEF Finite
  <2>4. s \div c \in -b..b
    <3>1. PICK q \in Int, r \in 0..(c - 1) : q = s \div c /\ s = c * q + r
      <4>1. /\ s \div c \in Int /\ s % c \in 0..(c - 1)
            /\ s = c * (s \div c) + (s % c)
        BY <2>3
      <4> QED
        BY <4>1
    <3>2. CASE q >= 0
      <4>1. q \in Nat /\ 1 * q <= c * q /\ c * q \in Nat
        BY <3>2, ScaleKeepsOrder
      <4> QED
        BY <2>3, <3>1, <4>1
    <3>3. CASE q < 0
      <4>1. PICK p \in Nat : q = -(p + 1)
        <5>1. -q - 1 \in Nat /\ q = -((-q - 1) + 1)
          BY <3>3
        <5> QED
          BY <5>1
      <4>2. 1 * p <= c * p /\ c * p \in Nat
        BY ScaleKeepsOrder
      <4>3. c * q = -(c * p) - c
        BY <4>1
      <4>4. PICK cp \in Nat : cp = c * p
        BY <4>2
      <4> QED
        BY <2>3, <3>1, <4>1, <4>2, <4>3, <4>4
    <3> QED
      BY <3>2, <3>3
  <2> QED
    BY <2>1, <2>2, <2>4 DEF Column, Finite
<1> QED
  BY <1>1, <1>2

(* SeriesInv holds at the call. *)
LEMMA SeriesBegins == Init => SeriesInv
<1> SUFFICES ASSUME Init PROVE SeriesInv
  OBVIOUS
<1>1. SmoothingInit /\ IInv
  BY SmoothingBegins DEF Init
<1>2. MeansFinite
  BY <1>1 DEF SmoothingInit, MeansFinite
<1>3. PICK s \in Series : timestamps = s.timestamps /\ values = s.values
  BY DEF Init
<1>4. timestamps \in Seq(Int \cup {NaN}) /\ values \in Seq(Sample)
  BY <1>3, SeriesAssumption DEF Sample
<1>5. values \in Seq(Column)
  <2>1. \A v \in Sample : v \in Column
    BY SmoothingAssumption DEF Sample, Column, Finite
  <2> QED
    BY <1>4, <2>1
<1>6. SeriesShape
  BY <1>4, <1>5 DEF Init, SeriesShape, Validated
<1> QED
  BY <1>1, <1>2, <1>6 DEF SeriesInv

(* The trailing mean is computed as it is specified on its own.            *)
LEMMA SmoothingStep == SeriesInv /\ [Next]_vars => [SmoothingNext]_smoothing
<1> SUFFICES ASSUME SeriesInv, [Next]_vars PROVE [SmoothingNext]_smoothing
  OBVIOUS
<1>1. CASE SmoothSample
  <2>1. /\ Len(source) < Len(values) /\ Smooth(values[Len(source) + 1]) /\ status = "running"
    BY <1>1 DEF SmoothSample, Smooth
  <2>2. values \in Seq(Sample) /\ Len(source) \in Nat
    BY <2>1 DEF SeriesInv, SeriesShape, IInv, Shape
  <2>3. values[Len(source) + 1] \in Values \cup {NaN}
    BY <2>1, <2>2 DEF Sample
  <2> QED
    BY <2>1, <2>3 DEF SmoothingNext
<1>2. CASE SmoothedSeries
  BY <1>2 DEF SmoothedSeries, SmoothingNext
<1>3. CASE ~SmoothSample /\ ~SmoothedSeries
  BY <1>3 DEF Next, vars, New, SmoothMovingMean, AlignTo, ResampleUniform, Evaluate, Finish
<1> QED
  BY <1>1, <1>2, <1>3

(* A mean that is pushed is finite.                                        *)
LEMMA MeansStayFinite ==
  ASSUME SeriesInv, NEW v \in Sample, Smooth(v), IInv'
  PROVE  MeansFinite'
<1>1. /\ means \in Seq([sum : Int, count : Int] \cup {NaN})
      /\ sum' \in Finite \cup {Infinite} /\ finite_count' \in Int
  BY DEF SeriesInv, IInv, Shape
<1>2. PICK mean : mean = Mean(sum', finite_count')
  OBVIOUS
<1>3. mean = NaN \/ (mean.sum \in Finite /\ mean.count \in Nat \ {0})
  BY <1>1, <1>2 DEF Mean
<1>4. means' = Append(means, mean)
  BY <1>2 DEF Smooth
<1>5. PICK n \in Nat : n = Len(means)
  BY <1>1
<1>6. /\ Len(means') = n + 1 /\ means'[n + 1] = mean
      /\ \A i \in 1..n : means'[i] = means[i]
  BY <1>1, <1>4, <1>5
<1> QED
  BY <1>3, <1>5, <1>6 DEF MeansFinite, SeriesInv

(* A series without defect increases throughout.                           *)
LEMMA ValidIsAscending ==
  ASSUME timestamps \in Seq(Int \cup {NaN}), Len(timestamps) = Len(values),
         ~\E i \in DOMAIN timestamps : Invalid(i)
  PROVE  Ascending
<1> DEFINE n == Len(timestamps)
<1>1. n \in Nat /\ DOMAIN timestamps = 1..n
  OBVIOUS
<1>0. \A i \in 1..n : ~Invalid(i)
  BY <1>1
<1>2. \A i \in 1..n : timestamps[i] \in Int /\ timestamps[i] # NaN
  <2> SUFFICES ASSUME NEW i \in 1..n PROVE timestamps[i] \in Int /\ timestamps[i] # NaN
    OBVIOUS
  <2>1. timestamps[i] # NaN
    BY <1>0 DEF Invalid
  <2> QED
    BY <1>1, <2>1
<1>3. \A i \in 1..n : i > 1 => Number(timestamps[i - 1]) < Number(timestamps[i])
  <2> SUFFICES ASSUME NEW i \in 1..n, i > 1
               PROVE  Number(timestamps[i - 1]) < Number(timestamps[i])
    OBVIOUS
  <2>1. i - 1 \in 1..n
    BY <1>1
  <2> QED
    BY <1>0, <1>2, <2>1 DEF Invalid, Increasing
<1>4. \A i \in 1..n : Number(timestamps[i]) \in Int
  BY <1>2, NumberKeepsOrder
<1> DEFINE P(k) == \A i, j \in 1..n : i < j /\ j <= i + k =>
                     Number(timestamps[i]) < Number(timestamps[j])
           S == {k \in Nat : P(k)}
<1>5. 0 \in S
  BY <1>1
<1>6. \A k \in S : k + 1 \in S
  <2> SUFFICES ASSUME NEW k \in Nat, P(k) PROVE P(k + 1)
    <3> HIDE DEF P
    <3> QED
      OBVIOUS
  <2> SUFFICES ASSUME NEW i \in 1..n, NEW j \in 1..n, i < j, j <= i + (k + 1)
               PROVE  Number(timestamps[i]) < Number(timestamps[j])
    OBVIOUS
  <2>1. j - 1 \in 1..n /\ j > 1 /\ i <= j - 1 /\ j - 1 <= i + k
    BY <1>1
  <2>2. PICK a \in Int, b \in Int, c \in Int :
          /\ a = Number(timestamps[i]) /\ b = Number(timestamps[j - 1])
          /\ c = Number(timestamps[j])
    BY <1>4, <2>1
  <2>3. b < c
    BY <1>3, <2>1, <2>2
  <2>4. i = j - 1 \/ a < b
    <3>1. CASE i < j - 1
      BY <2>1, <2>2, <3>1
    <3> QED
      BY <2>1, <3>1
  <2> QED
    BY <2>2, <2>3, <2>4
<1>7. \A k \in Nat : k \in S
  <2>1. S \in SUBSET Nat
    OBVIOUS
  <2> HIDE DEF S
  <2> QED
    BY <1>5, <1>6, <2>1, InductionOverNat
<1>8. \A i, j \in 1..n : i < j => Number(timestamps[i]) < Number(timestamps[j])
  <2> SUFFICES ASSUME NEW i \in 1..n, NEW j \in 1..n, i < j
               PROVE  Number(timestamps[i]) < Number(timestamps[j])
    OBVIOUS
  <2>1. j \in S /\ j <= i + j
    BY <1>1, <1>7
  <2> QED
    BY <2>1
<1>9. timestamps \in Seq(Int)
  BY <1>1, <1>2
<1> QED
  BY <1>8, <1>9 DEF Ascending

(* Validation leaves timestamps that increase, as many as values. *)
LEMMA NewShapes ==
  ASSUME SeriesInv, New
  PROVE  SeriesShape'
<1>1. /\ UNCHANGED <<timestamps, values, request, grid, output, status>>
      /\ phase = "new" /\ phase' \in {"ready", "returned"}
  BY DEF New, Return, smoothing
<1>2. SeriesShape
  BY DEF SeriesInv
<1>3. phase' = "ready" => Ascending
  <2> SUFFICES ASSUME phase' = "ready" PROVE Ascending
    OBVIOUS
  <2>1. Len(timestamps) = Len(values) /\ ~\E i \in DOMAIN timestamps : Invalid(i)
    BY DEF New, Return
  <2> QED
    BY <1>2, <2>1, ValidIsAscending DEF SeriesShape
<1>4. Ascending' <=> Ascending
  BY <1>1 DEF Ascending
<1> QED
  BY <1>1, <1>2, <1>3, <1>4 DEF SeriesShape, Validated

(* Smoothing replaces values one for one. *)
LEMMA SmoothedShapes ==
  ASSUME SeriesInv, SmoothedSeries
  PROVE  SeriesShape'
<1>1. /\ UNCHANGED <<timestamps, request, grid, output>>
      /\ phase = "smooth" /\ phase' = "ready" /\ status' = "Ok" /\ Len(source) = Len(values)
      /\ values' = [i \in DOMAIN means |-> Quotient(means[i])]
  BY DEF SmoothedSeries, FinishSmoothing
<1>2. SeriesShape /\ MeansFinite /\ Shape
  BY DEF SeriesInv, IInv
<1>3. PICK n \in Nat : n = Len(values) /\ n = Len(means) /\ DOMAIN means = 1..n
  BY <1>1, <1>2 DEF Shape
<1>4. \A i \in 1..n : Quotient(means[i]) \in Column
  BY <1>2, <1>3, QuotientIsFinite DEF MeansFinite
<1>5. values' \in [1..n -> Column]
  BY <1>1, <1>3, <1>4
<1>6. values' \in Seq(Column) /\ Len(values') = n
  BY <1>5
<1>7. Ascending
  BY <1>1, <1>2 DEF SeriesShape, Validated
<1>8. Ascending'
  BY <1>1, <1>3, <1>6, <1>7 DEF Ascending
<1> QED
  BY <1>1, <1>2, <1>6, <1>8 DEF SeriesShape, Validated

(* Alignment begins with the queries as its grid and no output. *)
LEMMA AlignShapes ==
  ASSUME SeriesInv, NEW n \in 0..MaxQueries, NEW queries \in [1..n -> Queries], AlignTo(queries)
  PROVE  SeriesShape'
<1>1. /\ UNCHANGED <<timestamps, values, output, status>>
      /\ phase = "ready" /\ phase' = "align" /\ grid' = queries
  BY DEF AlignTo, smoothing
<1>2. SeriesShape
  BY DEF SeriesInv
<1>3. \A t \in Queries : t \in Int \cup {NaN}
  BY SeriesAssumption DEF IsTimestamp
<1>4. n \in Nat
  BY SeriesAssumption
<1>5. queries \in Seq(Int \cup {NaN}) /\ Len(queries) \in Nat
  <2>1. queries \in [1..n -> Int \cup {NaN}]
    BY <1>3
  <2> QED
    BY <1>4, <2>1
<1>6. output' = <<>> /\ Len(output') <= Len(grid')
  BY <1>1, <1>2, <1>5 DEF SeriesShape
<1>7. Ascending'
  BY <1>1, <1>2 DEF Ascending, SeriesShape, Validated
<1> QED
  BY <1>1, <1>2, <1>5, <1>6, <1>7 DEF SeriesShape, Validated

(* A valid request has numbers for ends and a positive interval.           *)
LEMMA RequestFacts ==
  ASSUME NEW r \in Requests, IsInterval(r[1], r[2], r[3])
  PROVE  \E start \in Int, length \in Nat, interval \in Nat \ {0} :
           /\ start = Number(r[1]) /\ Number(r[2]) = start + length
           /\ length = Number(r[2]) - Number(r[1]) /\ interval = r[3]
<1>1. r[1] \in Int /\ r[2] \in Int /\ r[3] \in Int
  BY SeriesAssumption DEF IsInterval, IsTimestamp
<1>2. Number(r[1]) \in Int /\ Number(r[2]) \in Int
  BY <1>1, NumberKeepsOrder
<1> QED
  BY <1>1, <1>2 DEF IsInterval

(* The grid's last point is less than an interval from the end, on either  *)
(* side, however the quotient rounds.                                      *)
LEMMA StepsFacts ==
  ASSUME NEW length \in Nat, NEW interval \in Nat \ {0}, NEW steps \in Steps(length, interval)
  PROVE  /\ steps \in Nat /\ steps * interval \in Nat
         /\ length - interval < steps * interval
         /\ steps * interval < length + interval
<1>1. /\ length \div interval \in Nat /\ length % interval \in 0..(interval - 1)
      /\ length = interval * (length \div interval) + (length % interval)
  BY DivMonotonic
<1>2. PICK whole \in Nat, rest \in 0..(interval - 1) :
        /\ whole = length \div interval /\ rest = length % interval
        /\ length = interval * whole + rest
  BY <1>1
<1>3. steps = whole \/ (steps = whole + 1 /\ interval - rest < interval)
  BY <1>2 DEF Steps
<1>4. PICK p \in Nat : p = whole * interval /\ length = p + rest
  <2>1. whole * interval \in Nat /\ interval * whole = whole * interval
    OBVIOUS
  <2> QED
    BY <1>2, <2>1
<1>5. CASE steps = whole
  BY <1>4, <1>5
<1>6. CASE steps = whole + 1 /\ interval - rest < interval
  <2>1. steps * interval = p + interval
    BY <1>4, <1>6, ProductStep
  <2> QED
    BY <1>4, <1>6, <2>1
<1> QED
  BY <1>3, <1>5, <1>6

\* The points of a grid.
GridOf(start, interval, steps) ==
  [i \in 1..(steps + 1) |-> Timestamp(start + (i - 1) * interval)]

(* They are a sequence of timestamps.                                      *)
LEMMA GridPoints ==
  ASSUME NEW start \in Int, NEW interval \in Nat, NEW steps \in Nat,
         NEW points, points = GridOf(start, interval, steps)
  PROVE  points \in Seq(Int) /\ Len(points) = steps + 1
<1>1. \A i \in 1..(steps + 1) : start + (i - 1) * interval \in Int
  OBVIOUS
<1>2. \A n \in Int : Timestamp(n) \in Int
  BY DEF Timestamp
<1>3. steps + 1 \in Nat /\ points \in [1..(steps + 1) -> Int]
  BY <1>1, <1>2 DEF GridOf
<1>4. PICK m \in Nat : m = steps + 1 /\ points \in [1..m -> Int]
  BY <1>3
<1>5. m \in Nat
  OBVIOUS
<1>6. points \in Seq(Int) /\ Len(points) = m
  BY ONLY <1>4, <1>5
<1> QED
  BY <1>4, <1>6

(* What resample_uniform begins: nothing, or the grid.                     *)
LEMMA ResampleBegins ==
  ASSUME NEW r \in Requests, ResampleUniform(r[1], r[2], r[3])
  PROVE  \/ /\ phase' = "returned" /\ grid' = grid
            /\ result' = Error("InvalidResamplingInterval")
         \/ /\ IsInterval(r[1], r[2], r[3])
            /\ \E steps \in Steps(Number(r[2]) - Number(r[1]), r[3]) :
                 /\ AtLimit(steps) /\ phase' = "returned" /\ grid' = grid
                 /\ result' = Error("OutputLimit")
         \/ /\ IsInterval(r[1], r[2], r[3])
            /\ \E steps \in Steps(Number(r[2]) - Number(r[1]), r[3]) :
                 /\ ~AtLimit(steps) /\ phase' = "resample" /\ result' = result
                 /\ grid' = [i \in 1..(steps + 1) |-> Timestamp(Number(r[1]) + (i - 1) * r[3])]
<1>1. CASE ~IsInterval(r[1], r[2], r[3])
  BY <1>1 DEF ResampleUniform, Return
<1>2. CASE IsInterval(r[1], r[2], r[3])
  <2>1. PICK steps \in Steps(Number(r[2]) - Number(r[1]), r[3]) :
          IF AtLimit(steps) THEN Return(Error("OutputLimit")) /\ UNCHANGED grid
          ELSE /\ grid' = [i \in 1..(steps + 1) |-> Timestamp(Number(r[1]) + (i - 1) * r[3])]
               /\ phase' = "resample"
               /\ UNCHANGED result
    BY <1>2, Zenon DEF ResampleUniform
  <2>2. CASE AtLimit(steps)
    <3>1. phase' = "returned" /\ grid' = grid /\ result' = Error("OutputLimit")
      BY <2>1, <2>2 DEF Return
    <3> QED
      BY <1>2, <2>2, <3>1
  <2>3. CASE ~AtLimit(steps)
    <3>1. /\ phase' = "resample" /\ result' = result
          /\ grid' = [i \in 1..(steps + 1) |-> Timestamp(Number(r[1]) + (i - 1) * r[3])]
      BY <2>1, <2>3
    <3> QED
      BY <1>2, <2>3, <3>1, Zenon
  <2> QED
    BY <2>2, <2>3
<1> QED
  BY <1>1, <1>2

(* Resampling begins with the grid it computed and no output. *)
LEMMA ResampleShapes ==
  ASSUME SeriesInv, NEW r \in Requests, ResampleUniform(r[1], r[2], r[3])
  PROVE  SeriesShape'
<1>1. UNCHANGED <<timestamps, values, output, status>> /\ phase = "ready"
  BY DEF ResampleUniform, smoothing
<1>2. SeriesShape
  BY DEF SeriesInv
<1>3. Ascending'
  BY <1>1, <1>2 DEF Ascending, SeriesShape, Validated
<1>4. phase' \in {"resample", "returned"} /\ grid' \in Seq(Int \cup {NaN})
  <2>1. CASE phase' = "returned" /\ grid' = grid
    BY <1>2, <2>1 DEF SeriesShape
  <2>2. CASE /\ IsInterval(r[1], r[2], r[3]) /\ phase' = "resample"
             /\ \E steps \in Steps(Number(r[2]) - Number(r[1]), r[3]) :
                  grid' = [i \in 1..(steps + 1) |-> Timestamp(Number(r[1]) + (i - 1) * r[3])]
    <3>1. PICK start \in Int, length \in Nat, interval \in Nat \ {0} :
            /\ start = Number(r[1]) /\ Number(r[2]) = start + length
            /\ length = Number(r[2]) - Number(r[1]) /\ interval = r[3]
      BY <2>2, RequestFacts
    <3>2. PICK steps \in Steps(length, interval) :
            grid' = [i \in 1..(steps + 1) |-> Timestamp(start + (i - 1) * interval)]
      BY <2>2, <3>1
    <3>3. steps \in Nat
      BY StepsFacts
    <3>4. PICK points : points = GridOf(start, interval, steps)
      OBVIOUS
    <3>5. points \in Seq(Int)
      BY <3>3, <3>4, GridPoints
    <3>6. points \in Seq(Int \cup {NaN})
      BY <3>5
    <3>7. grid' = points
      BY <3>2, <3>4 DEF GridOf
    <3> QED
      BY <2>2, <3>6, <3>7
  <2> QED
    BY <2>1, <2>2, ResampleBegins
<1>5. output' = <<>> /\ Len(output') <= Len(grid')
  BY <1>1, <1>2, <1>4 DEF SeriesShape
<1> QED
  BY <1>1, <1>2, <1>3, <1>4, <1>5 DEF SeriesShape, Validated

(* What one iteration pushes.                                              *)
LEMMA EvaluatePushes ==
  ASSUME SeriesInv, Evaluate
  PROVE  \/ UNCHANGED <<timestamps, values, grid, output, status>> /\ phase' = "returned"
         \/ /\ UNCHANGED <<timestamps, values, request, grid, phase, result, status>>
            /\ \E n \in Nat, t \in Int :
                 /\ n = Len(output) /\ n < Len(grid) /\ t = grid[n + 1]
                 /\ output' = Append(output, Interpolate(t))
<1>1. SeriesShape
  BY DEF SeriesInv
<1>2. PICK n \in Nat : n = Len(output) /\ n < Len(grid)
  BY <1>1 DEF SeriesShape, Evaluate
<1>3. grid[n + 1] \in Int \cup {NaN}
  BY <1>1, <1>2 DEF SeriesShape
<1>4. CASE grid[n + 1] = NaN
  BY <1>2, <1>4 DEF Evaluate, Return, smoothing
<1>5. CASE grid[n + 1] # NaN
  <2>1. output' = Append(output, Interpolate(grid[n + 1]))
    BY <1>2, <1>5 DEF Evaluate
  <2>2. UNCHANGED <<timestamps, values, request, grid, phase, result, status>>
    BY <1>2, <1>5 DEF Evaluate, smoothing
  <2> QED
    BY <1>2, <1>3, <1>5, <2>1, <2>2
<1> QED
  BY <1>4, <1>5

(* An evaluation appends one output for one grid point. *)
LEMMA EvaluateShapes ==
  ASSUME SeriesInv, Evaluate
  PROVE  SeriesShape'
<1>1. SeriesShape /\ Ascending /\ phase \in {"align", "resample"}
  BY DEF SeriesInv, SeriesShape, Evaluate, Validated
<1>2. Ascending' <=> Ascending
  BY DEF Ascending, Evaluate
<1>3. CASE UNCHANGED <<timestamps, values, grid, output, status>> /\ phase' = "returned"
  BY <1>1, <1>3 DEF SeriesShape, Validated
<1>4. CASE /\ UNCHANGED <<timestamps, values, request, grid, phase, result, status>>
           /\ \E n \in Nat, t \in Int :
                /\ n = Len(output) /\ n < Len(grid) /\ t = grid[n + 1]
                /\ output' = Append(output, Interpolate(t))
  <2>1. PICK n \in Nat, t \in Int :
                /\ n = Len(output) /\ n < Len(grid) /\ t = grid[n + 1]
                /\ output' = Append(output, Interpolate(t))
    BY <1>4
  <2>2. Interpolate(t) \in Finite \cup {None}
    BY <1>1, InterpolateFollows DEF SeriesShape
  <2>3. output' \in Seq(Finite \cup {None}) /\ Len(output') = n + 1
    BY <1>1, <2>1, <2>2 DEF SeriesShape
  <2>4. Len(grid) \in Nat
    BY <1>1 DEF SeriesShape
  <2>5. Len(output') <= Len(grid')
    BY <1>4, <2>1, <2>3, <2>4
  <2> QED
    BY <1>1, <1>2, <1>4, <2>3, <2>5 DEF SeriesShape, Validated
<1> QED
  BY <1>3, <1>4, EvaluatePushes

(* Every step keeps SeriesInv. *)
LEMMA SeriesGoesOn == SeriesInv /\ [Next]_vars => SeriesInv'
<1> SUFFICES ASSUME SeriesInv, [Next]_vars PROVE SeriesInv'
  OBVIOUS
<1>1. [SmoothingNext]_smoothing /\ IInv'
  BY SmoothingStep, SmoothingGoesOn DEF SeriesInv
<1>2. SeriesShape /\ MeansFinite
  BY DEF SeriesInv
<1>3. CASE SmoothSample
  <2>1. /\ Len(source) < Len(values) /\ Smooth(values[Len(source) + 1])
        /\ UNCHANGED <<timestamps, values, phase, grid, output, status>> /\ status = "running"
    BY <1>3 DEF SmoothSample, Smooth, own
  <2>2. values[Len(source) + 1] \in Sample
    BY <1>2, <2>1 DEF SeriesShape, SeriesInv, IInv, Shape
  <2>3. MeansFinite'
    BY <1>1, <2>1, <2>2, MeansStayFinite
  <2>4. SeriesShape'
    BY <1>2, <2>1 DEF SeriesShape, Ascending
  <2> QED
    BY <1>1, <2>3, <2>4 DEF SeriesInv
<1>4. ASSUME ~SmoothSample PROVE MeansFinite'
  <2>1. means' = means
    BY <1>4 DEF Next, vars, smoothing, New, SmoothMovingMean, SmoothedSeries, FinishSmoothing,
                AlignTo, ResampleUniform, Evaluate, Finish
  <2> QED
    BY <1>2, <2>1 DEF MeansFinite
<1>5. CASE SmoothMovingMean
  <2>1. /\ UNCHANGED <<timestamps, values, grid, output, status>>
        /\ phase = "ready" /\ phase' \in {"smooth", "returned"}
    BY <1>5 DEF SmoothMovingMean, Return, smoothing
  <2> QED
    BY <1>1, <1>2, <1>4, <2>1 DEF SeriesInv, SeriesShape, Ascending, Validated, SmoothMovingMean, SmoothSample
<1>6. CASE Finish
  <2>1. /\ UNCHANGED <<timestamps, values, grid, output, status>> /\ phase' = "returned"
    BY <1>6 DEF Finish, Return, smoothing
  <2>2. SeriesShape' /\ ~SmoothSample
    BY <1>2, <1>6, <2>1 DEF SeriesShape, Validated, SmoothSample, Finish
  <2> QED
    BY <1>1, <1>4, <2>2 DEF SeriesInv
<1>7. CASE UNCHANGED vars
  <2>1. UNCHANGED <<timestamps, values, grid, output, status, phase, means>>
    BY <1>7 DEF vars, own, smoothing
  <2> QED
    BY <1>1, <1>2, <2>1 DEF SeriesInv, SeriesShape, Ascending, MeansFinite
<1>8. ASSUME SeriesShape', ~SmoothSample PROVE SeriesInv'
  BY <1>1, <1>4, <1>8 DEF SeriesInv
<1>9. CASE New
  BY <1>8, <1>9, NewShapes DEF New, SmoothSample
<1>10. CASE SmoothedSeries
  <2>1. ~SmoothSample
    BY <1>10 DEF SmoothSample, SmoothedSeries, own
  <2> QED
    BY <1>8, <1>10, <2>1, SmoothedShapes
<1>11. ASSUME NEW n \in 0..MaxQueries, NEW queries \in [1..n -> Queries], AlignTo(queries)
       PROVE  SeriesInv'
  BY <1>8, <1>11, AlignShapes DEF AlignTo, SmoothSample
<1>12. ASSUME NEW r \in Requests, ResampleUniform(r[1], r[2], r[3])
       PROVE  SeriesInv'
  BY <1>8, <1>12, ResampleShapes DEF ResampleUniform, SmoothSample
<1>13. CASE Evaluate
  BY <1>8, <1>13, EvaluateShapes DEF Evaluate, SmoothSample
<1> QED
  BY <1>3, <1>5, <1>6, <1>7, <1>9, <1>10, <1>11, <1>12, <1>13 DEF Next

(* SeriesInv holds throughout. *)
LEMMA SeriesInvariant == Spec => []SeriesInv
BY SeriesBegins, SeriesGoesOn, PTL DEF Spec

(* No value is pushed that the samples around it do not support.           *)
LEMMA OutputGoesOn ==
  SeriesInv /\ OutputFollowsSamples /\ [Next]_vars => OutputFollowsSamples'
<1> SUFFICES ASSUME SeriesInv, OutputFollowsSamples, [Next]_vars
             PROVE  \A k \in DOMAIN output' : SignsAgree(grid[k])' => Follows(grid[k], output[k])'
  BY DEF OutputFollowsSamples, Follows
<1>1. SeriesShape /\ \A k \in DOMAIN output : SignsAgree(grid[k]) => Follows(grid[k], output[k])
  BY DEF SeriesInv, OutputFollowsSamples, Follows
<1>2. CASE UNCHANGED <<timestamps, values, grid, output>>
  BY <1>1, <1>2 DEF SignsAgree, Follows, Before, After
<1>3. CASE output' = <<>>
  BY <1>3
<1>4. CASE Evaluate
  <2>1. CASE UNCHANGED <<timestamps, values, grid, output>>
    BY <1>2, <2>1
  <2>2. CASE /\ UNCHANGED <<timestamps, values, grid>>
             /\ \E n \in Nat, t \in Int :
                  /\ n = Len(output) /\ n < Len(grid) /\ t = grid[n + 1]
                  /\ output' = Append(output, Interpolate(t))
    <3>1. PICK n \in Nat, t \in Int :
                /\ n = Len(output) /\ n < Len(grid) /\ t = grid[n + 1]
                /\ output' = Append(output, Interpolate(t))
      BY <2>2
    <3>2. Ascending /\ values \in Seq(Column)
      BY <1>1, <1>4 DEF SeriesShape, Validated, Evaluate
    <3>3. SignsAgree(t) => Follows(t, Interpolate(t))
      BY <3>2, InterpolateFollows
    <3>4. Interpolate(t) \in Finite \cup {None}
      BY <3>2, InterpolateFollows
    <3>5. /\ DOMAIN output' = 1..(n + 1) /\ DOMAIN output = 1..n
          /\ output'[n + 1] = Interpolate(t)
          /\ \A k \in 1..n : output'[k] = output[k]
      BY <1>1, <3>1, <3>4 DEF SeriesShape
    <3>6. /\ \A k : SignsAgree(grid[k])' <=> SignsAgree(grid[k])
          /\ \A k : Follows(grid[k], output[k])' <=> Follows(grid[k], output'[k])
      BY <2>2 DEF SignsAgree, Follows, Before, After
    <3>7. ASSUME NEW k \in 1..(n + 1), SignsAgree(grid[k])
          PROVE  Follows(grid[k], output'[k])
      <4>1. CASE k = n + 1
        BY <3>1, <3>3, <3>5, <3>7, <4>1
      <4>2. CASE k \in 1..n
        BY <1>1, <3>5, <3>7, <4>2
      <4> QED
        BY <4>1, <4>2
    <3> QED
      BY <3>5, <3>6, <3>7
  <2> QED
    BY <2>1, <2>2, <1>4, EvaluatePushes
<1>5. CASE New \/ SmoothMovingMean \/ SmoothSample \/ SmoothedSeries
  <2>1. output' = output /\ phase \in {"new", "ready", "smooth"}
    BY <1>5 DEF New, SmoothMovingMean, SmoothSample, SmoothedSeries, own
  <2> QED
    BY <1>1, <1>3, <2>1 DEF SeriesShape
<1>6. ASSUME NEW queries, AlignTo(queries) PROVE output' = <<>>
  BY <1>1, <1>6 DEF AlignTo, SeriesShape
<1>7. ASSUME NEW r, ResampleUniform(r[1], r[2], r[3]) PROVE output' = <<>>
  BY <1>1, <1>7 DEF ResampleUniform, SeriesShape
<1>8. CASE Finish \/ UNCHANGED vars
  BY <1>2, <1>8 DEF Finish, vars, own
<1> QED
  BY <1>3, <1>4, <1>5, <1>6, <1>7, <1>8 DEF Next

(* A grid and the error for a grid that is too long speak of the request   *)
(* in progress: no result is there before the call returns.                *)
GridInv == GridCoversRange /\ (phase # "returned" => result = None)

(* There is no grid at the call. *)
LEMMA GridBegins == Init => GridInv
BY SeriesAssumption DEF Init, GridInv, GridCoversRange, Error

(* A step that leaves request and grid alone and starts no resampling keeps GridInv. *)
LEMMA GridStays ==
  ASSUME GridInv, UNCHANGED <<request, grid>>,
         phase' = "resample" => phase = "resample",
         result' = result \/ result' # Error("OutputLimit"),
         phase' # "returned" => phase # "returned" /\ result' = result
  PROVE  GridInv'
BY DEF GridInv, GridCoversRange

(* The grid a resampling computes covers the requested range, or is refused for its length alone. *)
LEMMA ResampleCovers ==
  ASSUME SeriesInv, GridInv, NEW r \in Requests, ResampleUniform(r[1], r[2], r[3])
  PROVE  GridInv'
<1>1. request' = <<r[1], r[2], r[3]>> /\ phase = "ready" /\ result = None
  BY DEF ResampleUniform, GridInv
<1>2. PICK req : req = request'
  OBVIOUS
<1>3. req[1] = r[1] /\ req[2] = r[2] /\ req[3] = r[3]
  BY <1>1, <1>2
<1>4. None # Error("OutputLimit") /\ Error("InvalidResamplingInterval") # Error("OutputLimit")
  BY SeriesAssumption DEF Error
<1>5. CASE phase' = "returned" /\ result' = Error("InvalidResamplingInterval")
  BY <1>4, <1>5 DEF GridInv, GridCoversRange
<1>6. CASE /\ IsInterval(r[1], r[2], r[3])
           /\ \E steps \in Steps(Number(r[2]) - Number(r[1]), r[3]) :
                AtLimit(steps) /\ phase' = "returned" /\ result' = Error("OutputLimit")
  <2>1. PICK start \in Int, length \in Nat, interval \in Nat \ {0} :
          /\ start = Number(r[1]) /\ Number(r[2]) = start + length
          /\ length = Number(r[2]) - Number(r[1]) /\ interval = r[3]
    BY <1>6, RequestFacts
  <2>2. PICK steps \in Steps(length, interval) : AtLimit(steps)
    BY <1>6, <2>1
  <2>3. PICK s \in Nat, limit \in Nat, covered \in Nat :
          /\ s = steps /\ limit = SampleLimit /\ limit <= s
          /\ covered = s * interval /\ covered < length + interval
    BY <2>2, StepsFacts, SeriesAssumption DEF AtLimit
  <2>4. limit * interval <= covered /\ limit * interval \in Nat
    BY <2>3, ScaleKeepsOrder
  <2>5. start + limit * interval < (start + length) + interval
    BY <2>3, <2>4
  <2>6. Number(req[1]) + SampleLimit * req[3] < Number(req[2]) + req[3]
    BY <1>3, <2>1, <2>3, <2>5
  <2> QED
    BY <1>2, <1>6, <2>6 DEF GridInv, GridCoversRange
<1>7. CASE /\ IsInterval(r[1], r[2], r[3])
           /\ \E steps \in Steps(Number(r[2]) - Number(r[1]), r[3]) :
                /\ ~AtLimit(steps) /\ phase' = "resample" /\ result' = result
                /\ grid' = [i \in 1..(steps + 1) |-> Timestamp(Number(r[1]) + (i - 1) * r[3])]
  <2>1. PICK start \in Int, length \in Nat, interval \in Nat \ {0} :
          /\ start = Number(r[1]) /\ Number(r[2]) = start + length
          /\ length = Number(r[2]) - Number(r[1]) /\ interval = r[3]
    BY <1>7, RequestFacts
  <2>2. PICK steps \in Steps(length, interval) :
          /\ ~AtLimit(steps)
          /\ grid' = [i \in 1..(steps + 1) |-> Timestamp(start + (i - 1) * interval)]
    BY <1>7, <2>1
  <2>3. PICK s \in Nat, limit \in Nat, covered \in Nat :
          /\ s = steps /\ limit = SampleLimit /\ s < limit
          /\ covered = s * interval
          /\ length - interval < covered /\ covered < length + interval
    <3>1. /\ steps \in Nat /\ steps * interval \in Nat
          /\ length - interval < steps * interval /\ steps * interval < length + interval
      BY StepsFacts
    <3>2. SampleLimit \in Nat /\ steps < SampleLimit
      BY <2>2, <3>1, SeriesAssumption DEF AtLimit
    <3> QED
      BY <3>1, <3>2
  <2>4. PICK points : points = GridOf(start, interval, s)
    OBVIOUS
  <2>5. points = grid'
    BY <2>2, <2>3, <2>4 DEF GridOf
  <2>6. /\ points \in Seq(Int) /\ Len(points) = s + 1
        /\ \A i \in 1..(s + 1) : Number(points[i]) = start + (i - 1) * interval
    <3>1. start \in Int /\ interval \in Nat /\ s \in Nat
      BY <2>1, <2>3
    <3>2. points \in Seq(Int) /\ Len(points) = s + 1
      BY <2>4, <3>1, GridPoints
    <3>3. ASSUME NEW i \in 1..(s + 1)
          PROVE  Number(points[i]) = start + (i - 1) * interval
      <4>1. points[i] = Timestamp(start + (i - 1) * interval)
        BY <2>4, <3>1 DEF GridOf
      <4>2. PICK m \in Int : m = start + (i - 1) * interval
        BY <3>1
      <4>3. Number(Timestamp(m)) = m
        BY DEF Timestamp, Number
      <4> QED
        BY <4>1, <4>2, <4>3
    <3> QED
      BY <3>2, <3>3
  <2>7. DOMAIN points = 1..(s + 1) /\ Len(points) \in 1..SampleLimit
    BY <2>3, <2>6
  <2>8. Number(points[Len(points)]) = start + covered
    <3>1. s + 1 \in 1..(s + 1) /\ (s + 1) - 1 = s
      OBVIOUS
    <3>2. Number(points[s + 1]) = start + ((s + 1) - 1) * interval
      BY <2>6, <3>1
    <3> QED
      BY <2>3, <2>6, <3>1, <3>2
  <2>9. /\ (start + length) - interval < start + covered
        /\ start + covered < (start + length) + interval
    BY <2>3
  <2>10. /\ Len(points) \in 1..SampleLimit
         /\ \A i \in DOMAIN points : Number(points[i]) = Number(req[1]) + (i - 1) * req[3]
         /\ Number(req[2]) - req[3] < Number(points[Len(points)])
         /\ Number(points[Len(points)]) < Number(req[2]) + req[3]
    BY <1>3, <2>1, <2>6, <2>7, <2>8, <2>9
  <2>11. result' = None /\ phase' = "resample"
    BY <1>1, <1>7
  <2> QED
    BY <1>2, <1>4, <2>5, <2>10, <2>11 DEF GridInv, GridCoversRange
<1> QED
  BY <1>5, <1>6, <1>7, ResampleBegins

(* Every step keeps GridInv. *)
LEMMA GridGoesOn == SeriesInv /\ GridInv /\ [Next]_vars => GridInv'
<1> SUFFICES ASSUME SeriesInv, GridInv, [Next]_vars PROVE GridInv'
  OBVIOUS
<1>1. CASE New
  <2>1. \A tag \in {"MismatchedLengths", "InvalidTimestamp", "NonMonotonicTimestamp"} :
          Error(tag) # Error("OutputLimit")
    BY DEF Error
  <2>2. /\ UNCHANGED <<request, grid>> /\ phase = "new" /\ phase' \in {"ready", "returned"}
        /\ \/ result' = result
           \/ \E tag \in {"MismatchedLengths", "InvalidTimestamp", "NonMonotonicTimestamp"} :
                result' = Error(tag)
        /\ phase' = "ready" => result' = result
    BY <1>1 DEF New, Return
  <2> QED
    BY <2>1, <2>2, GridStays
<1>2. CASE SmoothMovingMean
  <2>1. /\ UNCHANGED <<request, grid>> /\ phase = "ready" /\ phase' \in {"smooth", "returned"}
        /\ result' = result \/ result' = Error("InvalidSmoothingWindow")
        /\ phase' = "smooth" => result' = result
    BY <1>2 DEF SmoothMovingMean, Return
  <2>2. Error("InvalidSmoothingWindow") # Error("OutputLimit")
    BY DEF Error
  <2> QED
    BY <2>1, <2>2, GridStays
<1>3. CASE SmoothSample \/ UNCHANGED vars
  <2>1. UNCHANGED <<request, grid, phase, result>>
    BY <1>3 DEF SmoothSample, vars, own
  <2> QED
    BY <2>1, GridStays
<1>4. CASE SmoothedSeries
  <2>1. UNCHANGED <<request, grid, result>> /\ phase = "smooth" /\ phase' = "ready"
    BY <1>4 DEF SmoothedSeries
  <2> QED
    BY <2>1, GridStays
<1>5. ASSUME NEW queries, AlignTo(queries) PROVE GridInv'
  <2>1. phase = "ready" /\ phase' = "align" /\ result' = result
    BY <1>5 DEF AlignTo
  <2>2. result' = None /\ None # Error("OutputLimit")
    BY <2>1, SeriesAssumption DEF GridInv
  <2> QED
    BY <2>1, <2>2 DEF GridInv, GridCoversRange
<1>6. CASE Evaluate
  <2>1. /\ UNCHANGED <<request, grid>> /\ phase \in {"align", "resample"}
        /\ \/ UNCHANGED <<phase, result>>
           \/ phase' = "returned" /\ result' = Error("InvalidQueryTimestamp")
    BY <1>6 DEF Evaluate, Return
  <2>2. Error("InvalidQueryTimestamp") # Error("OutputLimit")
    BY DEF Error
  <2> QED
    BY <2>1, <2>2, GridStays
<1>7. CASE Finish
  <2>1. UNCHANGED <<request, grid>> /\ phase' = "returned" /\ result' = Ok
    BY <1>7 DEF Finish, Return
  <2>2. Ok # Error("OutputLimit")
    BY SeriesAssumption DEF Ok, Error
  <2> QED
    BY <2>1, <2>2, GridStays
<1> QED
  BY <1>1, <1>2, <1>3, <1>4, <1>5, <1>6, <1>7, ResampleCovers DEF Next

-----------------------------------------------------------------------------
(* A TimeSeries that was validated stays one, smoothed or not: increasing, *)
(* with a value for each timestamp; no more is pushed than was asked for.  *)
THEOREM SeriesTypeCorrect == Spec => []TypeOK
<1>1. SeriesInv => TypeOK
  <2> SUFFICES ASSUME SeriesInv PROVE TypeOK
    OBVIOUS
  <2>1. SmoothingTypeOK /\ SeriesShape
    BY SmoothingTypes DEF SeriesInv
  <2>2. ASSUME phase \in Validated
        PROVE  /\ Len(timestamps) = Len(values)
               /\ \A i, j \in DOMAIN timestamps : i < j => timestamps[i] < timestamps[j]
    <3>1. Ascending
      BY <2>1, <2>2 DEF SeriesShape
    <3>2. DOMAIN timestamps = 1..Len(timestamps) /\ Len(timestamps) = Len(values)
      BY <3>1 DEF Ascending
    <3>3. ASSUME NEW i \in 1..Len(timestamps), NEW j \in 1..Len(timestamps), i < j
          PROVE  timestamps[i] < timestamps[j]
      <4>1. /\ timestamps[i] \in Int /\ timestamps[j] \in Int
            /\ Number(timestamps[i]) < Number(timestamps[j])
        BY <3>1, <3>3 DEF Ascending
      <4> QED
        BY <4>1, NumberKeepsOrder
    <3> QED
      BY <3>2, <3>3
  <2> QED
    BY <2>1, <2>2 DEF TypeOK, SeriesShape, Validated
<1> QED
  BY <1>1, SeriesInvariant, PTL

(* A series is smoothed as `Smoothing` specifies, whatever is done with it *)
(* before and after.                                                       *)
THEOREM SeriesSmooths == Spec => SmoothingSpec
<1>1. Init => SmoothingInit
  BY DEF Init
<1> QED
  BY <1>1, SmoothingStep, SeriesInvariant, PTL DEF Spec, SmoothingSpec

(* The means a series is smoothed to are those of its windows.             *)
THEOREM SeriesMeansAreWindowMeans == Spec => []MeansMatchWindow
BY SeriesSmooths, MeansAreWindowMeans, PTL

(* interpolate, align_to and resample_uniform invent no value: neither     *)
(* outside the recorded range nor across a missing sample, for any series, *)
(* smoothed or not, and any timestamps.                                    *)
THEOREM OutputsFollowSamples == Spec => []OutputFollowsSamples
<1>1. Init => OutputFollowsSamples
  BY DEF Init, OutputFollowsSamples
<1> QED
  BY <1>1, OutputGoesOn, SeriesInvariant, PTL DEF Spec

(* resample_uniform: a grid starts at the start, is uniform and ends less  *)
(* than an interval from the end, however its length was rounded; only a   *)
(* grid that is longer than the limit is refused as such.                  *)
THEOREM GridsCoverRange == Spec => []GridCoversRange
<1>1. GridInv => GridCoversRange
  BY DEF GridInv
<1> QED
  BY <1>1, GridBegins, GridGoesOn, SeriesInvariant, PTL DEF Spec
=============================================================================
