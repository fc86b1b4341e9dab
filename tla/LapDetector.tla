----------------------------- MODULE LapDetector -----------------------------
(***************************************************************************)
(* `detect_laps` (src/analysis.rs): the pass over consecutive samples that *)
(* turns gate crossings into laps and sector times.                        *)
(*                                                                         *)
(* Gate 0 is the start/finish line and gate s the s-th sector gate, which  *)
(* is the order of `event_order`.  A sample is its time and the sign of    *)
(* its side of each gate.  Of the geometry, what the pass uses is kept:    *)
(* which gates a pair of samples crosses and at which of K + 1 fractions   *)
(* of the way.  Any fraction can occur with any signs, 0 and 1 included:   *)
(* the code's quotient rounds to them next to a gate.  Times are integers  *)
(* and interpolation rounds down, so distinct fractions may share a time.  *)
(***************************************************************************)
EXTENDS Integers, Sequences, FiniteSets, FiniteSetsExt

CONSTANTS
  N,           \* number of sector gates
  Direction,   \* the GateDirection of each gate
  Sides,       \* bound: the sides a sample may lie on
  K,           \* bound: fractions are multiples of 1/K
  MaxStep,     \* bound: the longest time between two samples
  MaxPairs,    \* bound: the number of pairs of a trace
  NoTime

Gate == 0..N
Sector == 1..N
Side == {-1, 0, 1}      \* right of the directed gate, on its line, left of it
GateDirection == {"Either", "NegativeToPositive", "PositiveToNegative"}

ASSUME LapAssumption ==
  /\ N \in Nat
  /\ Direction \in [Gate -> GateDirection]
  /\ Sides \subseteq Side
  /\ K \in Nat \ {0}
  /\ MaxStep \in Nat /\ MaxPairs \in Nat
  /\ NoTime \notin Int

VARIABLES
  before,            \* time of the pair's first sample
  after,             \* time of its second sample
  side,              \* the second sample's side of each gate
  events,            \* the pair's crossings not handled yet
  lap_start,         \* NoTime before the line was crossed
  sector_crossings,
  next_sector,       \* zero-based, as in the code
  laps,
  pairs,             \* pairs begun
  seen               \* history: the crossings handled

detector == <<before, after, side, events, lap_start, sector_crossings, next_sector, laps, pairs, seen>>

Event == [gate : Gate, fraction : 0..K]

NoCrossings == [s \in Sector |-> NoTime]

LapInit ==
  /\ before = 0 /\ after = 0
  /\ side \in [Gate -> Sides]
  /\ events = {}
  /\ lap_start = NoTime
  /\ sector_crossings = NoCrossings
  /\ next_sector = 0
  /\ laps = <<>>
  /\ pairs = 0
  /\ seen = <<>>

-----------------------------------------------------------------------------
\* Mutant: every gate is crossed both ways.
AnyDirection(from, to, direction) == direction \in GateDirection

MatchesDirection(from, to, direction) ==
  \/ direction = "Either"
  \/ direction = "NegativeToPositive" /\ from < 0 /\ to > 0
  \/ direction = "PositiveToNegative" /\ from > 0 /\ to < 0

\* Strictly opposite sides; whether the path meets the finite segment is open.
MayCross(from, to, g) ==
  /\ (from < 0 /\ to > 0) \/ (from > 0 /\ to < 0)
  /\ MatchesDirection(from, to, Direction[g])

\* The samples of a validated trace have strictly increasing times.
NextPair(step, new_side) ==
  /\ events = {} /\ pairs < MaxPairs
  /\ step > 0
  /\ \E crossed \in SUBSET {g \in Gate : MayCross(side[g], new_side[g], g)} :
       \E fraction \in [crossed -> 0..K] :
         events' = {[gate |-> g, fraction |-> fraction[g]] : g \in crossed}
  /\ before' = after
  /\ after' = after + step
  /\ side' = new_side
  /\ pairs' = pairs + 1
  /\ UNCHANGED <<lap_start, sector_crossings, next_sector, laps, seen>>

\* `sort_by` fraction, then `event_order`.
IsNext(e) ==
  \A o \in events : e.fraction < o.fraction \/ (e.fraction = o.fraction /\ e.gate <= o.gate)

InterpolateTime(fraction) == before + ((after - before) * fraction) \div K

Handle(e) ==
  /\ IsNext(e)
  /\ events' = events \ {e}
  /\ seen' = Append(seen, [gate |-> e.gate, time |-> InterpolateTime(e.fraction)])
  /\ UNCHANGED <<before, after, side, pairs>>

\* Mutant: a sector is always measured from the lap's start.
LapStartAsPrevious(start, s) == start

\* The boundary before sector s: the last gate crossed in order, or the line.
Previous(start, s) ==
  LET crossed == {j \in 1..(s - 1) : sector_crossings[j] # NoTime}
  IN  IF crossed = {} THEN start ELSE sector_crossings[Max(crossed)]

BuildLap(start, finish) ==
  [started |-> start, finished |-> finish,
   sectors |-> [s \in Sector |->
     IF sector_crossings[s] = NoTime THEN [elapsed |-> NoTime, duration |-> NoTime]
     ELSE [elapsed  |-> sector_crossings[s] - start,
           duration |-> sector_crossings[s] - Previous(start, s)]]]

\* Mutant: the sectors of the lap before stay crossed.
OpenLapKeepingSectors(start) ==
  /\ lap_start' = start
  /\ next_sector' = 0
  /\ UNCHANGED sector_crossings

OpenLap(start) ==
  /\ lap_start' = start
  /\ sector_crossings' = NoCrossings
  /\ next_sector' = 0

FirstLineCrossing(e) ==
  /\ e.gate = 0 /\ lap_start = NoTime
  /\ Handle(e)
  /\ OpenLap(InterpolateTime(e.fraction))
  /\ UNCHANGED laps

\* Mutant: a lap may take no time.
CompleteAnyLap(e) ==
  /\ e.gate = 0 /\ lap_start # NoTime
  /\ Handle(e)
  /\ laps' = Append(laps, BuildLap(lap_start, InterpolateTime(e.fraction)))
  /\ OpenLap(InterpolateTime(e.fraction))

CompleteLap(e) ==
  /\ e.gate = 0 /\ lap_start # NoTime
  /\ InterpolateTime(e.fraction) > lap_start
  /\ Handle(e)
  /\ laps' = Append(laps, BuildLap(lap_start, InterpolateTime(e.fraction)))
  /\ OpenLap(InterpolateTime(e.fraction))

\* Two crossings at one time: the lap is dropped.
RestartLap(e) ==
  /\ e.gate = 0 /\ lap_start # NoTime
  /\ ~(InterpolateTime(e.fraction) > lap_start)
  /\ Handle(e)
  /\ OpenLap(InterpolateTime(e.fraction))
  /\ UNCHANGED laps

CrossSector(e) ==
  /\ e.gate # 0
  /\ lap_start # NoTime /\ e.gate - 1 = next_sector
  /\ Handle(e)
  /\ sector_crossings' = [sector_crossings EXCEPT ![e.gate] = InterpolateTime(e.fraction)]
  /\ next_sector' = next_sector + 1
  /\ UNCHANGED <<lap_start, laps>>

IgnoreSector(e) ==
  /\ e.gate # 0
  /\ ~(lap_start # NoTime /\ e.gate - 1 = next_sector)
  /\ Handle(e)
  /\ UNCHANGED <<lap_start, sector_crossings, next_sector, laps>>

HandleEvent(e) ==
  \/ FirstLineCrossing(e)
  \/ CompleteLap(e)
  \/ RestartLap(e)
  \/ CrossSector(e)
  \/ IgnoreSector(e)

LapNext ==
  \/ \E step \in 1..MaxStep : \E new_side \in [Gate -> Sides] : NextPair(step, new_side)
  \/ \E e \in events : HandleEvent(e)

LapSpec == LapInit /\ [][LapNext]_detector

-----------------------------------------------------------------------------
TimeIfAny == Int \cup {NoTime}
SectorTime == [elapsed : TimeIfAny, duration : TimeIfAny]
Lap == [started : Int, finished : Int, sectors : [Sector -> SectorTime]]

(* The pass keeps its types: sectors are crossed in turn, so next_sector   *)
(* counts at most all of them, and every time is a crossing's or absent.   *)
LapTypeOK ==
  /\ before \in Nat /\ after \in Nat
  /\ side \in [Gate -> Side]
  /\ events \in SUBSET Event
  /\ lap_start \in TimeIfAny
  /\ sector_crossings \in [Sector -> TimeIfAny]
  /\ next_sector \in 0..N
  /\ laps \in Seq(Lap)
  /\ pairs \in 0..MaxPairs
  /\ seen \in Seq([gate : Gate, time : Int])

(* Laps follow each other without a gap: each starts when the one before   *)
(* finished, and the running one when the last finished; none takes zero   *)
(* or negative time.                                                       *)
LapsChain ==
  /\ \A i \in DOMAIN laps :
       /\ laps[i].started < laps[i].finished
       /\ i > 1 => laps[i].started = laps[i - 1].finished
  /\ laps # <<>> => lap_start = laps[Len(laps)].finished

Elapsed(lap, s) == IF s = 0 THEN 0 ELSE lap.sectors[s].elapsed

Partitioned(lap) ==
  \A s \in Sector : Elapsed(lap, s) # NoTime =>
    /\ Elapsed(lap, s - 1) # NoTime
    /\ lap.sectors[s].duration = Elapsed(lap, s) - Elapsed(lap, s - 1)
    /\ Elapsed(lap, s - 1) <= Elapsed(lap, s)
    /\ Elapsed(lap, s) <= lap.finished - lap.started

(* Within a lap no sector is crossed before the one in front of it, each   *)
(* duration runs from that crossing, or from the lap's start, and is not   *)
(* negative, and the lap does not finish before any of its sectors: the    *)
(* durations of the sectors crossed partition the time to the last one.    *)
SectorsPartitionLap == \A i \in DOMAIN laps : Partitioned(laps[i])

\* The crossing of sector s in the lap between crossings p and q of the line:
\* the first of its gate after the crossing of the sector before it; 0 if none.
CrossingIn(p, q) ==
  LET at[s \in Gate] ==
        IF s = 0 THEN p
        ELSE LET later == {k \in (at[s - 1] + 1)..(q - 1) : seen[k].gate = s}
             IN  IF at[s - 1] = 0 \/ later = {} THEN 0 ELSE Min(later)
  IN  at

CrossingsOf(g) == {k \in DOMAIN seen : seen[k].gate = g}
LineCrossings == CrossingsOf(0)

\* The line crossings that close a lap, with the crossing that opened it.
LapBounds ==
  {b \in LineCrossings \X LineCrossings :
     /\ b[1] < b[2] /\ seen[b[1]].time < seen[b[2]].time
     /\ \A k \in LineCrossings : ~(b[1] < k /\ k < b[2])}

(* The laps are exactly the intervals between consecutive line crossings   *)
(* that are apart in time, in order, and a sector's time is that of the    *)
(* first crossing of its gate after the previous sector's, in that lap.    *)
LapsMatchCrossings ==
  /\ Len(laps) = Cardinality(LapBounds)
  /\ \A b \in LapBounds :
       LET lap == laps[Cardinality({c \in LapBounds : c[2] <= b[2]})]
           at == CrossingIn(b[1], b[2])
       IN  /\ lap.started = seen[b[1]].time
           /\ lap.finished = seen[b[2]].time
           /\ \A s \in Sector :
                lap.sectors[s].elapsed =
                  IF at[s] = 0 THEN NoTime ELSE seen[at[s]].time - lap.started

(* A gate that counts one way needs the vehicle back on its first side: it *)
(* is crossed by at most every other pair of samples, so a vehicle that    *)
(* jitters over it or drives it backwards does not double laps or sectors. *)
OneWayGateNeedsReturn ==
  \A g \in Gate : Direction[g] # "Either" => 2 * Cardinality(CrossingsOf(g)) <= pairs + 1
=============================================================================
