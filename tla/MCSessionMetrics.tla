--------------------------- MODULE MCSessionMetrics ---------------------------
(***************************************************************************)
(* One dimension of a row at a time: times, speeds with times, or points.  *)
(***************************************************************************)
EXTENDS SessionMetrics

\* Around midnight and noon, and around the half day forwards and backwards.
ClockRecorder ==
  [starts |-> {0, 43200, 86399},
   steps |-> {-43201, -43200, -3600, 0, 1, 43199, 43200, 43201, 86400},
   cells |-> {Missing, -1, 5960, 6000, 240000},
   speeds |-> {Missing}, factors |-> {None}, points |-> {}, rows |-> 4]

SpeedRecorder ==
  [starts |-> {0, 86398}, steps |-> {-2, 0, 1, 3}, cells |-> {Missing},
   speeds |-> {Missing, -1, 0, 2, 7}, factors |-> {1, 2, None}, points |-> {}, rows |-> 3]

Corners == {"a", "b", "c", "d"}
SquareMetric ==
  [p \in Corners |-> [q \in Corners |->
     IF p = q THEN 0 ELSE IF {p, q} \in {{"a", "c"}, {"b", "d"}} THEN 2 ELSE 1]]

PositionRecorder ==
  [starts |-> {0}, steps |-> {0}, cells |-> {Missing}, speeds |-> {Missing},
   factors |-> {None}, points |-> Corners, rows |-> 5]

MCRecorders == {ClockRecorder, SpeedRecorder, PositionRecorder}
=============================================================================
