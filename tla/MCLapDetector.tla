---------------------------- MODULE MCLapDetector ----------------------------
(***************************************************************************)
(* Two sectors; the first sector's gate counts one way only.               *)
(***************************************************************************)
EXTENDS LapDetector

MCDirection == [g \in 0..N |-> IF g = 1 THEN "NegativeToPositive" ELSE "Either"]
MCSides == {-1, 0, 1}
=============================================================================
