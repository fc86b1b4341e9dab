------------------------------- MODULE Decoders -------------------------------
(***************************************************************************)
(* The field decoders of src/telemetry.rs, which are pure.                 *)
(*                                                                         *)
(* A cell of the table is an integer, or Missing when it is not finite.    *)
(* The fractional digits are left out: a coordinate is in whole minutes    *)
(* (packed, DDMM; continuous, a count of minutes), a time in whole seconds *)
(* (HHMMSS).  Angles are in minutes of arc instead of decimal degrees.     *)
(***************************************************************************)
EXTENDS Integers

CONSTANTS
  Missing,     \* a cell that is NaN or infinite
  None

ASSUME DecoderAssumption == Missing \notin Int /\ None \notin Int

Magnitude(n) == IF n < 0 THEN -n ELSE n
Signum(n) == IF n < 0 THEN -1 ELSE 1

\* Positive longitude is west in a recording and east in a GeoPoint.
Orientation(axis) == IF axis = "Latitude" THEN 1 ELSE -1

DegreesLimit(axis) == IF axis = "Latitude" THEN 90 ELSE 180

IsPackedMinutes(value, axis) ==
  /\ value # Missing
  /\ Magnitude(value) % 100 < 60
  /\ Magnitude(value) \div 100 <= DegreesLimit(axis)

PackedMinutesToDegrees(value, axis) ==
  IF IsPackedMinutes(value, axis)
    THEN Orientation(axis) * Signum(value)
           * (60 * (Magnitude(value) \div 100) + (Magnitude(value) % 100))
    ELSE None

\* Mutant: the longitude keeps the recording's sign.
UnorientedMinutesToDegrees(latitude, longitude) ==
  IF /\ latitude # Missing /\ longitude # Missing
     /\ Magnitude(latitude) <= 60 * 90 /\ Magnitude(longitude) <= 60 * 180
    THEN [latitude |-> latitude, longitude |-> longitude] ELSE None

ContinuousMinutesToDegrees(latitude, longitude) ==
  IF /\ latitude # Missing /\ longitude # Missing
     /\ Magnitude(latitude) <= 60 * 90 /\ Magnitude(longitude) <= 60 * 180
    THEN [latitude |-> latitude, longitude |-> -longitude] ELSE None

\* Racelogic's time of day, HHMMSS.
ParseTimeSeconds(value) ==
  IF /\ value # Missing
     /\ value >= 0
     /\ value \div 10000 < 24 /\ (value \div 100) % 100 < 60 /\ value % 100 < 60
    THEN 3600 * (value \div 10000) + 60 * ((value \div 100) % 100) + (value % 100)
    ELSE None
=============================================================================
