-------------------------- MODULE MCCoordinateFormat --------------------------
(***************************************************************************)
(* Small recordings: classic and alternative names, duplicates, no columns.*)
(***************************************************************************)
EXTENDS CoordinateFormat

MCSchemas ==
  {<<>>, <<"time", "lat">>, <<"lat", "long">>, <<"longitude", "latitude", "lat">>}

At(lat, long) == [latitude |-> lat, longitude |-> long]

\* In continuous minutes the first never reads as packed, the second does.
MCPositions == {At(-3119, -75), At(0, 59)}
MCNoise == {Missing, 5160}
=============================================================================
