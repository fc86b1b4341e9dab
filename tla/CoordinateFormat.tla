--------------------------- MODULE CoordinateFormat ---------------------------
(***************************************************************************)
(* `detect_coordinate_format`, which `Vbo::new` runs once per recording,   *)
(* and `Telemetry::geo_point`, which decodes every row by what it found    *)
(* (src/telemetry.rs, src/types.rs).                                       *)
(*                                                                         *)
(* The pass reads each row of the finished table once, so the model draws  *)
(* a row when the pass comes to it.  A channel is its normalised name.     *)
(***************************************************************************)
EXTENDS Decoders, Sequences, FiniteSets, FiniteSetsExt, Functions

CONSTANTS
  Schemas,     \* the schemas a recording may have
  Positions,   \* positions a recorder may have been at
  Noise,       \* other cells
  MaxRows      \* bound: the number of rows

Position == [latitude : -(60 * 90)..(60 * 90), longitude : -(60 * 180)..(60 * 180)]

ASSUME CoordinateAssumption ==
  /\ \A s \in Schemas : s \in Seq(STRING)
  /\ Positions \subseteq Position
  /\ Noise \subseteq Int \cup {Missing}
  /\ MaxRows \in Nat
  /\ None \notin {"PackedDegreesMinutes", "ContinuousMinutes"}

VARIABLES
  channels,
  values,         \* the table, row-major
  rows_read,      \* rows the pass has read
  present,
  packed_valid,
  format          \* what it returned, None while it runs

detection == <<channels, values, rows_read, present, packed_valid, format>>

LatitudeAliases == {"lat", "latitude"}
LongitudeAliases == {"long", "longitude", "lon"}

FindChannel(aliases) ==
  LET matching == {c \in DOMAIN channels : channels[c] \in aliases}
  IN  IF matching = {} THEN None ELSE Min(matching)

HasPosition == FindChannel(LatitudeAliases) # None /\ FindChannel(LongitudeAliases) # None

\* Zero-based row, one-based column.
Value(r, c) == values[r * Len(channels) + c]
Latitude(r) == Value(r, FindChannel(LatitudeAliases))
Longitude(r) == Value(r, FindChannel(LongitudeAliases))

Present(latitude, longitude) == latitude # Missing /\ longitude # Missing

ReadsAsPacked(latitude, longitude) ==
  IsPackedMinutes(latitude, "Latitude") /\ IsPackedMinutes(longitude, "Longitude")

\* What a recorder of either convention writes for a position.
PackedCell(minutes, axis) ==
  Orientation(axis) * Signum(minutes)
    * (100 * (Magnitude(minutes) \div 60) + (Magnitude(minutes) % 60))
ContinuousCell(minutes, axis) == Orientation(axis) * minutes

\* Any cell of its axis in the position's columns, noise in the others.
AxisCells(axis, minutes) ==
  Noise \cup UNION {{PackedCell(m, axis), ContinuousCell(m, axis)} : m \in minutes}

Cells(c) ==
  IF c = FindChannel(LatitudeAliases)
    THEN AxisCells("Latitude", {p.latitude : p \in Positions})
  ELSE IF c = FindChannel(LongitudeAliases)
    THEN AxisCells("Longitude", {p.longitude : p \in Positions})
  ELSE Noise

RecordedRows ==
  LET all == [c \in DOMAIN channels |-> Cells(c)]
  IN  {cells \in [DOMAIN channels -> UNION Range(all)] : \A c \in DOMAIN cells : cells[c] \in all[c]}

FormatInit ==
  /\ channels \in Schemas
  /\ values = <<>>
  /\ rows_read = 0
  /\ present = 0
  /\ packed_valid = 0
  /\ format = None

\* An empty schema, or one without a latitude or a longitude.
DefaultFormat ==
  /\ format = None
  /\ ~HasPosition
  /\ format' = "PackedDegreesMinutes"
  /\ UNCHANGED <<channels, values, rows_read, present, packed_valid>>

ReadRow(cells) ==
  /\ format = None /\ rows_read < MaxRows
  /\ HasPosition
  /\ values' = values \o cells
  /\ rows_read' = rows_read + 1
  /\ LET latitude == values'[rows_read * Len(channels) + FindChannel(LatitudeAliases)]
         longitude == values'[rows_read * Len(channels) + FindChannel(LongitudeAliases)]
     IN  /\ present' = IF Present(latitude, longitude) THEN present + 1 ELSE present
         /\ packed_valid' = IF ReadsAsPacked(latitude, longitude)
                              THEN packed_valid + 1 ELSE packed_valid
  /\ UNCHANGED <<channels, format>>

\* Mutant: a tie counts as continuous.
MajorityOrTie == packed_valid * 2 <= present

MostlyUnreadable == packed_valid * 2 < present

DecideFormat ==
  /\ format = None
  /\ HasPosition
  /\ format' = IF present > 0 /\ MostlyUnreadable
                 THEN "ContinuousMinutes" ELSE "PackedDegreesMinutes"
  /\ UNCHANGED <<channels, values, rows_read, present, packed_valid>>

FormatNext ==
  \/ DefaultFormat
  \/ \E cells \in RecordedRows : ReadRow(cells)
  \/ DecideFormat

FormatSpec == FormatInit /\ [][FormatNext]_detection

-----------------------------------------------------------------------------
DecodeGeoPoint(latitude, longitude) ==
  IF format = "ContinuousMinutes" THEN ContinuousMinutesToDegrees(latitude, longitude)
  ELSE IF ReadsAsPacked(latitude, longitude)
    THEN [latitude  |-> PackedMinutesToDegrees(latitude, "Latitude"),
          longitude |-> PackedMinutesToDegrees(longitude, "Longitude")]
  ELSE None

GeoPoint(r) == IF HasPosition THEN DecodeGeoPoint(Latitude(r), Longitude(r)) ELSE None

Rows == 0..(rows_read - 1)

(* The counters count rows that were read, and the table holds cells.      *)
FormatTypeOK ==
  /\ channels \in Seq(STRING)
  /\ values \in Seq(Int \cup {Missing}) /\ Len(values) = rows_read * Len(channels)
  /\ rows_read \in 0..MaxRows
  /\ packed_valid \in 0..present /\ present \in 0..rows_read
  /\ format \in {None, "PackedDegreesMinutes", "ContinuousMinutes"}

PackedRows(p) ==
  {r \in Rows : /\ Latitude(r) = PackedCell(p.latitude, "Latitude")
                /\ Longitude(r) = PackedCell(p.longitude, "Longitude")}

ContinuousRows(p) ==
  {r \in Rows : /\ Latitude(r) = ContinuousCell(p.latitude, "Latitude")
                /\ Longitude(r) = ContinuousCell(p.longitude, "Longitude")}

PresentRows == {r \in Rows : Present(Latitude(r), Longitude(r))}

(* A recording of which at least half of the rows with a position were     *)
(* written in the packed convention, whatever the other rows hold, decodes *)
(* each of those to the position it was written for, signs included.       *)
PackedRecordingIsDecoded ==
  /\ format # None /\ HasPosition
  /\ 2 * Cardinality(UNION {PackedRows(p) : p \in Positions}) >= Cardinality(PresentRows)
  => \A p \in Positions : \A r \in PackedRows(p) : GeoPoint(r) = p

(* A recording of continuous minutes, most of which no packed recorder can *)
(* have written, decodes each of its rows, those included that taken alone *)
(* read as packed.                                                         *)
ContinuousRecordingIsDecoded ==
  /\ format # None /\ HasPosition
  /\ 2 * Cardinality({r \in PresentRows : ~ReadsAsPacked(Latitude(r), Longitude(r))})
       > Cardinality(PresentRows)
  => \A p \in Positions : \A r \in ContinuousRows(p) : GeoPoint(r) = p
=============================================================================
