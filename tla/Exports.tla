------------------------------- MODULE Exports -------------------------------
(***************************************************************************)
(* The exports of a recording (src/export.rs, and the serde implementation *)
(* of src/types.rs) into a destination the caller owns, which may reject   *)
(* output at any point.                                                    *)
(*                                                                         *)
(* Output is a sequence of tokens: the fixed parts of a format, names,     *)
(* cells and track points.  The CSV and Parquet encoders, which are not    *)
(* part of the repository, buffer: they hand the destination any part of   *)
(* what they hold whenever they are called, and all of it at the end.  GPX *)
(* and serde write through.                                                *)
(***************************************************************************)
EXTENDS Integers, Sequences, SequencesExt

CONSTANTS
  Markup, Plain,    \* characters of a creation line: to be escaped, or not
  Creations,        \* the creation lines a header may have
  MaxWidth,         \* bound: the number of channels
  MaxRows,          \* bound: the number of rows
  GroupSize,        \* PARQUET_ROW_GROUP_SIZE
  None

Format == {"csv", "gpx", "parquet", "serde"}

ASSUME ExportAssumption ==
  /\ Markup \cap Plain = {}
  /\ Creations \subseteq Seq(Markup \cup Plain)
  /\ MaxWidth \in Nat /\ MaxRows \in Nat /\ GroupSize \in Nat \ {0}
  /\ None \notin {"Ok", "Io", "NoChannels", "NoTrackPoints"} /\ None \notin Creations

VARIABLES
  format,
  width, rows, created,    \* the recording
  located, timed,          \* its rows with a point, and with a time
  stage,                   \* what the export writes next
  row, column,             \* where it is in the table
  buffer,                  \* what the encoder holds
  written,                 \* what the destination accepted
  result,                  \* what the call returned, None while it runs
  emitted                  \* history: what the export gave the encoder

recording == <<format, width, rows, created, located, timed>>
vars == <<recording, stage, row, column, buffer, written, result, emitted>>

Rows == 0..(rows - 1)
Columns == 0..(width - 1)

Init ==
  /\ format \in Format
  /\ width \in 0..MaxWidth /\ rows \in IF width = 0 THEN {0} ELSE 0..MaxRows
  /\ created \in Creations \cup {None}
  /\ located \in SUBSET Rows /\ timed \in SUBSET Rows
  \* A point takes two channels and a time takes one.
  /\ width >= (IF located = {} THEN 0 ELSE 2) + (IF timed = {} THEN 0 ELSE 1)
  /\ stage = "opening"
  /\ row = 0 /\ column = 0
  /\ buffer = <<>> /\ written = <<>> /\ emitted = <<>>
  /\ result = None

-----------------------------------------------------------------------------
\* Mutant: the table is column-major.
ColumnMajorValue(index) == [tag |-> "cell", row |-> index % rows, column |-> index \div rows]

\* The table is row-major; a cell is known by its row and column.
Value(index) == [tag |-> "cell", row |-> index \div width, column |-> index % width]

\* `chunks_exact(width)`
Record(r) == [c \in 1..width |-> Value(r * width + c - 1)]

Names == [c \in 1..width |-> [tag |-> "channel", column |-> c - 1]]

\* Markup characters are replaced by their entities.
EscapeXml(text) ==
  [i \in DOMAIN text |-> [tag |-> IF text[i] \in Markup THEN "entity" ELSE "text", char |-> text[i]]]

Fixed(part) == <<[tag |-> part]>>

Buffered == format \in {"csv", "parquet"}

\* The destination accepts the first n tokens, or fails before the last of them.
HandOver(all, n) ==
  \/ /\ written' = written \o SubSeq(all, 1, n)
     /\ buffer' = SubSeq(all, n + 1, Len(all))
     /\ UNCHANGED result
  \/ \E k \in 0..(n - 1) :
     /\ written' = written \o SubSeq(all, 1, k)
     /\ buffer' = <<>>
     /\ result' = "Io"

\* One call of the encoder, and the `?` behind it.
Emit(tokens) ==
  LET all == buffer \o tokens
  IN  /\ result = None
      /\ emitted' = emitted \o tokens
      /\ \E n \in IF Buffered THEN 0..Len(all) ELSE {Len(all)} : HandOver(all, n)
      /\ UNCHANGED recording

\* Mutant: the encoder is dropped without a flush, which may lose its error.
CloseUnflushed(tokens) ==
  /\ result = None
  /\ emitted' = emitted \o tokens
  /\ \E k \in 0..Len(buffer \o tokens) : written' = written \o SubSeq(buffer \o tokens, 1, k)
  /\ buffer' = <<>>
  /\ result' = "Ok"
  /\ UNCHANGED recording

\* The last call hands over everything that is left.
Close(tokens) ==
  LET all == buffer \o tokens
  IN  /\ result = None
      /\ emitted' = emitted \o tokens
      /\ \/ /\ written' = written \o all
            /\ result' = "Ok"
         \/ \E k \in 0..Len(all) :
            /\ written' = written \o SubSeq(all, 1, k)
            /\ result' = "Io"
      /\ buffer' = <<>>
      /\ UNCHANGED recording

Refuse(error) ==
  /\ result = None
  /\ result' = error
  /\ UNCHANGED <<recording, stage, row, column, buffer, written, emitted>>

At(f, s) == format = f /\ stage = s

\* `ensure_channels`
NoChannels == format \in {"csv", "parquet"} /\ stage = "opening" /\ width = 0 /\ Refuse("NoChannels")

NoTrackPoints == At("gpx", "opening") /\ located = {} /\ Refuse("NoTrackPoints")

-----------------------------------------------------------------------------
CsvHeader ==
  /\ At("csv", "opening") /\ width > 0
  /\ Emit(Names)
  /\ stage' = "rows"
  /\ UNCHANGED <<row, column>>

CsvRecord ==
  /\ At("csv", "rows") /\ row < rows
  /\ Emit(Record(row))
  /\ row' = row + 1
  /\ UNCHANGED <<stage, column>>

CsvFlush ==
  /\ At("csv", "rows") /\ row = rows
  /\ Close(<<>>)
  /\ UNCHANGED <<stage, row, column>>

GpxPreamble ==
  /\ At("gpx", "opening") /\ located # {}
  /\ Emit(Fixed("trk"))
  /\ stage' = "name"
  /\ UNCHANGED <<row, column>>

\* The name, if there is one, and the head of the segment.
GpxSegment ==
  /\ At("gpx", "name")
  /\ Emit((IF created = None THEN <<>>
            ELSE Fixed("name") \o EscapeXml(created) \o Fixed("end of name"))
            \o Fixed("trkseg"))
  /\ stage' = "rows"
  /\ UNCHANGED <<row, column>>

Point(r) == <<[tag |-> "trkpt", row |-> r]>>
Time(r) == <<[tag |-> "time", row |-> r]>>

\* Mutant: a point without a time is not written.
GpxTimedPoint ==
  /\ At("gpx", "rows") /\ row < rows
  /\ row' = row + 1
  /\ IF row \in located \cap timed THEN Emit(Point(row) \o Time(row))
     ELSE result = None /\ UNCHANGED <<recording, buffer, written, result, emitted>>
  /\ UNCHANGED <<stage, column>>

GpxPoint ==
  /\ At("gpx", "rows") /\ row < rows
  /\ row' = row + 1
  /\ IF row \in located
       THEN Emit(Point(row) \o IF row \in timed THEN Time(row) ELSE <<>>)
       ELSE result = None /\ UNCHANGED <<recording, buffer, written, result, emitted>>
  /\ UNCHANGED <<stage, column>>

GpxFooter ==
  /\ At("gpx", "rows") /\ row = rows
  /\ Close(Fixed("end of trk"))
  /\ UNCHANGED <<stage, row, column>>

ParquetOpen ==
  /\ At("parquet", "opening") /\ width > 0
  /\ Emit(Fixed("magic"))
  /\ stage' = "rows"
  /\ UNCHANGED <<row, column>>

\* Mutant: every group is full.
FullGroup(first) == GroupSize

\* Rows of the group that starts at `first`.
GroupRows(first) == IF rows - first < GroupSize THEN rows - first ELSE GroupSize

\* One column chunk; after the last the group is closed and the next begun.
ParquetColumn ==
  /\ At("parquet", "rows") /\ row < rows
  /\ Emit(<<[tag |-> "chunk", column |-> column, length |-> GroupRows(row)]>>
            \o [i \in 1..GroupRows(row) |-> Value((row + i - 1) * width + column)])
  /\ column' = (column + 1) % width
  /\ row' = IF column + 1 = width THEN row + GroupSize ELSE row
  /\ UNCHANGED stage

ParquetClose ==
  /\ At("parquet", "rows") /\ row >= rows
  /\ Close(Fixed("footer"))
  /\ UNCHANGED <<stage, row, column>>

\* header, channels, and the head of the sequence with its declared length.
SerdeFields ==
  /\ At("serde", "opening")
  /\ Emit(Fixed("header") \o Names \o <<[tag |-> "samples", length |-> rows]>>)
  /\ stage' = "rows"
  /\ UNCHANGED <<row, column>>

SerdeElement ==
  /\ At("serde", "rows") /\ row < rows
  /\ Emit(Record(row))
  /\ row' = row + 1
  /\ UNCHANGED <<stage, column>>

SerdeEnd ==
  /\ At("serde", "rows") /\ row = rows
  /\ Close(Fixed("end"))
  /\ UNCHANGED <<stage, row, column>>

Next ==
  \/ NoChannels \/ NoTrackPoints
  \/ CsvHeader \/ CsvRecord \/ CsvFlush
  \/ GpxPreamble \/ GpxSegment \/ GpxPoint \/ GpxFooter
  \/ ParquetOpen \/ ParquetColumn \/ ParquetClose
  \/ SerdeFields \/ SerdeElement \/ SerdeEnd

Spec == Init /\ [][Next]_vars

-----------------------------------------------------------------------------
Outcome == {None, "Ok", "Io", "NoChannels", "NoTrackPoints"}

(* The export stays inside its table; a whole row group may lie behind it. *)
TypeOK ==
  /\ format \in Format
  /\ stage \in {"opening", "name", "rows"}
  /\ row \in 0..(rows + GroupSize - 1) /\ column \in 0..width
  /\ \A i \in DOMAIN emitted :
       emitted[i].tag = "cell" => emitted[i].row \in Rows /\ emitted[i].column \in Columns
  /\ result \in Outcome

(* What the destination accepted is at every moment a prefix of what the   *)
(* export produced: a failure never leaves a hole.  Success means that all *)
(* of it was accepted, so an error of the destination is never lost in the *)
(* encoder's buffer.                                                       *)
OutputIsWholeOrFails ==
  /\ IsPrefix(written, emitted)
  /\ result = None => written \o buffer = emitted
  /\ result = "Ok" => written = emitted

Tokens(tag) == {i \in DOMAIN written : written[i].tag = tag}

\* Row by row, and column by column in a row.
Precedes(i, j) ==
  \/ written[i].row < written[j].row
  \/ written[i].row = written[j].row /\ written[i].column < written[j].column

\* A chunk is followed by its cells, which start at the first row of a group
\* and go on to the end of the group or of the table.
ChunkIsWhole(i) ==
  LET first == written[i + 1].row
  IN  /\ written[i].length \in 1..GroupSize
      /\ first % GroupSize = 0
      /\ first + written[i].length <= rows
      /\ first + written[i].length < rows => written[i].length = GroupSize
      /\ \A k \in 1..written[i].length :
           written[i + k] = [tag |-> "cell", row |-> first + k - 1, column |-> written[i].column]

(* A finished table holds every cell of the recording once: CSV and serde  *)
(* row by row behind the names of its columns, Parquet in whole chunks, a  *)
(* group of rows at a time and in it by column, so that all groups are     *)
(* full except perhaps the last, which is not empty.  Serde declares as    *)
(* many rows as it writes.                                                 *)
TableIsExported ==
  result = "Ok" /\ format # "gpx" =>
    LET cells == Tokens("cell")
        names == Tokens("channel")
        chunks == Tokens("chunk")
    IN
      /\ {<<written[i].row, written[i].column>> : i \in cells} = Rows \X Columns
      /\ \A i, j \in cells : i < j => Precedes(i, j) \/ Precedes(j, i)
      /\ format # "parquet" =>
           /\ \A i, j \in cells : i < j => Precedes(i, j)
           /\ {written[i].column : i \in names} = Columns
           /\ \A i, j \in names : i < j => written[i].column < written[j].column
           /\ \A i \in names : \A j \in cells : i < j
      /\ format = "parquet" =>
           /\ \A i \in chunks : ChunkIsWhole(i)
           /\ \A i \in cells : \E j \in chunks : i \in j..(j + written[j].length)
           /\ \A i, j \in chunks : i < j => Precedes(i + 1, j + 1)
      /\ format = "serde" => \E i \in Tokens("samples") :
           /\ written[i].length = rows
           /\ \A j \in Tokens("samples") : j = i
           /\ \A j \in cells : i < j

(* A finished track holds each located row once and in order, each time    *)
(* directly behind the point of its row, and no character that would open  *)
(* markup.                                                                 *)
TrackIsExported ==
  result = "Ok" /\ format = "gpx" =>
    LET points == Tokens("trkpt")
        times == Tokens("time")
    IN
      /\ {written[i].row : i \in points} = located
      /\ \A i, j \in points : i < j => written[i].row < written[j].row
      /\ \A i \in points : written[i].row \in timed => i + 1 \in times
      /\ \A i \in times :
           i - 1 \in points /\ written[i].row = written[i - 1].row /\ written[i].row \in timed
      /\ \A i \in Tokens("text") : written[i].char \in Plain
=============================================================================
