# Verification of racelogic-vbo

TLA+ models, TLC runs and TLAPS proofs for the `racelogic-vbo` library. Paths
are relative to the repository root; the library is under `src/`.

## The system

A sequential library: no threads, no persistence, no messages. Its difficulty is
in long sequences of legal inputs, in buffers and counters at their limits, in
the two error modes, and in data that is reused or read later than it was
written. Control crosses the library's border at three places: the `BufRead` the
caller supplies, which may return chunks of any size or fail at any call; the
visitor the caller passes, which is called once per accepted row; and the
destination of an export, which may fail at any call.

| Component | Source | State | Operations | What makes it correct |
|---|---|---|---|---|
| Line reader | `parser.rs:158-184, 410-446` | line buffer, `saw_line`, `too_long`, the reader's position | `read_bounded_line`, the CR and size test of its caller | lines do not depend on chunk boundaries; memory is bounded; a line at the limit is accepted with CRLF too |
| Section parser | `parser.rs:62-408`, `types.rs` | section, header, channels, units, row buffer, row count, issues | `parse_reader`, `parse_bufread` and their recovering forms | rows and diagnostics match the source; no record is lost; strict mode is transactional; limits are exact |
| Vbo table and views | `types.rs:23-174, 223-298` | row-major `values`, `rows`, `channels` | accessors, `StreamSample` | the table is rectangular and agrees with the stream |
| Coordinate format detection | `telemetry.rs:29-98` | two counters | `detect_coordinate_format` | one convention per recording, by strict majority |
| Field decoders | `telemetry.rs:177-210, 469-556` | none | time of day, packed minutes, satellite byte, unit factors | ranges, signs |
| Session metrics | `telemetry.rs:212-439` | last time, speed and point; sums, peaks | `analyse`, `numeric_channel_summaries` | elapsed time across midnight, anomalies, peaks from the right pair of samples, attained extremes |
| Lap detection | `analysis.rs:266-472` | `lap_start`, `sector_crossings`, `next_sector`, `laps` | `detect_laps` | laps chain; sectors partition laps; both match the crossings |
| Time series | `analysis.rs:95-264` | running sum and count | `interpolate`, `align_to`, `resample_uniform`, `smooth_moving_mean`, `align_channels` | no extrapolation, the grid's cap and last point, windows |
| Exports | `export.rs`, `types.rs:33-76` | the caller's writer | CSV, GPX, Parquet, serde | what was written is a prefix of the whole; every row once |

Components meet by calls. The parser calls the line reader once per line and the
visitor once per row; `parse_reader`'s visitor builds the table `Vbo::new`
takes, which detects the coordinate format and is the input of metrics and
exports. Lap detection and time series take plain sequences of the caller's and
share nothing with the rest.

`PROJECT.json` lists the hazards of this code by line, with the properties that
cover each.

## Modules

| Module | What it is |
|---|---|
| `PhysicalLines` | abstract: reading an input line by line, with no buffers |
| `LineReader` | `read_bounded_line` over arbitrary chunks; implements `PhysicalLines` |
| `VboParser` | the section state machine and the visitor of `parse_reader` |
| `VboParserProps` | its properties, stated over the lines it consumed, and `Vbo::value` |
| `Pipeline` | `LineReader` and `VboParser` composed, from bytes to rows |
| `StrictVsRecovery` | two `VboParser`s, one of each mode, over one input |
| `Decoders` | the pure decoders of `telemetry.rs` |
| `CoordinateFormat` | `detect_coordinate_format`, and `geo_point` over its outcome |
| `SessionMetrics` | the pass of `analyse` over the rows |
| `ChannelSummary` | the pass over one column that a summary makes |
| `LapDetector` | the pass of `detect_laps` |
| `Smoothing` | `smooth_moving_mean` |
| `TimeSeries` | validation, smoothing (`Smoothing`), alignment and resampling of a series |
| `Exports` | the four exports into a destination that may fail |
| `MC...` | finite constants for TLC |
| `BasicLemmas` | facts about naturals, sequences and tables, and induction over naturals |
| `VboParserProofs` | theorems about `VboParserProps` |
| `PipelineProofs` | theorems about `LineReader` and `Pipeline` |
| `StrictVsRecoveryProofs` | theorems about `StrictVsRecovery` |
| `AnalysisProofs` | theorems about `LapDetector`, `Smoothing` and `TimeSeries` |
| `TelemetryProofs` | theorems about `SessionMetrics`, `Decoders` and `CoordinateFormat` |
| `ChannelSummaryProofs`, `ExportsProofs` | theorems about `ChannelSummary`, `Exports` |

### LineReader

The input is a sequence of bytes, of which only CR, LF and the others differ. One
action is one iteration of the function's loop: `Fill(n)` takes a chunk of `n`
bytes, any non-empty prefix of the rest, and ends the line (`FillToNewline`) or
not (`FillWithoutNewline`); `EndOfInput` sees the empty buffer; `ReadError` is
the `?` on `fill_buf`; `TakeLine` is the head of the caller's loop, which pops
the CR, tests the size and calls again. `lines` records what the caller obtained.

`ReadsPhysicalLines` is the refinement: `PhysicalLines` delivers in one step
everything up to the next newline or the end, and calls it oversized exactly when
its content, without the CR, exceeds the limit. The mapping takes the abstract
position from `start`, where the line in progress began, so that filling the
buffer is a stutter and `TakeLine` is `Deliver`; an error in mid-line maps to
`Fail` with the partial line undelivered.

### VboParser

One action is one way through the body of the `while let` loop of
`parse_bufread_inner`, and takes the next physical line from `Lines`: too long,
blank, not UTF-8, a marker, or a text. A text is its fields, and a field is one
that `parse_float` accepts (`Number`) or rejects (`Word`). The variables are the
function's locals. `values` belongs to the visitor of `parse_reader`, and the
visitor is called inside `AcceptRecord`, as in the code. `recover` is chosen
once, for the recovering entry points and for `strict: false` alike.

| Action | Code |
|---|---|
| `OversizedRecord`, `OversizedLine` | `parser.rs:165-184` |
| `BlankLine`, `NotUtf8Line` | `185-189` |
| `DataMarkerWithoutSchema`, `DataMarker`, `OtherMarker` | `190-200` |
| `CreatedText`, `PreambleText` | `202-214` |
| `ColumnNamesText`, `ChannelUnitsText`, `HeaderText` | `215-223, 258-262` |
| `RecordOverLimit`, `AcceptRecord`, `OmitRecord`, `RejectRecord` | `224-257` |
| `EndWithoutData`, `EndOfInput` | `265-274` |
| `ReadFails` | `159` |

The history variables `consumed` and `delivered` occur in no guard. The
properties read the file back from `consumed` (which marker governs a line, how
wide the schema was there, what is wrong with a record) without the parser's
variables. A marker may itself read `[preamble]`: texts under it are those of an
unknown section, and only texts before the first marker are the preamble's.

Abstracted: the letter case of markers, white space around and between fields (the
texts that count as a creation line are a constant, `FileCreated`), numeric
values, the rejected field quoted by a diagnostic, and the choice of float backend.

### Pipeline

`Pipeline` extends `LineReader` and instantiates `VboParser` on the lines it
obtains. The reader runs while the parser asks (`ReadChunk`, `EndOfLastLine`);
`ParseLine` takes the finished line, recognises it in the order of the code's tests
(length, blank, UTF-8, marker, text) and takes the parser's step for it;
`EndOfFile` and `ReaderFails` end both. A byte is CR, LF, a space, a byte that is
not UTF-8, or stands for a whole token, so no two tokens are adjacent and the
length of a line is counted in tokens. The properties read the file with no
reader and no parser.

### StrictVsRecovery

Two copies of all parser variables, one with `recover` false; a line goes to each
copy that is still running. A reader error would reach both alike and is left out.

### Decoders and CoordinateFormat

Cells are whole minutes and whole seconds: a packed coordinate is `DDMM`, a
continuous one a count of minutes, a time `HHMMSS`; angles are minutes of arc
instead of decimal degrees. Fractional digits pass through the code unexamined,
except where they decide `minutes < 60`, which whole minutes decide alike. A
channel is its normalised name; `Schemas` holds names, aliases and their order. The
table is drawn row by row as the pass reads it, from what a recorder of either
convention writes for a position, and noise.

### SessionMetrics

The recorder is the environment: a true clock which any row may advance or set
back, and which shows as a time of day; cells that are no times; speeds in a unit
with a factor, or without; decoded points. `Recorders` is a set of kinds of
recording, each with its bounds. One action, `Row`, is one iteration over the
rows, with the three accumulations in the code's order; `Finish` builds the
report. Times are whole seconds. `Metric` stands for `haversine_metres`, and is assumed
to obey the triangle inequality. The alias and unit tables are reduced to
`Factors`, with `None` for an absent column or an unknown unit. An acceleration is
the pair of its change and its seconds; two are compared by cross multiplication.
Rounding of sums is left out.

### ChannelSummary

One column, drawn cell by cell, in a unit with a factor; `physical` is the
filter of the radius of turn. Finite numbers are the integers up to `Big`: a product
beyond it is not finite and is skipped, a sum beyond it is infinite for good. The
summarised column does not depend on the row pass of `SessionMetrics`, so the two are
separate.

### LapDetector

A sample is its time and the sign of its side of each gate. `NextPair` begins a
pair of samples: every gate the pair may cross (strictly opposite sides, in a
direction the gate counts) is crossed or, if the path misses the finite segment,
not, at any of `K + 1` fractions. The fraction is not tied to the sides because
the code's quotient rounds to 0 and 1 next to a gate. The events are then handled
one by one in the order of `sort_by`, each by one action: `FirstLineCrossing`,
`CompleteLap`, `RestartLap` (two crossings at one time), `CrossSector`,
`IgnoreSector`. Times are integers and interpolation rounds down, which makes
different fractions share a time, as floating point does. Samples are the validated
ones: strictly increasing times, finite points, proper gates; an invalid
argument returns an error before the first pair.

The model's interpolated time never leaves the pair. In floating point,
`(end - start).mul_add(fraction, start)` keeps that for times of one sign; a
timeline that runs from far below zero to above it may round past the second
sample, which is outside the model.

### Smoothing and TimeSeries

`Smooth(v)` is one iteration of `smooth_moving_mean`: the sample is added, the one
that leaves the window subtracted, and the mean, kept as sum and count, pushed. A
sum beyond `Big` is infinite for good, as in the code, which never computes it anew.
`TimeSeries` extends it: `New` validates, `SmoothMovingMean` to `SmoothedSeries`
replace the values, `AlignTo` and `ResampleUniform` begin an evaluation, `Evaluate` is
one iteration of either loop, with `Interpolate` inside.

A timestamp is its rank in the order of `f64::total_cmp`; rank -1 is negative zero.
The step count of a grid is a quotient rounded before its floor is taken, so
`Steps` is a choice: the whole quotient, or one more when what is missing is below
the relative error `1 / Precision`. Values are integers, interpolation and means
round down. `align_channels` is `align_to` per channel and is not modelled apart.

### Exports

Output is a sequence of tokens: names, cells, track points, fixed parts. An action
is one call of the encoder and the `?` behind it; the destination accepts what it is
handed or fails at any token. GPX and serde write through. The csv and parquet
crates buffer: they may hand over any part of what they hold at any call, and all of it
in `Close`. The recording is a rectangular table; rows with a point and rows with a
time are arbitrary.

## What the runs check

| Run | Question | Bounds |
|---|---|---|
| `parser` | no record is lost, strict mode is transactional, limits are exact, rows and diagnostics name their lines, units and header settle, table and stream agree | files over one of five alphabets: records of every shape (9 kinds of line, 6 lines), reopened schemas (6, 8), units (5, 8), metadata (7, 6), tables (6, 6); 2 rows, 2 issues |
| `pipeline` | chunking, CRLF, limit, memory, refinement of `PhysicalLines`, reports against the file, the reader failing anywhere, progress of every step, termination | two preludes and every body of up to 4 bytes of 7 kinds, or up to 6 of white space; limits 0 to 2; 1 row, 1 issue |
| `strict_recovery` | what the two modes have in common on one input | 7 kinds of line, 7 lines, 2 rows, 1 issue |
| `laps` | laps and sectors against a reference reading of the crossings; jitter | 2 sectors, the first one-way, samples on a gate's line; 3 pairs, 3 fractions |
| `coordinates` | each convention decodes to the positions it was written for | 4 schemas, 2 positions in both conventions, 3 rows |
| `metrics` | elapsed time and anomalies; peaks and mean; distance | clocks: 9 steps, 4 rows; speeds: 4 steps, 5 cells, 3 factors, 3 rows; tracks: 4 points, 5 rows |
| `channel_summary` | extremes and mean against the column | 5 cells and a missing one, 5 rows; products over 8 and counts over 3 overflow |
| `series` | interpolation, grids, windows | series of any 5 timestamps and NaN up to 3 samples, 2 queries, 27 grids, limit 4; windows 0 to 3 over up to 5 samples |
| `exports` | whole output or an error; tables with their row groups, tracks | up to 3 columns and 4 rows, groups of 2; any failure, any buffering |

Why the bounds suffice. A record's fate depends on the schema's width, the two
counters and the record; markers, a name line and three records (one more than the
row limit) fit in six lines, and eight let a schema be reopened between two
rows. The alphabets meet only in sections, which do not
share state beyond the variables each alphabet drives. The reader's states differ by
where a chunk ends relative to CR, LF and the limit; a body holds two lines with each
beyond the limit. Three pairs of samples hold two laps or one lap with both
sectors crossed, missed or repeated. The clock's steps lie at both sides of
the half day and of the day; the metric passes remember one row at most, so three to five rows
hold a row, its predecessor and a gap between. A window of
one to three over five samples fills, slides and empties. Groups of two over
up to four rows are full, short and absent. Each bound is a constant of its
module (`MaxLines`, `MaxPairs`, `MaxStep`, `MaxLength`, `MaxQueries`, `MaxEvaluated`,
`Recorders`), or the domain of `Inputs`; no property mentions one
except where the code's own limits are meant (`MaxRows` and `MaxIssues` of the
parser, `limit`, `SampleLimit`, `GroupSize`, `CountLimit`).

Deadlock is not checked: each model stops when its call has returned.

Three runs show a disagreement between code and documentation; each ends in a
counterexample, and `PROJECT.json` quotes the text.

- `parser_ragged`: `[column names]`, reopened after rows were accepted, widens the
  schema under the table, so `rows * channels` exceeds the number of values.
- `parser_row_limit`: after `max_rows` accepted rows, a malformed record that
  recovery would have omitted is a fatal `RowLimit`.
- `parser_unknown`: the texts of all unknown sections share the entry `other`.

Four more deviations were met while reading; the properties are stated so as to
leave them out, and no run is about them.

- `telemetry.rs:481` compares whole degrees, so a packed latitude of 90 degrees and some
  minutes decodes beyond the pole; `detect_laps` refuses such a point later.
- `analysis.rs:191` takes the floor of a rounded quotient: from 0 to 1.7 by 0.1 the
  last grid point is 1.7000000000000002, after `end_seconds`. `GridCoversRange`
  bounds the last point by one interval.
- `analysis.rs:142` searches by `total_cmp`, so a series that starts at 0.0 has no value
  at -0.0. `OutputFollowsSamples` asks for `SignsAgree`.
- `analysis.rs:229`: after a running sum has overflowed, later windows are NaN.
  `MeansMatchWindow` asks for `NoOverflow`.

### Properties worth a second look

- `RecordsAccountedFor`: a record that is neither delivered nor reported is the
  loss nobody notices; the only one allowed is the record the parse stopped at.
- `UnitsSettle`: a callback may see a column without its unit, but never with one
  that the finished parse contradicts.
- `RectangularWhenSchemaFrozen` is the strongest form of the documented row and
  column invariant that holds of this code; `parser_ragged` shows what is missing.
- `StopsBehindItsLastLine`: a caller of `parse_bufread` may go on with its reader
  after an error, which consumed no byte of a later line.
- `EveryStepProgresses`: an iteration that consumes nothing and ends nothing spins, and
  only some inputs and chunks show it.
- `FirstIssueIsTheStrictError`: the error strict parsing gives is the first
  diagnostic of recovery, on the same line, after the same rows.
- `AnomaliesExplainElapsed`: with a clock that may also step back or skip half days,
  elapsed time is the true one but for whole days and the steps counted as anomalies.
- `PeaksBoundEveryStretch`: the peaks are kept over neighbouring rows; they bound the mean
  change between any two rows.
- `LapsMatchCrossings` compares laps and sectors with a reading of all crossings
  that keeps no state from one lap to the next.
- `MeansMatchWindow` compares the running sum with the difference of two prefix sums.
- `TableIsExported` reads the finished output back: cells, column names, row groups.
- `OutputIsWholeOrFails`: success means the destination accepted everything, so no
  error is lost in an encoder's buffer.

### Fairness

`FairPipeline` assumes weak fairness of `ParseProgress`, the steps of the two
loops: the caller's thread runs them until the call returns. Nothing makes the reader
fail, so `ReaderFails` is outside. `ParseReturns` is checked under it. Everything
else is checked and proved without fairness.

## What is proved

Every safety property that a run checks is also a theorem, for every value of the
constants that satisfies the modules' assumptions: the files, recordings, traces and
series are of any length, the limits any naturals.

| Theorem | Statement | Inductive invariant |
|---|---|---|
| *Parser* (`VboParserProofs`) | | |
| `TypeCorrect` | `Spec => []TypeOK` | `TypeOK` |
| `TableIsRectangular` | `[]RectangularWhenSchemaFrozen` | `ShapeInv` |
| `NoRecordIsLost` | `[]RecordsAccountedFor` | `AccountInv` |
| `DiagnosticsAreTrue` | `[]IssuesMatchSource` | `HistoryInv`, `IssuesInv` |
| `RowsAreSourceRows`, `TableIsTheStream` | `[]RowsMatchSource`, `[]TableAgreesWithStream` | `HistoryInv`, `RowsInv` |
| `CapsAreExact`, `StrictParsesAreTransactional` | `[]LimitsAreExact`, `[]StrictIsTransactional` | `HistoryInv`, `OutcomeInv` |
| `HeaderTextsArePreserved` | `[]HeaderIsPreserved` | `HistoryInv`, `HeaderInv` |
| `UnitsAreSettled` | `[]UnitsSettle` | `HistoryInv`, `UnitsInv` |
| *Reader and pipeline* (`PipelineProofs`) | | |
| `ReaderTypeCorrect`, `MemoryIsBounded` | types, `[]BufferIsBounded` | `ReaderInv` |
| `ReaderImplementsLines` | `Spec => ReadsPhysicalLines` | `ReaderInv` |
| `PipelineReads`, `PipelineReadsPhysicalLines`, `PipelineMemoryIsBounded` | the reader's theorems of the composition | `ReaderInv` |
| `PipelineParses` | `PipelineSpec => V!Spec`, the parser's specification on the lines read | `ReaderInv` |
| `WholeLinesOnly`, `ReaderIsLeftBehindTheLine`, `AnswersAreComplete` | `[]OnlyWholeLinesAreParsed`, `[]StopsBehindItsLastLine`, `[]AnswersReadWholeFile` | `FileInv` |
| `ReportsAreTrueOfTheFile` | `[]ReportsMatchFile` | `FileInv` and the parser's theorems |
| `ParsingProgresses` | `EveryStepProgresses` | `ReaderInv` |
| *The two modes* (`StrictVsRecoveryProofs`) | | |
| `ModesAgree`, `RecoveryReportsTheStrictError` | `[]CleanInputsParseAlike`, `[]FirstIssueIsTheStrictError` | `TwinInv` and the parser's theorems of both sides |
| *Laps and series* (`AnalysisProofs`) | | |
| `LapTypeCorrect`, `LapsFollowEachOther`, `SectorsAreOrdered` | types, `[]LapsChain`, `[]SectorsPartitionLap` | `LapInv` |
| `LapsAreThoseDriven` | `[]LapsMatchCrossings` | `LapInv`, `MatchInv` |
| `OneWayGatesNeedReturn` | `[]OneWayGateNeedsReturn` | `LapInv`, `ReturnInv` |
| `SmoothingTypeCorrect`, `MeansAreWindowMeans` | types, `[]MeansMatchWindow` | `IInv` |
| `SeriesTypeCorrect` | types of a series and its outputs | `SeriesInv` |
| `SeriesSmooths`, `SeriesMeansAreWindowMeans` | a series implements `Smoothing`, and inherits its theorem | |
| `OutputsFollowSamples` | `[]OutputFollowsSamples` | `SeriesInv` |
| `GridsCoverRange` | `[]GridCoversRange` | `SeriesInv`, `GridInv` |
| *Telemetry* (`TelemetryProofs`, `ChannelSummaryProofs`) | | |
| `MetricsTypeCorrect` | types (SessionMetrics) | `TypeOK` |
| `ElapsedTimeIsTrue` | `[]ElapsedIsTrueTime` | `ClockInv` |
| `AnomaliesAreStepsBack` | `[]AnomaliesExplainElapsed` | `AnomalyInv` |
| `DistanceCoversTrack` | `[]DistanceCoversDisplacement` | `DistanceInv` |
| `MeanStaysBelowMaximum` | `[]MeanIsBelowMaximum` | `SumInv`, `ReportInv` |
| `PeaksBoundStretches` | `[]PeaksBoundEveryStretch` | `PeakInv` |
| `SummaryTypeCorrect`, `ExtremesAreTheChannels`, `MeanLiesBetweenExtremes` | types, `[]ExtremesAreAttained`, `[]MeanIsBetweenExtremes` | `SumInv` |
| `PackedRoundTrip` | decoding inverts the packed format, for every position of an axis | |
| `FormatTypeCorrect`, `PackedRecordingsAreDecoded`, `ContinuousRecordingsAreDecoded` | types, `[]PackedRecordingIsDecoded`, `[]ContinuousRecordingIsDecoded` | `FormatInv` |
| *Exports* (`ExportsProofs`) | | |
| `ExportIsWholeOrFails` | `[]OutputIsWholeOrFails` | `OutInv` |
| `ExportTypeCorrect`, `TablesAreExported`, `TracksAreExported` | types, `[]TableIsExported`, `[]TrackIsExported` | `ExportInv` |

The type invariants are proved; those of `TimeSeries` (with that of `Smoothing`) and
`Exports`, which say more than types, are run too.

Each proof has the initial states, one lemma or step per action, and a last step
that combines them by temporal logic. Why the properties are not inductive, and
what the invariants add:

*Parser*

- `ShapeInv`. The schema may have grown between two rows, so the table's length is
  not a product of the current width. The invariant bounds it instead: at least
  `rows` times the width the first sample saw, at most `rows` times the current
  one, the first not above the second. Where the two widths are equal, as the
  property assumes, so are the bounds.
- `AccountInv`. The property reads the last marker of the lines consumed; the
  invariant ties `section` to it, and bounds the lines of samples and diagnostics
  by `line`, which keeps the two sets disjoint when a new one is added.
- `HistoryInv` is what the other invariants of the parser share: `section` is the one
  that the last marker names, and the schema is as wide as the column names read.
- `IssuesInv`, `RowsInv`. Diagnostics and samples name lines behind the loop, in
  order, and what is said of a line is true of it. What a line is does not depend on
  later lines, so a verdict once given stands (`GovernsStable`, `NamesStable`). The
  table is the values delivered, laid end to end.
- `OutcomeInv` states how a parse can end at all, by mode: which error, at which record.
- `HeaderInv`. The header is told by the lines read. Reading one line more either
  adds one text to one section or none (`StepHeader`), and taking the texts of a
  growing set of lines appends (`KeptGrows`).
- `UnitsInv`. A column has no unit or the token of its position. `Settled` relates the
  columns a callback saw to the present ones, and is kept by both ways they change.

*Reader, pipeline and modes*

- `ReaderInv`. The buffer is the first `limit + 1` bytes of the line in progress,
  and no newline lies between `start` and `pos` while reading: from this, popping
  the CR and testing the kept length gives what the abstract specification
  computes from the whole line, in particular when the byte that was not kept
  is the CR.
- `PipelineParses` is a refinement with the parser's own variables: what the loop makes of
  a line the reader took is one of the parser's lines (`ClassifyType`), so each step
  of the composition is one of the parser or none. All theorems of the parser
  hold of the composition by it.
- `FileInv`. Counting the newlines before a position finds the lines of the file
  without the reader. Line `k` consumed is line `k` of the file, as the loop
  classified it (`ParsedAs`); with the parser's theorem that rows are those of the lines
  consumed, rows are those of the file.
- `EveryStepProgresses` gives three steps to each byte that is left and up to three to
  the line in progress; the invariant is needed for `pos` not to pass the end.
- `TwinInv`. Until strict parsing stops at a record the two parses are in the same
  state, and from then on the recovering one has reported that record first.

*Laps and series*

- `LapInv`. `SectorsPartitionLap` speaks of finished laps. The invariant states the
  same of the running one (the first `next_sector` sectors are crossed, in time
  order, not before the lap's start), and that nothing pending is earlier than
  what is recorded, which needs interpolation to be monotonic and to stay in the
  pair.
- `MatchInv`. The laps are those of the crossings handled, and so is the running one.
  A sector crossed in a stretch of crossings is defined by a recursive function; it
  exists, is unique, and changes by one crossing more as the detector does.
- `ReturnInv`. Twice the crossings of a one-way gate, the pending one included, are at
  most the pairs, and one more while the vehicle is on the far side.
- `IInv` of Smoothing. While no window has overflowed, the running sum and count
  are the differences of the prefix sums at the two ends of the window.
- `SeriesInv`. What is evaluated was validated, so its timestamps ascend; with that, the
  binary search finds a sample or two neighbours, and an interpolated value lies
  between theirs.
- `GridInv`. A grid, or the refusal of one, speaks of the request in progress.

*Telemetry*

- `ClockInv`. `previous_time` is the time of day of the last row with a time, and
  while the timeline moves forward by less than half a day at a time, the elapsed
  time is its length: the forward difference of two times of day is then the
  difference of the clocks, whether or not midnight lies between.
- `AnomalyInv`. What the elapsed time leaves out of the timeline is a sum of its steps
  back and of whole days, and the anomalies are those steps, counted.
- `DistanceInv`. The distance covers every displacement up to the last point; the
  triangle inequality carries it over the next leg.
- `SumInv`, `ReportInv`. The sum is at most the maximum times the count, and the
  report repeats them.
- `PeakInv`. The mean change over a stretch is the mediant of the mean over all
  but its last step and the last step, and the peaks bound both; comparison of
  quotients is transitive.
- `SumInv` of ChannelSummary. Minimum and maximum are products of cells; the sum,
  while finite, lies between each of them times the number of samples.
- `FormatInv`. The counters are the numbers of rows they count, and the decision follows
  from them. A packed row reads as packed (`PackedRoundTrip`), so with at least
  half of them the majority test fails.

*Exports*

- `OutInv`. While the call runs, what was written and what is buffered make up
  what was emitted.
- `ExportInv`. The output is described by facts that survive joining two stretches of
  it: which cells it holds and in which order, what leads them, whether chunks
  are whole, whether a time follows its point. Each call of the encoder adds a
  stretch whose facts are those of the rows it wrote.

`BasicLemmas` holds what these proofs share: sums and products of naturals, sequences
put together, the row-major place of a cell, and induction over the naturals, stated
over a set of naturals instead of a predicate. By it the value of `FlattenSeq` is
characterised (`FlattenAppend`, `FlattenRows`) and so is that of each recursive
function above.

The assumptions are the `ASSUME`s of the modules: what the finite kinds of data are,
that bounds are naturals, and the triangle inequality of `Metric`.

## What is only model-checked

`ParseReturns`, the one liveness property: it needs that a step is enabled while the
parse runs, and fairness. `ParsingProgresses` is the part of it that can be
proved: no parse takes more than three steps for each byte, and one.

## What is not modelled

- Geometry, trigonometry and floating point: `gate_crossing_fraction` is reduced to
  signs and fractions, `haversine_metres` to a metric. Loss of precision in sums is
  left out everywhere; overflow to infinity is modelled where the code meets it.
- `Vec::with_capacity(max_line_bytes + 1)` and every other allocation failure.
- The csv, parquet, XML and serde encodings, and the Parquet writer's own metadata.
- The satellite byte (`telemetry.rs:194-210`), which has no state.
- Alias and unit tables, name normalisation and number parsing: pure tables, reduced to
  what they decide.
- The accessors of `types.rs` that only return a field.
- `lib.rs` (re-exports), the fuzz target, tests, benchmarks and CI.

## Plan

Done: all components that change state, their properties, and a theorem for each safety
property. What is left, in order of weight:

1. Abstract specifications above the parser and the lap detector: a parse as a function of
   the lines consumed, laps as a function of the crossings, each implemented by its
   module with the invariants above as the step relation.
2. What the decoders refuse: lemmas for the cells that are no times and no positions, beside
   those for the cells that are.
3. The number of steps of the other passes, as `EveryStepProgresses` gives it for parsing.
