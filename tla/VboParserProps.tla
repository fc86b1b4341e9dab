---------------------------- MODULE VboParserProps ----------------------------
(***************************************************************************)
(* What a parse promises, stated against the history of the physical lines *)
(* it consumed and not against the parser's own variables.                 *)
(***************************************************************************)
EXTENDS VboParser, FiniteSets, FiniteSetsExt, SequencesExt

Channel == [name : Field, unit : Field \cup {NoUnit}]
ParseIssue == [line : Nat \ {0}, kind : IssueKind]
StreamSample == [row : Nat, line : Nat \ {0}, values : Seq(Number),
                 channels : Seq(Channel)]

(***************************************************************************)
(* Reference reading of the consumed lines.                                *)
(***************************************************************************)

Read == 1..line
IsText(k) == consumed[k].kind = "text"

MarkersBefore(k) == {j \in 1..(k - 1) : consumed[j].kind = "marker"}

\* The bracketed name that governs line k, "preamble" before the first one.
MarkerAt(k) ==
  IF MarkersBefore(k) = {} THEN "preamble" ELSE consumed[Max(MarkersBefore(k))].name

\* A marker may itself read [preamble]; no marker is needed to be before any.
InPreamble(k) == IsText(k) /\ MarkersBefore(k) = {}
Governs(name, k) == IsText(k) /\ MarkersBefore(k) # {} /\ MarkerAt(k) = name

IsRecord(k) == MarkerAt(k) = "data" /\ consumed[k].kind \in {"text", "oversized"}

\* The schema when line k is read: every column name token before it.
NamesBefore(k) ==
  FlattenSeq([j \in 1..(k - 1) |->
    IF Governs("column names", j) THEN consumed[j].text ELSE <<>>])

WidthAt(k) == Len(NamesBefore(k))

BadColumns(k) == {c \in DOMAIN consumed[k].text : consumed[k].text[c] \notin Number}

IsWholeRow(k) ==
  IsText(k) /\ Len(consumed[k].text) = WidthAt(k) /\ BadColumns(k) = {}

Defect(k) ==
  IF ~IsText(k) THEN LineTooLong
  ELSE IF Len(consumed[k].text) # WidthAt(k)
    THEN WrongColumnCount(WidthAt(k), Len(consumed[k].text))
  ELSE InvalidNumber(Min(BadColumns(k)))

\* The texts of the lines of S, in source order.
TextsOf(S) ==
  FlattenSeq([k \in Read |-> IF k \in S THEN <<consumed[k].text>> ELSE <<>>])

\* Mutant: the row is scaled by the number of rows.
ValueByColumn(row, column) ==
  IF row < rows /\ column < Len(channels)
    THEN <<values[column * rows + row + 1]>> ELSE <<>>

\* `Vbo::value` of a finished parse, zero-based; <<>> is None.
Value(row, column) ==
  IF row < rows /\ column < Len(channels)
    THEN <<values[row * Len(channels) + column + 1]>> ELSE <<>>

Stopped == result \notin {Running, Ok}
DeliveredLines == {delivered[i].line : i \in DOMAIN delivered}
IssueLines == {issues[i].line : i \in DOMAIN issues}

-----------------------------------------------------------------------------
(* The loop's locals and the caller's view of them keep their types.       *)
TypeOK ==
  /\ recover \in BOOLEAN
  /\ section \in Section
  /\ line \in Nat
  /\ created \in Text \cup {<<>>}
  /\ sections \in [Section -> Seq(Text)]
  /\ channels \in Seq(Channel)
  /\ units \in Seq(Field)
  /\ data_seen \in BOOLEAN
  /\ rows \in Nat
  /\ row_values \in Seq(Number)
  /\ values \in Seq(Number)
  /\ issues \in Seq(ParseIssue)
  /\ result \in {Running, Ok} \cup ParseError
  /\ consumed \in Seq(Line)
  /\ delivered \in Seq(StreamSample)

(* Each callback gets one whole source row: rows are numbered from zero in *)
(* source order, carry the right physical line number, the numbers of      *)
(* exactly that line and as many of them as the schema had columns there;  *)
(* the table parse_reader accumulates is those rows, one after the other.  *)
RowsMatchSource ==
  /\ Len(delivered) = rows
  /\ \A i \in DOMAIN delivered :
       LET sample == delivered[i] IN
         /\ sample.row = i - 1
         /\ i > 1 => delivered[i - 1].line < sample.line
         /\ IsRecord(sample.line) /\ IsWholeRow(sample.line)
         /\ sample.values = consumed[sample.line].text
         /\ Len(sample.channels) = WidthAt(sample.line)
  /\ values = FlattenSeq([i \in DOMAIN delivered |-> delivered[i].values])

(* Every diagnostic of a recovery parse names the physical line it is      *)
(* about, in source order, and gives the true reason: the schema's width   *)
(* at that line against the fields found, or the first field that is not a *)
(* number, or the line's length.                                           *)
IssuesMatchSource ==
  \A i \in DOMAIN issues :
    /\ i > 1 => issues[i - 1].line < issues[i].line
    /\ IsRecord(issues[i].line) /\ ~IsWholeRow(issues[i].line)
    /\ issues[i].kind = Defect(issues[i].line)

(* No record is lost and none counts twice: each record line of a [data]   *)
(* section was delivered or reported, never both, except the one the parse *)
(* stopped at.                                                             *)
RecordsAccountedFor ==
  /\ DeliveredLines \cap IssueLines = {}
  /\ {k \in Read : IsRecord(k)} \ (DeliveredLines \cup IssueLines)
       \subseteq (IF Stopped THEN {line} ELSE {})

(* Strict parsing is transactional: it keeps no diagnostics, succeeds only *)
(* when every record was a whole row, and when a record stops it, the      *)
(* error is that record's own.                                             *)
StrictIsTransactional ==
  ~recover =>
    /\ issues = <<>>
    /\ result = Ok => \A k \in Read : IsRecord(k) => IsWholeRow(k)
    /\ result \in RowError => IsRecord(line) /\ result = Defect(line)

(* The caps hold, and a limit error is raised only by a record that met a  *)
(* full table or, being defective, a full diagnostics list.                *)
LimitsAreExact ==
  /\ rows <= MaxRows /\ Len(issues) <= MaxIssues
  /\ result = Fatal("RowLimit") => rows = MaxRows /\ IsRecord(line) /\ IsText(line)
  /\ result = Fatal("IssueLimit") =>
       recover /\ Len(issues) = MaxIssues /\ IsRecord(line) /\ ~IsWholeRow(line)

(* A finished parse attaches the i-th unit token to the i-th column,       *)
(* wherever [channel units] stood, and nothing a callback saw of a column  *)
(* is later contradicted: its name stays, its unit was absent or final.    *)
UnitsSettle ==
  /\ result = Ok =>
       /\ \A i \in DOMAIN channels :
            channels[i].unit = IF i <= Len(units) THEN units[i] ELSE NoUnit
       /\ units = FlattenSeq(TextsOf({k \in Read : Governs("channel units", k)}))
  /\ \A i \in DOMAIN delivered : \A c \in DOMAIN delivered[i].channels :
       LET seen == delivered[i].channels[c] IN
         /\ seen.name = channels[c].name
         /\ seen.unit \in {NoUnit, channels[c].unit}

(* The header keeps every text that is not semantic, in source order under *)
(* its section: the first "file created" text of the preamble as the       *)
(* creation line, all other preamble texts, and the texts of [header] and  *)
(* [comments] even when those sections are reopened.                       *)
HeaderIsPreserved ==
  LET preamble == {k \in Read : InPreamble(k)}
      stamps == {k \in preamble : consumed[k].text \in FileCreated}
      unknown == {k \in Read : \E name \in UnknownName : Governs(name, k)}
  IN  /\ created = IF stamps = {} THEN <<>> ELSE consumed[Min(stamps)].text
      /\ sections["preamble"] =
           TextsOf(IF stamps = {} THEN preamble ELSE preamble \ {Min(stamps)})
      /\ \A s \in {"header", "comments"} :
           sections[s] = TextsOf({k \in Read : Governs(s, k)})
      /\ sections["other"] = TextsOf(unknown)
      /\ \A s \in {"column names", "channel units", "data"} : sections[s] = <<>>

(* The table is rectangular whenever the schema did not grow after the     *)
(* first accepted row: then `values[row * width + column]` is in bounds    *)
(* for every cell `Vbo::value` and `detect_coordinate_format` address.     *)
RectangularWhenSchemaFrozen ==
  rows > 0 /\ Len(delivered[1].channels) = Len(channels)
    => Len(values) = rows * Len(channels)

(* The table and the stream are two views of the same rows: a cell read    *)
(* back by row and column is the one the visitor got, and a cell outside   *)
(* the table, next to its last row or column included, is None.            *)
TableAgreesWithStream ==
  result = Ok /\ (\A i \in DOMAIN delivered : Len(delivered[i].channels) = Len(channels)) =>
    \A row \in 0..rows : \A column \in 0..Len(channels) :
      Value(row, column) =
        IF row < Len(delivered) /\ column < Len(delivered[row + 1].values)
          THEN <<delivered[row + 1].values[column + 1]>> ELSE <<>>

-----------------------------------------------------------------------------
(***************************************************************************)
(* What the documentation says and the code does not do.                   *)
(***************************************************************************)

(* src/types.rs: constructing a Vbo through Parser "preserves its row/     *)
(* column invariants": a finished table is rectangular.                    *)
FinishedTableIsRectangular ==
  result = Ok => Len(values) = rows * Len(channels)

(* src/parser.rs, parse_bufread_recovering: a malformed data row is        *)
(* recorded "instead of stopping"; max_rows is a cap on accepted rows, so  *)
(* only a row that would be accepted may exceed it.                        *)
RowLimitStopsAtAcceptableRow ==
  result = Fatal("RowLimit") => IsWholeRow(line)

(* docs/VBO_FORMAT.md: "Unknown header metadata is preserved verbatim by   *)
(* section": the texts of an unknown section form an entry of their own.   *)
UnknownSectionsKeptApart ==
  \A name \in UnknownName :
    LET texts == TextsOf({k \in Read : Governs(name, k)})
    IN  texts = <<>> \/ \E s \in Section : sections[s] = texts
=============================================================================
