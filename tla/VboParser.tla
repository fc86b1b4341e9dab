------------------------------ MODULE VboParser ------------------------------
(***************************************************************************)
(* The section state machine of `Parser::parse_bufread_inner`              *)
(* (src/parser.rs), together with the visitor `parse_reader` and           *)
(* `parse_reader_recovering` pass to it.                                   *)
(*                                                                         *)
(* One action is one iteration of the `while let` loop: it takes the next  *)
(* physical line, as `read_bounded_line` delivers it, and follows the code *)
(* to the `continue`, to the end of the loop body, or to the `return`.     *)
(*                                                                         *)
(* A line is what the loop tells apart: too long, blank once trimmed, not  *)
(* UTF-8, a bracketed marker, or a text.  A text is the sequence of its    *)
(* whitespace-separated fields; a field is a number `parse_float` accepts  *)
(* or a word it rejects.                                                   *)
(***************************************************************************)
EXTENDS Integers, Sequences

CONSTANTS
  Number,        \* fields `parse_float` accepts
  Word,          \* fields it rejects
  FileCreated,   \* the texts that start with "file created", in any letter case
  UnknownName,   \* bracketed names `Section::from_marker` does not know
  NoUnit,        \* `Channel::unit` is None
  Lines,         \* the physical lines an input may contain
  MaxRows,       \* ParseOptions::max_rows
  MaxIssues,     \* ParseOptions::max_issues
  MaxLines       \* bound: the number of physical lines of an input

Field == Number \cup Word
Text  == Seq(Field) \ {<<>>}

Section == {"preamble", "header", "channel units", "comments",
            "column names", "data", "other"}

KnownName  == Section \ {"preamble", "other"}
MarkerName == KnownName \cup UnknownName

Line ==
       [kind : {"oversized", "blank", "notUtf8"}]
  \cup [kind : {"marker"}, name : MarkerName]
  \cup [kind : {"text"}, text : Text]

ASSUME ParserAssumption ==
  /\ Lines \subseteq Line
  /\ Number \cap Word = {}
  /\ FileCreated \subseteq {t \in Text : Len(t) > 1 /\ t[1] \in Word}
  /\ NoUnit \notin Field
  /\ UnknownName \cap KnownName = {}
  /\ MaxRows \in Nat /\ MaxIssues \in Nat /\ MaxLines \in Nat

(***************************************************************************)
(* Why a data record is not a row: the record-local `ParseError`s, which   *)
(* `issue_from` turns into the `ParseIssueKind` of the same name.          *)
(***************************************************************************)
LineTooLong == [tag |-> "LineTooLong"]
WrongColumnCount(expected, found) ==
  [tag |-> "WrongColumnCount", expected |-> expected, found |-> found]
InvalidNumber(column) == [tag |-> "InvalidNumber", column |-> column]

RowError ==
       [tag : {"WrongColumnCount"}, expected : Nat, found : Nat]
  \cup [tag : {"InvalidNumber"}, column : Nat \ {0}]
IssueKind == {LineTooLong} \cup RowError

(***************************************************************************)
(* What the call returned: nothing yet, Ok, or a ParseError.  An error that *)
(* names a line names the one just read, so `line` stands for its field.   *)
(***************************************************************************)
Running == [tag |-> "Running"]
Ok      == [tag |-> "Ok"]
FatalTag == {"Io", "InvalidUtf8", "MissingColumnNames", "MissingData",
             "RowLimit", "IssueLimit"}
Fatal(tag) == [tag |-> tag]

ParseError == {Fatal(t) : t \in FatalTag} \cup IssueKind

VARIABLES
  recover,     \* force_recovery || !strict
  section,     \* the section the next text belongs to
  line,        \* one-based number of the last physical line read
  created,     \* header.created, <<>> when None
  sections,    \* header.sections, <<>> for an absent entry
  channels,    \* the schema so far
  units,       \* the unit tokens so far
  data_seen,   \* a [data] marker was reached
  rows,        \* accepted rows
  row_values,  \* the row buffer every callback borrows
  values,      \* the table `parse_reader`'s visitor accumulates
  issues,      \* recovery diagnostics
  result,      \* what the call returned
  consumed,    \* history: the physical lines read
  delivered    \* history: the StreamSamples the visitor was called with

header  == <<created, sections>>
schema  == <<channels, units>>
table   == <<rows, row_values, values, delivered>>
vars    == <<recover, section, line, header, schema, data_seen, table,
             issues, result, consumed>>

Init ==
  /\ \E force_recovery, strict \in BOOLEAN : recover = (force_recovery \/ ~strict)
  /\ section = "preamble"
  /\ line = 0
  /\ created = <<>>
  /\ sections = [s \in Section |-> <<>>]
  /\ channels = <<>>
  /\ units = <<>>
  /\ data_seen = FALSE
  /\ rows = 0
  /\ row_values = <<>>
  /\ values = <<>>
  /\ issues = <<>>
  /\ result = Running
  /\ consumed = <<>>
  /\ delivered = <<>>

-----------------------------------------------------------------------------
(***************************************************************************)
(* Helpers of the loop.                                                    *)
(***************************************************************************)

FromMarker(name) == IF name \in KnownName THEN name ELSE "other"

\* Positional: the i-th unit token belongs to the i-th channel.
ApplyUnits(chans, toks) ==
  [i \in DOMAIN chans |->
     IF i <= Len(toks) THEN [chans[i] EXCEPT !.unit = toks[i]] ELSE chans[i]]

FirstBad(text) ==
  CHOOSE c \in DOMAIN text :
    /\ text[c] \notin Number
    /\ \A d \in 1..(c - 1) : text[d] \in Number

\* The buffer holds the whole row, or what it held before.
ParseRowInto(output, text, expected) ==
  IF Len(text) # expected
    THEN [ok |-> FALSE, error |-> WrongColumnCount(expected, Len(text)), output |-> output]
  ELSE IF \E c \in DOMAIN text : text[c] \notin Number
    THEN [ok |-> FALSE, error |-> InvalidNumber(FirstBad(text)), output |-> output]
  ELSE [ok |-> TRUE, output |-> output \o text]

\* Mutants: the buffer is not cleared, the width is not compared.
UnclearedRow(text) == ParseRowInto(row_values, text, Len(channels))
RaggedRow(text)    == ParseRowInto(<<>>, text, Len(text))

\* `row_values.clear()` comes first.
ParsedRow(text) == ParseRowInto(<<>>, text, Len(channels))

\* Mutant: the cap is compared with the row's index, not with the row count.
TableOverfull == rows > MaxRows

TableFull == rows >= MaxRows

Return(outcome) == result' = outcome

\* Mutants: the diagnostic names the line before; a full list drops it silently.
PushIssueAtLineBefore(kind) ==
  \/ /\ Len(issues) < MaxIssues
     /\ issues' = Append(issues, [line |-> line, kind |-> kind])
     /\ UNCHANGED result
  \/ /\ Len(issues) >= MaxIssues
     /\ Return(Fatal("IssueLimit"))
     /\ UNCHANGED issues
PushIssueOrDrop(kind) ==
  /\ issues' = IF Len(issues) < MaxIssues
                 THEN Append(issues, [line |-> line', kind |-> kind]) ELSE issues
  /\ UNCHANGED result

PushIssue(kind) ==
  \/ /\ Len(issues) < MaxIssues
     /\ issues' = Append(issues, [line |-> line', kind |-> kind])
     /\ UNCHANGED result
  \/ /\ Len(issues) >= MaxIssues
     /\ Return(Fatal("IssueLimit"))
     /\ UNCHANGED issues

ReadLine(l) ==
  /\ result = Running
  /\ Len(consumed) < MaxLines
  /\ line' = line + 1
  /\ consumed' = Append(consumed, l)
  /\ UNCHANGED recover

PushText(s, text) == sections' = [sections EXCEPT ![s] = Append(@, text)]

-----------------------------------------------------------------------------
(***************************************************************************)
(* One action per way through the loop body.                               *)
(***************************************************************************)

OversizedRecord(l) ==
  /\ l.kind = "oversized"
  /\ recover /\ section = "data"
  /\ ReadLine(l)
  /\ PushIssue(LineTooLong)
  /\ UNCHANGED <<section, header, schema, data_seen, table>>

OversizedLine(l) ==
  /\ l.kind = "oversized"
  /\ ~(recover /\ section = "data")
  /\ ReadLine(l)
  /\ Return(LineTooLong)
  /\ UNCHANGED <<section, header, schema, data_seen, table, issues>>

BlankLine(l) ==
  /\ l.kind = "blank"
  /\ ReadLine(l)
  /\ UNCHANGED <<section, header, schema, data_seen, table, issues, result>>

\* Mutant: recovery passes over the line.
SkipNotUtf8Line(l) ==
  /\ l.kind = "notUtf8"
  /\ ReadLine(l)
  /\ result' = IF recover THEN result ELSE Fatal("InvalidUtf8")
  /\ UNCHANGED <<section, header, schema, data_seen, table, issues>>

NotUtf8Line(l) ==
  /\ l.kind = "notUtf8"
  /\ ReadLine(l)
  /\ Return(Fatal("InvalidUtf8"))
  /\ UNCHANGED <<section, header, schema, data_seen, table, issues>>

DataMarkerWithoutSchema(l) ==
  /\ l.kind = "marker" /\ FromMarker(l.name) = "data"
  /\ channels = <<>>
  /\ ReadLine(l)
  /\ Return(Fatal("MissingColumnNames"))
  /\ UNCHANGED <<section, header, schema, data_seen, table, issues>>

DataMarker(l) ==
  /\ l.kind = "marker" /\ FromMarker(l.name) = "data"
  /\ channels # <<>>
  /\ ReadLine(l)
  /\ data_seen' = TRUE
  /\ channels' = ApplyUnits(channels, units)
  /\ section' = "data"
  /\ UNCHANGED <<header, units, table, issues, result>>

OtherMarker(l) ==
  /\ l.kind = "marker" /\ FromMarker(l.name) # "data"
  /\ ReadLine(l)
  /\ section' = FromMarker(l.name)
  /\ UNCHANGED <<header, schema, data_seen, table, issues, result>>

\* Mutant: a later creation line replaces the first.
LastCreatedText(l) ==
  /\ l.kind = "text" /\ section = "preamble"
  /\ l.text \in FileCreated
  /\ ReadLine(l)
  /\ created' = l.text
  /\ UNCHANGED <<section, sections, schema, data_seen, table, issues, result>>

CreatedText(l) ==
  /\ l.kind = "text" /\ section = "preamble"
  /\ created = <<>> /\ l.text \in FileCreated
  /\ ReadLine(l)
  /\ created' = l.text
  /\ UNCHANGED <<section, sections, schema, data_seen, table, issues, result>>

PreambleText(l) ==
  /\ l.kind = "text" /\ section = "preamble"
  /\ ~(created = <<>> /\ l.text \in FileCreated)
  /\ ReadLine(l)
  /\ PushText("preamble", l.text)
  /\ UNCHANGED <<section, created, schema, data_seen, table, issues, result>>

ColumnNamesText(l) ==
  /\ l.kind = "text" /\ section = "column names"
  /\ ReadLine(l)
  /\ channels' = channels \o [i \in DOMAIN l.text |-> [name |-> l.text[i], unit |-> NoUnit]]
  /\ UNCHANGED <<section, header, units, data_seen, table, issues, result>>

ChannelUnitsText(l) ==
  /\ l.kind = "text" /\ section = "channel units"
  /\ ReadLine(l)
  /\ units' = units \o l.text
  /\ UNCHANGED <<section, header, channels, data_seen, table, issues, result>>

HeaderText(l) ==
  /\ l.kind = "text" /\ section \in {"header", "comments", "other"}
  /\ ReadLine(l)
  /\ PushText(section, l.text)
  /\ UNCHANGED <<section, created, schema, data_seen, table, issues, result>>

\* The limit is tested before the record is looked at.
RecordOverLimit(l) ==
  /\ l.kind = "text" /\ section = "data"
  /\ TableFull
  /\ ReadLine(l)
  /\ Return(Fatal("RowLimit"))
  /\ UNCHANGED <<section, header, schema, data_seen, table, issues>>

AcceptRecord(l) ==
  /\ l.kind = "text" /\ section = "data"
  /\ ~TableFull
  /\ LET parsed == ParsedRow(l.text) IN
       /\ parsed.ok
       /\ row_values' = parsed.output
       /\ ReadLine(l)
       /\ values' = values \o row_values'
       /\ delivered' = Append(delivered,
            [row |-> rows, line |-> line', values |-> row_values', channels |-> channels])
       /\ rows' = rows + 1
  /\ UNCHANGED <<section, header, schema, data_seen, issues, result>>

\* Mutant: strict mode omits the record too.
AlwaysOmitRecord(l) ==
  /\ l.kind = "text" /\ section = "data"
  /\ ~TableFull
  /\ LET parsed == ParsedRow(l.text) IN
       /\ ~parsed.ok
       /\ row_values' = parsed.output
       /\ ReadLine(l)
       /\ PushIssue(parsed.error)
  /\ UNCHANGED <<section, header, schema, data_seen, rows, values, delivered>>

OmitRecord(l) ==
  /\ l.kind = "text" /\ section = "data"
  /\ ~TableFull
  /\ LET parsed == ParsedRow(l.text) IN
       /\ ~parsed.ok
       /\ recover
       /\ row_values' = parsed.output
       /\ ReadLine(l)
       /\ PushIssue(parsed.error)
  /\ UNCHANGED <<section, header, schema, data_seen, rows, values, delivered>>

RejectRecord(l) ==
  /\ l.kind = "text" /\ section = "data"
  /\ ~TableFull
  /\ LET parsed == ParsedRow(l.text) IN
       /\ ~parsed.ok
       /\ ~recover
       /\ row_values' = parsed.output
       /\ ReadLine(l)
       /\ Return(parsed.error)
  /\ UNCHANGED <<section, header, schema, data_seen, rows, values, delivered, issues>>

EndWithoutData ==
  /\ result = Running
  /\ ~data_seen
  /\ Return(Fatal("MissingData"))
  /\ UNCHANGED <<recover, section, line, header, schema, data_seen, table, issues, consumed>>

\* Mutant: units declared after the data are forgotten.
EndWithoutUnits ==
  /\ result = Running
  /\ data_seen
  /\ Return(Ok)
  /\ UNCHANGED <<recover, section, line, header, schema, data_seen, table, issues, consumed>>

EndOfInput ==
  /\ result = Running
  /\ data_seen
  /\ channels' = ApplyUnits(channels, units)
  /\ Return(Ok)
  /\ UNCHANGED <<recover, section, line, header, units, data_seen, table, issues, consumed>>

\* `read_bounded_line(..)?`
ReadFails ==
  /\ result = Running
  /\ Return(Fatal("Io"))
  /\ UNCHANGED <<recover, section, line, header, schema, data_seen, table, issues, consumed>>

Step(l) ==
  \/ OversizedRecord(l)
  \/ OversizedLine(l)
  \/ BlankLine(l)
  \/ NotUtf8Line(l)
  \/ DataMarkerWithoutSchema(l)
  \/ DataMarker(l)
  \/ OtherMarker(l)
  \/ CreatedText(l)
  \/ PreambleText(l)
  \/ ColumnNamesText(l)
  \/ ChannelUnitsText(l)
  \/ HeaderText(l)
  \/ RecordOverLimit(l)
  \/ AcceptRecord(l)
  \/ OmitRecord(l)
  \/ RejectRecord(l)

Progress ==
  \/ \E l \in Lines : Step(l)
  \/ EndWithoutData
  \/ EndOfInput

Next == Progress \/ ReadFails

Spec == Init /\ [][Next]_vars
=============================================================================
