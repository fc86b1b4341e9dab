--------------------------- MODULE StrictVsRecovery ---------------------------
(***************************************************************************)
(* One input parsed twice: `parse_bufread` under strict options and        *)
(* `parse_bufread_recovering` (src/parser.rs), line by line side by side.  *)
(* Each side is VboParser whole; a side that has returned reads no more.   *)
(***************************************************************************)
EXTENDS Integers, Sequences, SequencesExt

CONSTANTS
  Number, Word, FileCreated, UnknownName, NoUnit, Lines, MaxRows, MaxIssues, MaxLines

VARIABLES
  s_recover, s_section, s_line, s_created, s_sections, s_channels, s_units, s_data_seen,
  s_rows, s_row_values, s_values, s_issues, s_result, s_consumed, s_delivered,
  r_recover, r_section, r_line, r_created, r_sections, r_channels, r_units, r_data_seen,
  r_rows, r_row_values, r_values, r_issues, r_result, r_consumed, r_delivered

strict ==
  <<s_recover, s_section, s_line, s_created, s_sections, s_channels, s_units, s_data_seen,
    s_rows, s_row_values, s_values, s_issues, s_result, s_consumed, s_delivered>>
recovering ==
  <<r_recover, r_section, r_line, r_created, r_sections, r_channels, r_units, r_data_seen,
    r_rows, r_row_values, r_values, r_issues, r_result, r_consumed, r_delivered>>
vars == <<strict, recovering>>

S == INSTANCE VboParser WITH
  recover <- s_recover, section <- s_section, line <- s_line, created <- s_created,
  sections <- s_sections, channels <- s_channels, units <- s_units,
  data_seen <- s_data_seen, rows <- s_rows, row_values <- s_row_values,
  values <- s_values, issues <- s_issues, result <- s_result,
  consumed <- s_consumed, delivered <- s_delivered

R == INSTANCE VboParser WITH
  recover <- r_recover, section <- r_section, line <- r_line, created <- r_created,
  sections <- r_sections, channels <- r_channels, units <- r_units,
  data_seen <- r_data_seen, rows <- r_rows, row_values <- r_row_values,
  values <- r_values, issues <- r_issues, result <- r_result,
  consumed <- r_consumed, delivered <- r_delivered

ASSUME EntryPointsAssumption ==
  /\ Lines \subseteq S!Line
  /\ Number \cap Word = {}
  /\ FileCreated \subseteq {t \in S!Text : Len(t) > 1 /\ t[1] \in Word}
  /\ NoUnit \notin S!Field
  /\ UnknownName \cap S!KnownName = {}
  /\ MaxRows \in Nat /\ MaxIssues \in Nat /\ MaxLines \in Nat

Init ==
  /\ S!Init /\ ~s_recover
  /\ R!Init /\ r_recover

StrictStep(l) == IF s_result = S!Running THEN S!Step(l) ELSE UNCHANGED strict
RecoveringStep(l) == IF r_result = R!Running THEN R!Step(l) ELSE UNCHANGED recovering

\* Both sides get the same line.
ReadLine ==
  \E l \in Lines :
    /\ S!Running \in {s_result, r_result}
    /\ StrictStep(l)
    /\ RecoveringStep(l)

\* Both inputs end where the longer reading side has got to.
End ==
  /\ S!Running \in {s_result, r_result}
  /\ IF s_result = S!Running THEN S!EndWithoutData \/ S!EndOfInput ELSE UNCHANGED strict
  /\ IF r_result = R!Running THEN R!EndWithoutData \/ R!EndOfInput ELSE UNCHANGED recovering

Next == ReadLine \/ End

Spec == Init /\ [][Next]_vars

-----------------------------------------------------------------------------
\* What a parse has told its caller so far, diagnostics aside.
StrictReport == <<s_created, s_sections, s_channels, s_delivered, s_result>>
RecoveringReport == <<r_created, r_sections, r_channels, r_delivered, r_result>>

RecordErrors == S!IssueKind

(* The modes differ in nothing but defective records: on an input without  *)
(* one, header, schema, rows and outcome are the same, fatal errors and    *)
(* the row limit included, and there are no diagnostics.                   *)
CleanInputsParseAlike ==
  s_result \notin RecordErrors => r_issues = <<>> /\ RecoveringReport = StrictReport

(* Where strict parsing stops at a record, recovery reports that record    *)
(* first, with the same line and the same reason, unless it may keep no    *)
(* diagnostics at all (an oversized line outside [data] stops both); it    *)
(* delivered every row strict parsing delivered.                           *)
FirstIssueIsTheStrictError ==
  s_result \in RecordErrors =>
    /\ IsPrefix(s_delivered, r_delivered)
    /\ \/ r_issues # <<>> /\ Head(r_issues) = [line |-> s_line, kind |-> s_result]
       \/ r_result = R!Fatal("IssueLimit") /\ MaxIssues = 0 /\ r_line = s_line
       \/ s_section # "data" /\ r_result = s_result /\ r_line = s_line
=============================================================================
